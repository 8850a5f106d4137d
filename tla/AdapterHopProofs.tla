--------------------------- MODULE AdapterHopProofs ---------------------------
(***************************************************************************)
(* Proofs about the adapters and the hops they make.                       *)
(*                                                                         *)
(* First the calls: whatever accounts a block holds, an adapter makes the  *)
(* right call of them or none (CallsRight, NoneRefused), and reads as many *)
(* accounts whatever it is offered (LengthOfAmount).  Then the money: what *)
(* each helper of the ledger, each hook and the DEX may change.  Then      *)
(* AdapterInv, one lemma for each action, and the theorems.  Last, that a  *)
(* fork in five steps is one step of SwapRouter (ForksRefine).             *)
(***************************************************************************)
EXTENDS AdapterHop, TLAPS

(* What a call of each kind carries for the hooks.                         *)
Shaped(c) ==
  /\ c.most \in Nat
  /\ \/ c.kind = "token" /\ c.hook = "none"
     \/ c.kind = "token" /\ c.hook = "repaid" /\ "payer" \in DOMAIN c.roles
     \/ /\ c.kind = "buy" /\ c.hook \in {"refund", "rent"}
        /\ {"source", "program", "payer"} \subseteq DOMAIN c.roles
     \/ /\ c.kind = "sell" /\ c.hook \in {"promised", "promisedOnly", "received"}
        /\ {"dest", "program"} \subseteq DOMAIN c.roles
        /\ c.hook = "promised" => "payer" \in DOMAIN c.roles

Right(b, x, c) == CallRight(b, x, c) /\ Shaped(c)

(* Whole lots of an amount are at most the amount.                         *)
LEMMA WholeLotsBounded ==
  ASSUME NEW x \in Nat
  PROVE  WholeLots(x) \in Nat /\ WholeLots(x) <= x
  BY AdapterAssumption DEF WholeLots

(* The user's accounts by side, in one order or the other.                 *)
LEMMA SidesOrdered ==
  ASSUME NEW b, NEW u \in UserSides(b)
  PROVE  /\ u = <<b.from, b.to>> \/ u = <<b.to, b.from>>
         /\ MintOf[u[1]] = b.pool[1] /\ MintOf[u[2]] = b.pool[2]
  BY DEF UserSides

(* Adapters that go both ways take from either side of their pool.         *)
LEMMA BothWays ==
  ASSUME NEW b, b.dex \in FlaggedDexes \cup SidedDexes \cup PositionalDexes
                          \cup {"SolRfq", "SanctumWsolSwap", "SanctumNonWsolSwap"}
  PROVE  Tradable(b) <=> \/ MintOf[b.from] = b.pool[1] /\ MintOf[b.to] = b.pool[2]
                         \/ MintOf[b.from] = b.pool[2] /\ MintOf[b.to] = b.pool[1]
<1>1. b.dex \notin LamportBuys \cup FirstSideDexes
  BY DEF FlaggedDexes, SidedDexes, PositionalDexes, LamportBuys, FirstSideDexes
<1>2. b.dex \notin LamportSells \cup SecondSideDexes
  BY DEF FlaggedDexes, SidedDexes, PositionalDexes, LamportSells, SecondSideDexes
<1>3. Directions(b.dex) = 1..2
  BY <1>1, <1>2 DEF Directions
<1>4. Tradable(b) <=>
        \E i \in 1..2 : MintOf[b.from] = b.pool[i] /\ MintOf[b.to] = b.pool[3 - i]
  BY <1>3 DEF Tradable
<1> QED
  BY <1>4

(* Adapters that go one way take from one side.                            *)
LEMMA OneWayOnly ==
  ASSUME NEW b, NEW i \in 1..2,
         i = 1 => b.dex \in FirstSideDexes, i = 2 => b.dex \in SecondSideDexes
  PROVE  Tradable(b) <=> MintOf[b.from] = b.pool[i] /\ MintOf[b.to] = b.pool[3 - i]
<1>1. CASE i = 1
  <2>1. b.dex \notin LamportSells \cup SecondSideDexes
    BY <1>1 DEF FirstSideDexes, LamportSells, SecondSideDexes
  <2>2. Directions(b.dex) = {1}
    BY <1>1, <2>1 DEF Directions
  <2> QED
    BY <1>1, <2>2 DEF Tradable
<1>2. CASE i = 2
  <2>1. b.dex \notin LamportBuys \cup FirstSideDexes
    BY <1>2 DEF FirstSideDexes, LamportBuys, SecondSideDexes
  <2>2. Directions(b.dex) = {2}
    BY <1>2, <2>1 DEF Directions
  <2> QED
    BY <1>2, <2>2 DEF Tradable
<1> QED
  BY <1>1, <1>2

(* A call flagged with the side that holds the source is right.            *)
LEMMA FlaggedRight ==
  ASSUME NEW b, NEW x \in Nat, NEW len, NEW most \in Nat, most <= x,
         b.dex \in FlaggedDexes,
         NEW u, NEW forward \in BOOLEAN,
         forward => u = <<b.from, b.to>>, ~forward => u = <<b.to, b.from>>,
         Tradable(b) => MintOf[b.from] = b.pool[IF forward THEN 1 ELSE 2],
         b.pool[1] # b.pool[2]
  PROVE  Right(b, x, Flagged(len, b, u, forward, most))
<1> DEFINE c == Flagged(len, b, u, forward, most)
<1>3. Tradable(b) <=> \/ MintOf[b.from] = b.pool[1] /\ MintOf[b.to] = b.pool[2]
                      \/ MintOf[b.from] = b.pool[2] /\ MintOf[b.to] = b.pool[1]
  BY BothWays
<1>4. /\ c.most = most /\ c.roles = [authority |-> b.authority]
      /\ c.kind = "token" /\ c.hook = "none"
  BY DEF Flagged, TokenCall
<1>5. RolesRight(b, c.roles)
  BY <1>4 DEF RolesRight
<1>6. c.debit = b.from /\ c.credit = b.to
  BY DEF Flagged, TokenCall
<1>7. c.into = IF forward THEN 1 ELSE 2
  BY DEF Flagged, TokenCall
<1>8. Accepts(b.pool, c) <=> Tradable(b)
  BY <1>3, <1>4, <1>6, <1>7 DEF Accepts
<1> QED
  BY <1>4, <1>5, <1>6, <1>8 DEF CallRight, Shaped, Right

(* The adapters that require both mints: they flag the side of the source. *)
LEMMA BothMintsRight ==
  ASSUME NEW b, NEW x \in Nat, NEW len, NEW most \in Nat, most <= x,
         b.dex \in FlaggedDexes, b.pool[1] # b.pool[2],
         NEW u \in UserSides(b),
         NEW forward \in BOOLEAN, forward <=> MintOf[b.from] = b.pool[1]
  PROVE  Right(b, x, Flagged(len, b, u, forward, most))
<1>1. u = <<b.from, b.to>> \/ u = <<b.to, b.from>>
  BY SidesOrdered
<1>2. MintOf[u[1]] = b.pool[1] /\ MintOf[u[2]] = b.pool[2]
  BY SidesOrdered
<1>3. /\ forward => u = <<b.from, b.to>>
      /\ ~forward => u = <<b.to, b.from>>
  BY <1>1, <1>2
<1>4. Tradable(b) => MintOf[b.from] = b.pool[IF forward THEN 1 ELSE 2]
  BY <1>1, <1>2, <1>3
<1> QED
  BY <1>1, <1>3, <1>4, FlaggedRight

(* The adapters that look at one mint order the accounts by the flag.      *)
LEMMA OneMintRight ==
  ASSUME NEW b, NEW x \in Nat, NEW len, b.dex \in FlaggedDexes, b.pool[1] # b.pool[2],
         NEW forward \in BOOLEAN,
         Tradable(b) => MintOf[b.from] = b.pool[IF forward THEN 1 ELSE 2]
  PROVE  Right(b, x, Flagged(len, b, IF forward THEN <<b.from, b.to>>
                                                    ELSE <<b.to, b.from>>, forward, x))
<1> DEFINE u == IF forward THEN <<b.from, b.to>> ELSE <<b.to, b.from>>
<1>1. /\ forward => u = <<b.from, b.to>>
      /\ ~forward => u = <<b.to, b.from>>
  OBVIOUS
<1> HIDE DEF u
<1>2. Right(b, x, Flagged(len, b, u, forward, x))
  BY <1>1, FlaggedRight
<1> QED
  BY <1>2 DEF u

(* A call that names the source and the destination themselves, and a side *)
(* of the pool, is right if that is the side the pair is tradable from.    *)
LEMMA NamedRight ==
  ASSUME NEW b, NEW x \in Nat, NEW len, NEW i \in 1..2,
         Tradable(b) <=> MintOf[b.from] = b.pool[i] /\ MintOf[b.to] = b.pool[3 - i]
  PROVE  Right(b, x, TokenCall(len, b, b.from, b.to, i, x))
<1> DEFINE c == TokenCall(len, b, b.from, b.to, i, x)
<1>1. /\ c.most = x /\ c.roles = [authority |-> b.authority]
      /\ c.debit = b.from /\ c.credit = b.to /\ c.into = i
      /\ c.kind = "token" /\ c.hook = "none"
  BY DEF TokenCall
<1>2. RolesRight(b, c.roles)
  BY <1>1 DEF RolesRight
<1>3. Accepts(b.pool, c) <=> Tradable(b)
  BY <1>1 DEF Accepts
<1> QED
  BY <1>1, <1>2, <1>3 DEF CallRight, Shaped, Right

(* The side of the source is the side the pair is tradable from.           *)
LEMMA FromSourceSide ==
  ASSUME NEW b, NEW i \in 1..2, b.pool[1] # b.pool[2], MintOf[b.from] = b.pool[i],
         b.dex \in SidedDexes \cup PositionalDexes
                   \cup {"SolRfq", "SanctumWsolSwap", "SanctumNonWsolSwap"}
  PROVE  Tradable(b) <=> MintOf[b.from] = b.pool[i] /\ MintOf[b.to] = b.pool[3 - i]
<1>1. i = 1 \/ i = 2
  OBVIOUS
<1>2. Tradable(b) <=> \/ MintOf[b.from] = b.pool[1] /\ MintOf[b.to] = b.pool[2]
                      \/ MintOf[b.from] = b.pool[2] /\ MintOf[b.to] = b.pool[1]
  BY BothWays
<1> QED
  BY <1>1, <1>2

(* Every call of an adapter that orders the user's accounts is right.      *)
LEMMA FlaggedDexesRight ==
  ASSUME NEW b, NEW x \in Nat, NEW quote, b.dex \in FlaggedDexes,
         b.pool[1] # b.pool[2],
         b.dex = "Virtuals" => b.pool[1] = VirtualMint,
         NEW c \in CallsOf(b.dex, b, x, quote)
  PROVE  Right(b, x, c)
<1> DEFINE w == WholeLots(x)
<1>1. w \in Nat /\ w <= x
  BY WholeLotsBounded
<1> HIDE DEF w
<1>2. b.dex \in FlaggedDexes
  OBVIOUS
<1>3. ASSUME NEW u \in UserSides(b), NEW len,
             NEW forward \in BOOLEAN, forward <=> MintOf[b.from] = b.pool[1]
      PROVE  Right(b, x, Flagged(len, b, u, forward, x))
  BY <1>2, <1>3, BothMintsRight
<1>4. ASSUME NEW u \in UserSides(b), NEW len
      PROVE  Right(b, x, Flagged(len, b, u, FromFirst(b), w))
  BY <1>1, <1>2, BothMintsRight DEF FromFirst
<1>5. ASSUME NEW u \in UserSides(b)
      PROVE  /\ u[1] = b.from <=> MintOf[b.from] = b.pool[1]
             /\ MintOf[b.to] # b.pool[1] <=> MintOf[b.from] = b.pool[1]
  BY SidesOrdered
<1>6. CASE b.dex \in {"AldrinExchangeV1", "AldrinExchangeV2"}
  <2>1. PICK u, len : u \in UserSides(b) /\ c = Flagged(len, b, u, FromFirst(b), x)
    BY <1>6 DEF CallsOf, AbortedDexes, AldrinV1, AldrinV2
  <2> QED
    BY <1>3, <2>1 DEF FromFirst
<1>7. CASE b.dex \in {"Whirlpool", "WhirlpoolV2"}
  <2>1. PICK u, len : u \in UserSides(b) /\ c = Flagged(len, b, u, u[1] = b.from, x)
    BY <1>7 DEF CallsOf, AbortedDexes, Whirlpool, WhirlpoolV2
  <2> QED
    BY <1>3, <1>5, <2>1
<1>8. CASE b.dex \in {"FutarchyAmm", "Gavel", "Whalestreet"}
  <2>1. PICK u, len : u \in UserSides(b) /\ c = Flagged(len, b, u, u[1] = b.from, x)
    BY <1>8 DEF CallsOf, AbortedDexes, Futarchy, Gavel, Whalestreet
  <2> QED
    BY <1>3, <1>5, <2>1
<1>9. CASE b.dex \in {"Phoenix", "OpenBookV2"}
  <2>1. PICK u, len : u \in UserSides(b) /\ c = Flagged(len, b, u, FromFirst(b), w)
    BY <1>9 DEF CallsOf, AbortedDexes, Phoenix, OpenBookV2, w
  <2> QED
    BY <1>4, <2>1
<1>10. CASE b.dex = "ObricV2"
  <2>1. PICK u \in UserSides(b) : c = Flagged(13, b, u, MintOf[b.to] # b.pool[1], x)
    BY <1>10 DEF CallsOf, AbortedDexes, ObricV2
  <2> QED
    BY <1>3, <1>5, <2>1
<1>11. Tradable(b) <=> \/ MintOf[b.from] = b.pool[1] /\ MintOf[b.to] = b.pool[2]
                       \/ MintOf[b.from] = b.pool[2] /\ MintOf[b.to] = b.pool[1]
  BY BothWays
<1>12. CASE b.dex = "Manifest"
  <2>1. PICK j \in 1..2 :
          /\ MintOf[b.from] = b.pool[j]
          /\ c = Flagged(14, b, IF j = 1 THEN <<b.from, b.to>> ELSE <<b.to, b.from>>,
                         j = 1, x)
    BY <1>12 DEF CallsOf, AbortedDexes, Manifest
  <2>2. MintOf[b.from] = b.pool[IF j = 1 THEN 1 ELSE 2]
    BY <2>1
  <2> QED
    BY <1>2, <2>1, <2>2, OneMintRight
<1>13. CASE b.dex = "Virtuals"
  <2> DEFINE forward == MintOf[b.from] = VirtualMint
  <2>1. c = Flagged(11, b, IF forward THEN <<b.from, b.to>> ELSE <<b.to, b.from>>,
                    forward, x)
    <3>1. CASE forward
      BY <1>13, <3>1 DEF CallsOf, AbortedDexes, Virtuals
    <3>2. CASE ~forward
      <4>1. forward = FALSE
        BY <3>2
      <4> QED
        BY <1>13, <3>2, <4>1 DEF CallsOf, AbortedDexes, Virtuals
    <3> QED
      BY <3>1, <3>2
  <2>2. Tradable(b) => MintOf[b.from] = b.pool[IF forward THEN 1 ELSE 2]
    BY <1>11, <1>13
  <2> QED
    BY <1>2, <2>1, <2>2, OneMintRight
<1>14. CASE b.dex \in {"RaydiumLaunchpad", "LetsBonkFun"}
  <2> DEFINE forward == ~(MintOf[b.from] = b.pool[2])
  <2>1. c = Flagged(18, b, IF forward THEN <<b.from, b.to>> ELSE <<b.to, b.from>>,
                    forward, x)
    BY <1>14 DEF CallsOf, AbortedDexes, RaydiumLaunchpad
  <2>2. Tradable(b) => MintOf[b.from] = b.pool[IF forward THEN 1 ELSE 2]
    BY <1>11
  <2> QED
    BY <1>2, <2>1, <2>2, OneMintRight
<1>15. CASE b.dex = "SarosDlmm"
  <2> DEFINE forward == FromFirst(b)
  <2>1. c = Flagged(19, b, IF forward THEN <<b.from, b.to>> ELSE <<b.to, b.from>>,
                    forward, x)
    BY <1>15 DEF CallsOf, AbortedDexes, SarosDlmm
  <2>2. Tradable(b) => MintOf[b.from] = b.pool[IF forward THEN 1 ELSE 2]
    BY <1>11 DEF FromFirst
  <2>3. forward \in BOOLEAN
    BY DEF FromFirst
  <2> QED
    BY <1>2, <2>1, <2>2, <2>3, OneMintRight
<1> QED
  BY <1>6, <1>7, <1>8, <1>9, <1>10, <1>12, <1>13, <1>14, <1>15 DEF FlaggedDexes

(* Every call of an adapter that orders the pool's vaults, or leaves the   *)
(* order to the DEX, is right too.                                         *)
LEMMA NamedDexesRight ==
  ASSUME NEW b, NEW x \in Nat, NEW quote,
         b.dex \in SidedDexes \cup PositionalDexes
                   \cup {"SolRfq", "SanctumWsolSwap", "SanctumNonWsolSwap"},
         b.pool[1] # b.pool[2],
         NEW c \in CallsOf(b.dex, b, x, quote)
  PROVE  Right(b, x, c)
<1>1. CASE b.dex \in SidedDexes
  <2>1. PICK u, len :
          u \in UserSides(b) /\ c = PoolSided(len, b, IF u[1] = b.from THEN 1 ELSE 2, x)
    BY <1>1 DEF SidedDexes, CallsOf, AbortedDexes, FluxBeam, SplTokenSwap, StableSwap
  <2> DEFINE i == IF u[1] = b.from THEN 1 ELSE 2
  <2>2. MintOf[b.from] = b.pool[i]
    BY <2>1, SidesOrdered
  <2>3. i \in 1..2 /\ c = TokenCall(len, b, b.from, b.to, i, x)
    BY <2>1 DEF PoolSided
  <2> HIDE DEF i
  <2> QED
    BY <1>1, <2>2, <2>3, FromSourceSide, NamedRight
<1>2. CASE b.dex \notin SidedDexes
  <2>1. PICK len : c \in Positional(len, b, x)
    <3>1. CASE b.dex \in {"RaydiumSwap", "RaydiumSwapV2", "RaydiumStableSwap",
                      "RaydiumClmmSwap", "RaydiumClmmSwapV2"}
      BY <3>1 DEF CallsOf, AbortedDexes, RaydiumSwap, RaydiumSwapV2, RaydiumStable,
                  RaydiumClmm, RaydiumClmmV2
    <3>2. CASE b.dex \in {"RaydiumCpmmSwap", "MeteoraDynamicpool", "MeteoraLst",
                      "MeteoraDlmm", "MeteoraDlmmSwap2"}
      BY <3>2 DEF CallsOf, AbortedDexes, RaydiumCpmm, MeteoraDynamicpool, MeteoraLst,
                  MeteoraDlmm, MeteoraDlmmSwap2
    <3>3. CASE b.dex \in {"MeteoraDAMMV2", "MeteoraDAMMV2Swap2", "MeteoraDbc",
                      "MeteoraDbc2", "PancakeSwapV3Swap"}
      BY <3>3 DEF CallsOf, AbortedDexes, MeteoraDAMMV2, MeteoraDAMMV2Swap2, MeteoraDbc,
                  MeteoraDbc2, PancakeSwapV3
    <3>4. CASE b.dex \in {"PancakeSwapV3SwapV2", "ByrealClmm", "StabbleSwap", "Saros",
                      "LifinityV2"}
      BY <3>4 DEF CallsOf, AbortedDexes, PancakeSwapV3V2, ByrealClmm, Stabble, Saros, LifinityV2
    <3>5. CASE b.dex \in {"Dooar", "GooseFX", "OneDexSwap", "Woofi", "Numeraire"}
      BY <3>5 DEF CallsOf, AbortedDexes, Dooar, GooseFX, OneDex, Woofi, Numeraire
    <3>6. CASE b.dex = "PerpetualsSwap"
      BY <3>6 DEF CallsOf, AbortedDexes, PerpetualsSwap
    <3>7. CASE b.dex = "SolRfq"
      BY <3>7 DEF CallsOf, AbortedDexes, SolRfq
    <3>8. CASE b.dex \in {"SanctumWsolSwap", "SanctumNonWsolSwap"}
      <4>1. c \in SanctumWsolSwap(b, x) \cup SanctumNonWsolSwap(b, x)
        BY <3>8 DEF CallsOf, AbortedDexes
      <4>2. \/ MintOf[b.from] = Wsol /\ c \in WsolLst(b, x)
            \/ c \in LstWsol(b, x) \cup LstLst(b, x)
        BY <4>1 DEF SanctumWsolSwap, SanctumNonWsolSwap
      <4>3. PICK len : c \in SellsIndex(len, b, MintOf[b.from], x)
        BY <4>2 DEF WsolLst, LstWsol, LstLst
      <4> QED
        BY <4>3 DEF SellsIndex, Positional
    <3> QED
      BY <1>2, <3>1, <3>2, <3>3, <3>4, <3>5, <3>6, <3>7, <3>8 DEF PositionalDexes
  <2>2. PICK i \in 1..2 : /\ MintOf[b.from] = b.pool[i]
                          /\ c = TokenCall(len, b, b.from, b.to, i, x)
    BY <2>1 DEF Positional
  <2> QED
    BY <2>2, FromSourceSide, NamedRight
<1> QED
  BY <1>1, <1>2

(* Every call of an adapter that goes one way is right.                    *)
LEMMA OneWayDexesRight ==
  ASSUME NEW b, NEW x \in Nat, NEW quote,
         b.dex \in (FirstSideDexes \ {"PumpfunammSell3"}) \cup SecondSideDexes,
         NEW c \in CallsOf(b.dex, b, x, quote)
  PROVE  Right(b, x, c)
<1>1. CASE b.dex \in FirstSideDexes \ {"PumpfunammSell3"}
  <2>1. PICK len : c \in OneWay(len, b, 1, x)
    <3>1. CASE b.dex \in {"VertigoBuy", "HeavenSell", "MeteoraVaultDeposit"}
      BY <3>1 DEF CallsOf, AbortedDexes, VertigoBuy, HeavenSell, MeteoraVaultDeposit
    <3>2. CASE b.dex \in {"SaberDecimalWrapperDeposit", "PerpetualsAddLiq",
                          "SanctumAddLiq"}
      BY <3>2 DEF CallsOf, AbortedDexes, SaberDeposit, PerpetualsAddLiq, SanctumAddLiq
    <3>3. CASE b.dex = "SanctumRouter"
      <4>1. c \in SanctumRouter(b, x)
        BY <3>3 DEF CallsOf, AbortedDexes
      <4>2. c \in WithdrawWsol(b, x) \cup StakeWsol(b, x) \cup SwapViaStake(b, x)
        BY <4>1 DEF SanctumRouter
      <4> QED
        BY <4>2 DEF WithdrawWsol, StakeWsol, SwapViaStake
    <3> QED
      BY <1>1, <3>1, <3>2, <3>3 DEF FirstSideDexes
  <2>2. c = TokenCall(len, b, b.from, b.to, 1, x)
    BY <2>1 DEF OneWay
  <2>3. Tradable(b) <=> MintOf[b.from] = b.pool[1] /\ MintOf[b.to] = b.pool[3 - 1]
    BY <1>1, OneWayOnly
  <2> QED
    BY <2>2, <2>3, NamedRight
<1>2. CASE b.dex \in SecondSideDexes
  <2>1. PICK len : c \in OneWay(len, b, 2, x)
    <3>1. CASE b.dex \in {"VertigoSell", "HeavenBuy", "MeteoraVaultWithdraw"}
      BY <3>1 DEF CallsOf, AbortedDexes, VertigoSell, HeavenBuy, MeteoraVaultWithdraw
    <3>2. CASE b.dex \in {"SaberDecimalWrapperWithdraw", "PerpetualsRemoveLiq",
                          "SanctumRemoveLiq"}
      BY <3>2 DEF CallsOf, AbortedDexes, SaberWithdraw, PerpetualsRemoveLiq, SanctumRemoveLiq
    <3>3. CASE b.dex = "PumpfunammBuy3"
      BY <3>3 DEF CallsOf, AbortedDexes, PumpfunammBuy3
    <3> QED
      BY <1>2, <3>1, <3>2, <3>3 DEF SecondSideDexes
  <2>2. c = TokenCall(len, b, b.from, b.to, 2, x)
    BY <2>1 DEF OneWay
  <2>3. Tradable(b) <=> MintOf[b.from] = b.pool[2] /\ MintOf[b.to] = b.pool[3 - 2]
    BY <1>2, OneWayOnly
  <2> QED
    BY <2>2, <2>3, NamedRight
<1> QED
  BY <1>1, <1>2

(* Every call of an adapter that trades tokens is right, but               *)
(* PumpfunammSell3's.                                                      *)
LEMMA TokenCallRight ==
  ASSUME NEW b, NEW x \in Nat, NEW quote,
         b.dex \in TokenDexes \ {"PumpfunammSell3"}, b.pool[1] # b.pool[2],
         b.dex = "Virtuals" => b.pool[1] = VirtualMint,
         NEW c \in CallsOf(b.dex, b, x, quote)
  PROVE  Right(b, x, c)
<1>1. CASE b.dex \in FlaggedDexes
  BY <1>1, FlaggedDexesRight
<1>2. CASE b.dex \in (FirstSideDexes \ {"PumpfunammSell3"}) \cup SecondSideDexes
  BY <1>2, OneWayDexesRight
<1>3. CASE b.dex \in SidedDexes \cup PositionalDexes
                     \cup {"SolRfq", "SanctumWsolSwap", "SanctumNonWsolSwap"}
  BY <1>3, NamedDexesRight
<1>4. PickyDexes \subseteq {"SolRfq", "SanctumWsolSwap", "SanctumNonWsolSwap"}
                           \cup FirstSideDexes
  BY DEF PickyDexes, FirstSideDexes
<1> QED
  BY <1>1, <1>2, <1>3, <1>4 DEF TokenDexes

-----------------------------------------------------------------------------
(* The adapters with hooks.                                                *)

(* A list of accounts has at each position what was put there.             *)
LEMMA ListedAt ==
  ASSUME NEW at, \A p, q \in at : q[1] = p[1] => q = p
  PROVE  \A p \in at : Listing(at)[p[1]] = p[2]
<1> SUFFICES ASSUME NEW p \in at PROVE Listing(at)[p[1]] = p[2]
  OBVIOUS
<1>1. (CHOOSE q \in at : q[1] = p[1]) = p
  OBVIOUS
<1> QED
  BY <1>1 DEF Listing

(* The position that is read from the end.                                 *)
LEMMA LastPosition ==
  ASSUME NEW at, NEW n \in Nat, NEW a, <<n, a>> \in at,
         \A q \in at : q[1] \in Nat /\ q[1] <= n
  PROVE  LastOf(Listing(at)) = n
<1> DEFINE infos == Listing(at)
<1>1. n \in DOMAIN infos /\ \A j \in DOMAIN infos : j \in Nat /\ j <= n
  BY DEF Listing
<1>2. \E i \in DOMAIN infos : \A j \in DOMAIN infos : j <= i
  BY <1>1
<1>3. LastOf(infos) \in DOMAIN infos /\ \A j \in DOMAIN infos : j <= LastOf(infos)
  BY <1>2 DEF LastOf
<1> QED
  BY <1>1, <1>3

(* The sale to the AMM.                                                    *)
LEMMA AmmSellRight ==
  ASSUME NEW b, NEW x \in Nat, b.dex = "PumpfunammSell3",
         NEW c \in PumpfunammSell3(b, x)
  PROVE  Right(b, x, c)
<1> DEFINE at == {<<1, b.authority>>, <<5, b.from>>, <<6, b.to>>, <<21, Payer>>}
           infos == Listing(at)
<1>a. \A p, q \in at : q[1] = p[1] => q = p
  OBVIOUS
<1>b. <<1, b.authority>> \in at /\ <<21, Payer>> \in at
  OBVIOUS
<1>c. \A q \in at : q[1] \in Nat /\ q[1] <= 21
  OBVIOUS
<1> HIDE DEF at
<1>d. \A p \in at : infos[p[1]] = p[2]
  BY <1>a, ListedAt
<1>4. infos[1] = b.authority /\ infos[21] = Payer
  BY <1>b, <1>d
<1>5. LastOf(infos) = 21
  BY <1>b, <1>c, LastPosition
<1> HIDE DEF infos
<1>6. AmmSellRoles(infos) = [authority |-> b.authority, payer |-> Payer]
  BY <1>4, <1>5 DEF AmmSellRoles
<1>7. PICK d \in OneWay(21, b, 1, x) :
        c = [d EXCEPT !.hook = "repaid", !.roles = AmmSellRoles(infos)]
  BY DEF PumpfunammSell3, infos, at
<1>8. d = TokenCall(21, b, b.from, b.to, 1, x)
  BY <1>7 DEF OneWay
<1>9. c = [len |-> 21, kind |-> "token", hook |-> "repaid", debit |-> b.from,
           credit |-> b.to, into |-> 1, most |-> x,
           roles |-> [authority |-> b.authority, payer |-> Payer]]
  BY <1>6, <1>7, <1>8 DEF TokenCall
<1>10. Tradable(b) <=> MintOf[b.from] = b.pool[1] /\ MintOf[b.to] = b.pool[3 - 1]
  BY OneWayOnly DEF FirstSideDexes
<1>11. RolesRight(b, c.roles)
  BY <1>9 DEF RolesRight
<1>12. Accepts(b.pool, c) <=> Tradable(b)
  BY <1>9, <1>10 DEF Accepts
<1>13. CallRight(b, x, c)
  BY <1>9, <1>11, <1>12 DEF CallRight
<1>14. Shaped(c)
  BY <1>9 DEF Shaped
<1> QED
  BY <1>13, <1>14 DEF Right

(* The direction of the adapters that trade lamports.                      *)
LEMMA LamportSide ==
  ASSUME NEW b
  PROVE  /\ b.dex \in LamportBuys =>
              (Tradable(b) <=> MintOf[b.from] = b.pool[1] /\ MintOf[b.to] = b.pool[2])
         /\ b.dex \in LamportSells =>
              (Tradable(b) <=> MintOf[b.from] = b.pool[2] /\ MintOf[b.to] = b.pool[1])
<1>1. ASSUME b.dex \in LamportBuys
      PROVE  Tradable(b) <=> MintOf[b.from] = b.pool[1] /\ MintOf[b.to] = b.pool[2]
  <2>1. b.dex \notin LamportSells \cup SecondSideDexes
    BY <1>1 DEF LamportBuys, LamportSells, SecondSideDexes
  <2>2. Directions(b.dex) = {1}
    BY <1>1, <2>1 DEF Directions
  <2> QED
    BY <2>2 DEF Tradable
<1>2. ASSUME b.dex \in LamportSells
      PROVE  Tradable(b) <=> MintOf[b.from] = b.pool[2] /\ MintOf[b.to] = b.pool[1]
  <2>1. b.dex \notin LamportBuys \cup FirstSideDexes
    BY <1>2 DEF LamportBuys, LamportSells, FirstSideDexes
  <2>2. Directions(b.dex) = {2}
    BY <1>2, <2>1 DEF Directions
  <2> QED
    BY <2>2 DEF Tradable
<1> QED
  BY <1>1, <1>2

(* Their calls are right if their hooks find what they mean.               *)
LEMMA BuyRight ==
  ASSUME NEW b, NEW x \in Nat, NEW len, b.dex \in LamportBuys,
         NEW hook \in {"refund", "rent"}, NEW roles,
         roles = [source |-> b.from, program |-> SplToken, authority |-> b.authority,
                  payer |-> Payer]
  PROVE  Right(b, x, LamportCall(len, "buy", hook, b, x, roles))
<1> DEFINE c == LamportCall(len, "buy", hook, b, x, roles)
<1>1. /\ c.kind = "buy" /\ c.hook = hook /\ c.debit = b.from /\ c.credit = b.to
      /\ c.into = 1 /\ c.most = x /\ c.roles = roles
  BY DEF LamportCall
<1> HIDE DEF c
<1>2. Tradable(b) => Accepts(b.pool, c)
  BY <1>1, LamportSide DEF Accepts
<1>3. RolesRight(b, c.roles)
  BY <1>1 DEF RolesRight
<1>4. CallRight(b, x, c)
  BY <1>1, <1>2, <1>3 DEF CallRight
<1>5. Shaped(c)
  BY <1>1 DEF Shaped
<1> QED
  BY <1>4, <1>5 DEF Right, c

LEMMA SellRight ==
  ASSUME NEW b, NEW x \in Nat, NEW len, b.dex \in LamportSells,
         NEW hook \in {"promised", "promisedOnly", "received"}, NEW roles,
         \/ roles = [dest |-> b.to, authority |-> b.authority, program |-> SplToken,
                     payer |-> Payer]
         \/ /\ hook # "promised"
            /\ roles = [dest |-> b.to, authority |-> b.authority, program |-> SplToken]
         \/ /\ hook # "promised"
            /\ roles = [dest |-> b.to, authority |-> b.authority, program |-> SplToken,
                        recipient |-> b.authority]
  PROVE  Right(b, x, LamportCall(len, "sell", hook, b, x, roles))
<1> DEFINE c == LamportCall(len, "sell", hook, b, x, roles)
<1>1. /\ c.kind = "sell" /\ c.hook = hook /\ c.debit = b.from /\ c.credit = b.to
      /\ c.into = 2 /\ c.most = x /\ c.roles = roles
  BY DEF LamportCall
<1> HIDE DEF c
<1>2. Accepts(b.pool, c) <=> Tradable(b)
  BY <1>1, LamportSide DEF Accepts
<1>3. RolesRight(b, c.roles)
  BY <1>1 DEF RolesRight
<1>4. CallRight(b, x, c)
  BY <1>1, <1>2, <1>3 DEF CallRight
<1>5. Shaped(c)
  BY <1>1 DEF Shaped
<1> QED
  BY <1>4, <1>5 DEF Right, c

(* The lists of the buys ...                                               *)
LEMMA LamportBuysRight ==
  ASSUME NEW b, NEW x \in Nat, NEW quote, b.dex \in LamportBuys \ SlotDexes,
         NEW c \in CallsOf(b.dex, b, x, quote)
  PROVE  Right(b, x, c)
<1> DEFINE found == [source |-> b.from, program |-> SplToken, authority |-> b.authority,
                     payer |-> Payer]
<1>1. CASE b.dex = "PumpfunBuy3"
  <2> DEFINE at == {<<5, b.to>>, <<6, b.authority>>, <<8, SplToken>>,
                    <<16, Payer>>, <<17, b.from>>}
             infos == Listing(at)
  <2>a. \A p, q \in at : q[1] = p[1] => q = p
    OBVIOUS
  <2>b. /\ <<6, b.authority>> \in at /\ <<8, SplToken>> \in at
            /\ <<16, Payer>> \in at /\ <<17, b.from>> \in at
    OBVIOUS
  <2>c. \A q \in at : q[1] \in Nat /\ q[1] <= 17
    OBVIOUS
  <2> HIDE DEF at
  <2>d. \A p \in at : infos[p[1]] = p[2]
    BY <2>a, ListedAt
  <2>1. /\ infos[6] = b.authority
        /\ infos[8] = SplToken
        /\ infos[16] = Payer
        /\ infos[17] = b.from
    BY <2>b, <2>d
  <2>2. LastOf(infos) = 17
    BY <2>b, <2>c, LastPosition
  <2> HIDE DEF infos
  <2>3. PumpfunBuyRoles(infos) = found
    BY <2>1, <2>2 DEF PumpfunBuyRoles
  <2>4. c = LamportCall(17, "buy", "refund", b, x, PumpfunBuyRoles(infos))
    BY <1>1 DEF CallsOf, AbortedDexes, PumpfunBuy3, IfClassic, infos, at
  <2> QED
    BY <2>3, <2>4, BuyRight
<1>2. CASE b.dex = "PumpfunBuy2"
  <2> DEFINE at == {<<5, b.to>>, <<6, b.authority>>, <<8, SplToken>>,
                    <<9, ProgramOf[b.pool[2]]>>, <<17, Payer>>,
                    <<18, b.from>>}
             infos == Listing(at)
  <2>a. \A p, q \in at : q[1] = p[1] => q = p
    OBVIOUS
  <2>b. /\ <<6, b.authority>> \in at /\ <<8, SplToken>> \in at
            /\ <<17, Payer>> \in at /\ <<18, b.from>> \in at
    OBVIOUS
  <2>c. \A q \in at : q[1] \in Nat /\ q[1] <= 18
    OBVIOUS
  <2> HIDE DEF at
  <2>d. \A p \in at : infos[p[1]] = p[2]
    BY <2>a, ListedAt
  <2>1. /\ infos[6] = b.authority
        /\ infos[8] = SplToken
        /\ infos[17] = Payer
        /\ infos[18] = b.from
    BY <2>b, <2>d
  <2>2. LastOf(infos) = 18
    BY <2>b, <2>c, LastPosition
  <2> HIDE DEF infos
  <2>3. PumpfunBuyRoles(infos) = found
    BY <2>1, <2>2 DEF PumpfunBuyRoles
  <2>4. c = LamportCall(18, "buy", "refund", b, x, PumpfunBuyRoles(infos))
    BY <1>2 DEF CallsOf, AbortedDexes, PumpfunBuy2, IfClassic, infos, at
  <2> QED
    BY <2>3, <2>4, BuyRight
<1>3. CASE b.dex = "BoopfunBuy"
  <2> DEFINE at == {<<5, b.to>>, <<6, b.authority>>, <<11, SplToken>>,
                    <<14, Payer>>, <<15, b.from>>}
             infos == Listing(at)
  <2>a. \A p, q \in at : q[1] = p[1] => q = p
    OBVIOUS
  <2>b. /\ <<6, b.authority>> \in at /\ <<11, SplToken>> \in at
            /\ <<14, Payer>> \in at /\ <<15, b.from>> \in at
    OBVIOUS
  <2>c. \A q \in at : q[1] \in Nat /\ q[1] <= 15
    OBVIOUS
  <2> HIDE DEF at
  <2>d. \A p \in at : infos[p[1]] = p[2]
    BY <2>a, ListedAt
  <2>1. /\ infos[6] = b.authority
        /\ infos[11] = SplToken
        /\ infos[14] = Payer
        /\ infos[15] = b.from
    BY <2>b, <2>d
  <2>2. LastOf(infos) = 15
    BY <2>b, <2>c, LastPosition
  <2> HIDE DEF infos
  <2>3. BoopfunBuyRoles(infos) = found
    BY <2>1, <2>2 DEF BoopfunBuyRoles
  <2>4. c = LamportCall(15, "buy", "refund", b, x, BoopfunBuyRoles(infos))
    BY <1>3 DEF CallsOf, AbortedDexes, BoopfunBuy, IfClassic, infos, at
  <2> QED
    BY <2>3, <2>4, BuyRight
<1>4. CASE b.dex = "SugarMoneyBuy"
  <2> DEFINE at == {<<5, b.to>>, <<6, b.authority>>, <<7, b.authority>>,
                    <<9, SplToken>>, <<10, ProgramOf[b.pool[2]]>>,
                    <<16, Payer>>, <<17, b.from>>}
             infos == Listing(at)
  <2>a. \A p, q \in at : q[1] = p[1] => q = p
    OBVIOUS
  <2>b. /\ <<6, b.authority>> \in at /\ <<9, SplToken>> \in at
            /\ <<16, Payer>> \in at /\ <<17, b.from>> \in at
    OBVIOUS
  <2>c. \A q \in at : q[1] \in Nat /\ q[1] <= 17
    OBVIOUS
  <2> HIDE DEF at
  <2>d. \A p \in at : infos[p[1]] = p[2]
    BY <2>a, ListedAt
  <2>1. /\ infos[6] = b.authority
        /\ infos[9] = SplToken
        /\ infos[16] = Payer
        /\ infos[17] = b.from
    BY <2>b, <2>d
  <2>2. LastOf(infos) = 17
    BY <2>b, <2>c, LastPosition
  <2> HIDE DEF infos
  <2>3. SugarBuyRoles(infos) = found
    BY <2>1, <2>2 DEF SugarBuyRoles
  <2>4. c = LamportCall(16, "buy", "refund", b, x, SugarBuyRoles(infos))
    BY <1>4 DEF CallsOf, AbortedDexes, SugarBuy, IfClassic, infos, at
  <2> QED
    BY <2>3, <2>4, BuyRight
<1> QED
  BY <1>1, <1>2, <1>3, <1>4 DEF LamportBuys, SlotDexes

(* ... and of the sells.                                                   *)
LEMMA LamportSellsRight ==
  ASSUME NEW b, NEW x \in Nat, NEW quote, b.dex \in LamportSells \ SlotDexes,
         NEW c \in CallsOf(b.dex, b, x, quote)
  PROVE  Right(b, x, c)
<1> DEFINE found == [dest |-> b.to, authority |-> b.authority, program |-> SplToken,
                     payer |-> Payer]
           bare == [dest |-> b.to, authority |-> b.authority, program |-> SplToken]
<1>1. CASE b.dex = "PumpfunSell3"
  <2> DEFINE at == {<<5, b.from>>, <<6, b.authority>>, <<9, SplToken>>,
                    <<14, b.to>>, <<15, Payer>>}
             infos == Listing(at)
  <2>a. \A p, q \in at : q[1] = p[1] => q = p
    OBVIOUS
  <2>b. /\ <<6, b.authority>> \in at /\ <<9, SplToken>> \in at
            /\ <<14, b.to>> \in at /\ <<15, Payer>> \in at
    OBVIOUS
  <2>c. \A q \in at : q[1] \in Nat /\ q[1] <= 15
    OBVIOUS
  <2> HIDE DEF at
  <2>d. \A p \in at : infos[p[1]] = p[2]
    BY <2>a, ListedAt
  <2>1. /\ infos[6] = b.authority
        /\ infos[9] = SplToken
        /\ infos[14] = b.to
        /\ infos[15] = Payer
    BY <2>b, <2>d
  <2>2. LastOf(infos) = 15
    BY <2>b, <2>c, LastPosition
  <2> HIDE DEF infos
  <2>3. PumpfunSellRoles(infos) = found
    BY <2>1, <2>2 DEF PumpfunSellRoles
  <2>4. c = LamportCall(15, "sell", "promised", b, x, PumpfunSellRoles(infos))
    BY <1>1 DEF CallsOf, AbortedDexes, PumpfunSell3, IfClassic, infos, at
  <2> QED
    BY <2>3, <2>4, SellRight
<1>2. CASE b.dex = "PumpfunSell2"
  <2> DEFINE at == {<<5, b.from>>, <<6, b.authority>>, <<9, SplToken>>,
                    <<10, ProgramOf[b.pool[2]]>>, <<15, b.to>>,
                    <<16, Payer>>}
             infos == Listing(at)
  <2>a. \A p, q \in at : q[1] = p[1] => q = p
    OBVIOUS
  <2>b. /\ <<6, b.authority>> \in at /\ <<9, SplToken>> \in at
            /\ <<15, b.to>> \in at /\ <<16, Payer>> \in at
    OBVIOUS
  <2>c. \A q \in at : q[1] \in Nat /\ q[1] <= 16
    OBVIOUS
  <2> HIDE DEF at
  <2>d. \A p \in at : infos[p[1]] = p[2]
    BY <2>a, ListedAt
  <2>1. /\ infos[6] = b.authority
        /\ infos[9] = SplToken
        /\ infos[15] = b.to
        /\ infos[16] = Payer
    BY <2>b, <2>d
  <2>2. LastOf(infos) = 16
    BY <2>b, <2>c, LastPosition
  <2> HIDE DEF infos
  <2>3. PumpfunSellRoles(infos) = found
    BY <2>1, <2>2 DEF PumpfunSellRoles
  <2>4. c = LamportCall(16, "sell", "promised", b, x, PumpfunSellRoles(infos))
    BY <1>2 DEF CallsOf, AbortedDexes, PumpfunSell2, IfClassic, infos, at
  <2> QED
    BY <2>3, <2>4, SellRight
<1>3. CASE b.dex = "SugarMoneySell"
  <2> DEFINE at == {<<5, b.from>>, <<6, b.authority>>, <<7, b.authority>>,
                    <<9, SplToken>>, <<10, ProgramOf[b.pool[2]]>>,
                    <<16, b.to>>}
             infos == Listing(at)
  <2>a. \A p, q \in at : q[1] = p[1] => q = p
    OBVIOUS
  <2>b. /\ <<6, b.authority>> \in at /\ <<9, SplToken>> \in at
            /\ <<16, b.to>> \in at
    OBVIOUS
  <2>c. \A q \in at : q[1] \in Nat /\ q[1] <= 16
    OBVIOUS
  <2> HIDE DEF at
  <2>d. \A p \in at : infos[p[1]] = p[2]
    BY <2>a, ListedAt
  <2>1. /\ infos[6] = b.authority
        /\ infos[9] = SplToken
        /\ infos[16] = b.to
    BY <2>b, <2>d
  <2>2. LastOf(infos) = 16
    BY <2>b, <2>c, LastPosition
  <2> HIDE DEF infos
  <2>3. SugarSellRoles(infos) = bare
    BY <2>1, <2>2 DEF SugarSellRoles
  <2>4. c = LamportCall(16, "sell", "received", b, x, SugarSellRoles(infos))
    BY <1>3 DEF CallsOf, AbortedDexes, SugarSell, IfClassic, infos, at
  <2> QED
    BY <2>3, <2>4, SellRight
<1> QED
  BY <1>1, <1>2, <1>3 DEF LamportSells, SlotDexes

(* The calls whose slots the caller fills, written out.                    *)
SlotCall(b, x) ==
  CASE b.dex = "BoopfunSell" ->
         [len |-> 16, kind |-> "sell", hook |-> "promisedOnly",
          debit |-> b.slots.held, credit |-> b.to, into |-> 2, most |-> x,
          roles |-> [dest |-> b.to, authority |-> b.slots.trader,
                     program |-> SplToken, recipient |-> b.slots.recipient]]
    [] b.dex = "MoonitBuy" ->
         [len |-> 16, kind |-> "buy", hook |-> "rent",
          debit |-> b.from, credit |-> b.slots.held, into |-> 1, most |-> x,
          roles |-> [source |-> b.slots.wrapped, program |-> SplToken,
                     authority |-> b.slots.trader, payer |-> Payer]]
    [] b.dex = "MoonitSell" ->
         [len |-> 16, kind |-> "sell", hook |-> "received",
          debit |-> b.slots.held, credit |-> b.to, into |-> 2, most |-> x,
          roles |-> [dest |-> b.slots.wrapped, authority |-> b.slots.trader,
                     program |-> SplToken]]

LEMMA SlotCalls ==
  ASSUME NEW b, NEW x, NEW quote, b.dex \in SlotDexes,
         NEW c \in CallsOf(b.dex, b, x, quote)
  PROVE  c = SlotCall(b, x)
<1>1. CASE b.dex = "BoopfunSell"
  <2> DEFINE at == {<<5, b.slots.held>>, <<6, b.slots.trader>>,
                    <<7, b.slots.recipient>>, <<10, SplToken>>, <<13, b.to>>}
             infos == Listing(at)
             roles == [dest |-> b.to, authority |-> b.slots.trader,
                       program |-> SplToken, recipient |-> b.slots.recipient]
  <2>a. \A p, q \in at : q[1] = p[1] => q = p
    OBVIOUS
  <2>b. /\ <<5, b.slots.held>> \in at /\ <<6, b.slots.trader>> \in at
        /\ <<7, b.slots.recipient>> \in at /\ <<10, SplToken>> \in at
        /\ <<13, b.to>> \in at
    OBVIOUS
  <2>c. \A q \in at : q[1] \in Nat /\ q[1] <= 13
    OBVIOUS
  <2> HIDE DEF at
  <2>d. \A p \in at : infos[p[1]] = p[2]
    BY <2>a, ListedAt
  <2>1. /\ infos[5] = b.slots.held
        /\ infos[6] = b.slots.trader
        /\ infos[7] = b.slots.recipient
        /\ infos[10] = SplToken
        /\ infos[13] = b.to
    BY <2>b, <2>d
  <2>2. LastOf(infos) = 13
    BY <2>b, <2>c, LastPosition
  <2> HIDE DEF infos
  <2>3. BoopfunSellRoles(infos) = roles
    BY <2>1, <2>2 DEF BoopfunSellRoles
  <2>4. c = [LamportCall(16, "sell", "promisedOnly", b, x, BoopfunSellRoles(infos))
               EXCEPT !.debit = infos[5]]
    BY <1>1 DEF CallsOf, AbortedDexes, BoopfunSell, IfClassic, infos, at
  <2>5. c = [LamportCall(16, "sell", "promisedOnly", b, x, roles)
               EXCEPT !.debit = b.slots.held]
    BY <2>1, <2>3, <2>4
  <2> QED
    BY <1>1, <2>5 DEF LamportCall, SlotCall
<1>2. CASE b.dex = "MoonitBuy"
  <2> DEFINE at == {<<0, b.slots.trader>>, <<1, b.slots.held>>, <<8, SplToken>>,
                    <<11, b.slots.wrapped>>, <<12, Payer>>}
             infos == Listing(at)
             roles == [source |-> b.slots.wrapped, program |-> SplToken,
                       authority |-> b.slots.trader, payer |-> Payer]
  <2>a. \A p, q \in at : q[1] = p[1] => q = p
    OBVIOUS
  <2>b. /\ <<0, b.slots.trader>> \in at /\ <<1, b.slots.held>> \in at
        /\ <<8, SplToken>> \in at /\ <<11, b.slots.wrapped>> \in at
        /\ <<12, Payer>> \in at
    OBVIOUS
  <2> HIDE DEF at
  <2>d. \A p \in at : infos[p[1]] = p[2]
    BY <2>a, ListedAt
  <2>1. /\ infos[0] = b.slots.trader
        /\ infos[1] = b.slots.held
        /\ infos[8] = SplToken
        /\ infos[11] = b.slots.wrapped
        /\ infos[12] = Payer
    BY <2>b, <2>d
  <2> HIDE DEF infos
  <2>3. MoonitBuyRoles(infos) = roles
    BY <2>1 DEF MoonitBuyRoles
  <2>4. c = [LamportCall(16, "buy", "rent", b, x, MoonitBuyRoles(infos))
               EXCEPT !.credit = infos[1]]
    BY <1>2 DEF CallsOf, AbortedDexes, MoonitBuy, infos, at
  <2>5. c = [LamportCall(16, "buy", "rent", b, x, roles) EXCEPT !.credit = b.slots.held]
    BY <2>1, <2>3, <2>4
  <2> QED
    BY <1>2, <2>5 DEF LamportCall, SlotCall
<1>3. CASE b.dex = "MoonitSell"
  <2> DEFINE at == {<<0, b.slots.trader>>, <<1, b.slots.held>>, <<8, SplToken>>,
                    <<11, b.slots.wrapped>>}
             infos == Listing(at)
             roles == [dest |-> b.slots.wrapped, authority |-> b.slots.trader,
                       program |-> SplToken]
  <2>a. \A p, q \in at : q[1] = p[1] => q = p
    OBVIOUS
  <2>b. /\ <<0, b.slots.trader>> \in at /\ <<1, b.slots.held>> \in at
        /\ <<8, SplToken>> \in at /\ <<11, b.slots.wrapped>> \in at
    OBVIOUS
  <2>c. \A q \in at : q[1] \in Nat /\ q[1] <= 11
    OBVIOUS
  <2> HIDE DEF at
  <2>d. \A p \in at : infos[p[1]] = p[2]
    BY <2>a, ListedAt
  <2>1. /\ infos[0] = b.slots.trader
        /\ infos[1] = b.slots.held
        /\ infos[8] = SplToken
        /\ infos[11] = b.slots.wrapped
    BY <2>b, <2>d
  <2>2. LastOf(infos) = 11
    BY <2>b, <2>c, LastPosition
  <2> HIDE DEF infos
  <2>3. MoonitSellRoles(infos) = roles
    BY <2>1, <2>2 DEF MoonitSellRoles
  <2>4. c = [LamportCall(16, "sell", "received", b, x, MoonitSellRoles(infos))
               EXCEPT !.debit = infos[1]]
    BY <1>3 DEF CallsOf, AbortedDexes, MoonitSell, infos, at
  <2>5. c = [LamportCall(16, "sell", "received", b, x, roles) EXCEPT !.debit = b.slots.held]
    BY <2>1, <2>3, <2>4
  <2> QED
    BY <1>3, <2>5 DEF LamportCall, SlotCall
<1> QED
  BY <1>1, <1>2, <1>3 DEF SlotDexes

(* Filled with the accounts of the swap they are the calls that the other  *)
(* adapters would make.                                                    *)
LEMMA SlotRight ==
  ASSUME NEW b, NEW x \in Nat, b.dex \in SlotDexes, OwnSlots(b)
  PROVE  Right(b, x, SlotCall(b, x))
<1>1. CASE b.dex = "BoopfunSell"
  <2> DEFINE roles == [dest |-> b.to, authority |-> b.authority, program |-> SplToken,
                       recipient |-> b.authority]
  <2>1. SlotCall(b, x) = LamportCall(16, "sell", "promisedOnly", b, x, roles)
    BY <1>1 DEF SlotCall, LamportCall, OwnSlots, SlotDexes
  <2> HIDE DEF roles
  <2>2. Right(b, x, LamportCall(16, "sell", "promisedOnly", b, x, roles))
    BY <1>1, SellRight DEF LamportSells, roles
  <2> QED
    BY <2>1, <2>2
<1>2. CASE b.dex = "MoonitBuy"
  <2> DEFINE roles == [source |-> b.from, program |-> SplToken,
                       authority |-> b.authority, payer |-> Payer]
  <2>1. SlotCall(b, x) = LamportCall(16, "buy", "rent", b, x, roles)
    BY <1>2 DEF SlotCall, LamportCall, OwnSlots, SlotDexes
  <2> HIDE DEF roles
  <2>2. Right(b, x, LamportCall(16, "buy", "rent", b, x, roles))
    BY <1>2, BuyRight DEF LamportBuys, roles
  <2> QED
    BY <2>1, <2>2
<1>3. CASE b.dex = "MoonitSell"
  <2> DEFINE roles == [dest |-> b.to, authority |-> b.authority, program |-> SplToken]
  <2>1. SlotCall(b, x) = LamportCall(16, "sell", "received", b, x, roles)
    BY <1>3 DEF SlotCall, LamportCall, OwnSlots, SlotDexes
  <2> HIDE DEF roles
  <2>2. Right(b, x, LamportCall(16, "sell", "received", b, x, roles))
    BY <1>3, SellRight DEF LamportSells, roles
  <2> QED
    BY <2>1, <2>2
<1> QED
  BY <1>1, <1>2, <1>3 DEF SlotDexes

(* What a call is, however its slots are filled.                           *)
Formed(b, x, c) == IF b.dex \in SlotDexes THEN c = SlotCall(b, x) ELSE Right(b, x, c)

LEMMA CallsFormed ==
  ASSUME NEW b, NEW x \in Nat, NEW quote, b.dex \in Dexes, b.pool[1] # b.pool[2],
         b.dex = "Virtuals" => b.pool[1] = VirtualMint,
         NEW c \in CallsOf(b.dex, b, x, quote)
  PROVE  Formed(b, x, c)
<1>1. CASE b.dex \in SlotDexes
  BY <1>1, SlotCalls DEF Formed
<1>2. CASE b.dex \notin SlotDexes
  <2>1. CASE b.dex \in TokenDexes \ {"PumpfunammSell3"}
    BY <1>2, <2>1, TokenCallRight DEF Formed
  <2>2. CASE b.dex = "PumpfunammSell3"
    <3>1. c \in PumpfunammSell3(b, x)
      BY <2>2 DEF CallsOf, AbortedDexes
    <3> QED
      BY <1>2, <2>2, <3>1, AmmSellRight DEF Formed
  <2>3. CASE b.dex \in LamportBuys
    BY <1>2, <2>3, LamportBuysRight DEF Formed
  <2>4. CASE b.dex \in LamportSells
    BY <1>2, <2>4, LamportSellsRight DEF Formed
  <2>5. CASE b.dex \in AbortedDexes
    <3>1. CallsOf(b.dex, b, x, quote) = Aborted(b, x)
      BY <2>5 DEF CallsOf, AbortedDexes
    <3> QED
      BY <3>1 DEF Aborted
  <2> QED
    BY <2>1, <2>2, <2>3, <2>4, <2>5 DEF Dexes
<1> QED
  BY <1>1, <1>2

LEMMA FormedRight ==
  ASSUME NEW b, NEW x \in Nat, NEW c, Formed(b, x, c), OwnSlots(b)
  PROVE  Right(b, x, c)
  BY SlotRight DEF Formed

(* Every call of every adapter is right: whatever the mints, the accounts  *)
(* and the amount, its DEX understands it as a trade from the source to    *)
(* the destination of at most what was offered, or refuses it, and its     *)
(* hooks find the accounts that they mean, if the slots of Boop's sale and *)
(* of Moonit's calls that the caller fills hold the accounts of the swap.  *)
THEOREM CallsRight ==
  ASSUME NEW b, NEW x \in Nat, NEW quote, b.dex \in Dexes, b.pool[1] # b.pool[2],
         b.dex = "Virtuals" => b.pool[1] = VirtualMint, OwnSlots(b),
         NEW c \in CallsOf(b.dex, b, x, quote)
  PROVE  Right(b, x, c)
<1>1. Formed(b, x, c)
  BY CallsFormed
<1> QED
  BY <1>1, FormedRight

-----------------------------------------------------------------------------
(* What an adapter reads depends on the accounts, not on the amount.       *)

LEMMA Lengths ==
  /\ \A len, b, u, forward, x : Flagged(len, b, u, forward, x).len = len
  /\ \A len, b, i, x : PoolSided(len, b, i, x).len = len
  /\ \A len, b, i, x : TokenCall(len, b, b.from, b.to, i, x).len = len
  /\ \A len, kind, hook, b, x, roles : LamportCall(len, kind, hook, b, x, roles).len = len
  BY DEF Flagged, PoolSided, TokenCall, LamportCall

LEMMA PositionalLength ==
  ASSUME NEW len, NEW b, NEW x, NEW y, NEW c \in Positional(len, b, x)
  PROVE  c.len = len /\ \E d \in Positional(len, b, y) : d.len = len
  BY Lengths DEF Positional

LEMMA OneWayLength ==
  ASSUME NEW len, NEW b, NEW i, NEW x, NEW y, NEW c \in OneWay(len, b, i, x)
  PROVE  c.len = len /\ \E d \in OneWay(len, b, i, y) : d.len = len
  BY Lengths DEF OneWay

LEMMA IndexLength ==
  ASSUME NEW len, NEW b, NEW m, NEW x, NEW y, NEW c \in SellsIndex(len, b, m, x)
  PROVE  c.len = len /\ \E d \in SellsIndex(len, b, m, y) : d.len = len
  BY Lengths DEF SellsIndex

(* Which adapter it is.                                                    *)
LEMMA Distributed ==
  ASSUME NEW b, NEW quote, NEW x
  PROVE  /\ b.dex = "AldrinExchangeV1" => CallsOf(b.dex, b, x, quote) = AldrinV1(b, x)
         /\ b.dex = "AldrinExchangeV2" => CallsOf(b.dex, b, x, quote) = AldrinV2(b, x)
         /\ b.dex = "Whirlpool" => CallsOf(b.dex, b, x, quote) = Whirlpool(b, x)
         /\ b.dex = "WhirlpoolV2" => CallsOf(b.dex, b, x, quote) = WhirlpoolV2(b, x)
         /\ b.dex = "Phoenix" => CallsOf(b.dex, b, x, quote) = Phoenix(b, x)
         /\ b.dex = "OpenBookV2" => CallsOf(b.dex, b, x, quote) = OpenBookV2(b, x)
         /\ b.dex = "ObricV2" => CallsOf(b.dex, b, x, quote) = ObricV2(b, x)
         /\ b.dex = "FutarchyAmm" => CallsOf(b.dex, b, x, quote) = Futarchy(b, x)
         /\ b.dex = "Gavel" => CallsOf(b.dex, b, x, quote) = Gavel(b, x)
         /\ b.dex = "Whalestreet" => CallsOf(b.dex, b, x, quote) = Whalestreet(b, x)
         /\ b.dex = "Manifest" => CallsOf(b.dex, b, x, quote) = Manifest(b, x)
         /\ b.dex = "Virtuals" => CallsOf(b.dex, b, x, quote) = Virtuals(b, x)
         /\ b.dex = "RaydiumLaunchpad" => CallsOf(b.dex, b, x, quote) = RaydiumLaunchpad(b, x)
         /\ b.dex = "LetsBonkFun" => CallsOf(b.dex, b, x, quote) = RaydiumLaunchpad(b, x)
         /\ b.dex = "SarosDlmm" => CallsOf(b.dex, b, x, quote) = SarosDlmm(b, x)
         /\ b.dex = "FluxBeam" => CallsOf(b.dex, b, x, quote) = FluxBeam(b, x)
         /\ b.dex = "SplTokenSwap" => CallsOf(b.dex, b, x, quote) = SplTokenSwap(b, x)
         /\ b.dex = "StableSwap" => CallsOf(b.dex, b, x, quote) = StableSwap(b, x)
         /\ b.dex = "VertigoBuy" => CallsOf(b.dex, b, x, quote) = VertigoBuy(b, x)
         /\ b.dex = "HeavenSell" => CallsOf(b.dex, b, x, quote) = HeavenSell(b, x)
         /\ b.dex = "MeteoraVaultDeposit" => CallsOf(b.dex, b, x, quote) = MeteoraVaultDeposit(b, x)
         /\ b.dex = "SaberDecimalWrapperDeposit" => CallsOf(b.dex, b, x, quote) = SaberDeposit(b, x)
         /\ b.dex = "PerpetualsAddLiq" => CallsOf(b.dex, b, x, quote) = PerpetualsAddLiq(b, x)
         /\ b.dex = "SanctumAddLiq" => CallsOf(b.dex, b, x, quote) = SanctumAddLiq(b, x)
         /\ b.dex = "VertigoSell" => CallsOf(b.dex, b, x, quote) = VertigoSell(b, x)
         /\ b.dex = "HeavenBuy" => CallsOf(b.dex, b, x, quote) = HeavenBuy(b, x)
         /\ b.dex = "MeteoraVaultWithdraw" => CallsOf(b.dex, b, x, quote) = MeteoraVaultWithdraw(b, x)
         /\ b.dex = "SaberDecimalWrapperWithdraw" => CallsOf(b.dex, b, x, quote) = SaberWithdraw(b, x)
         /\ b.dex = "PerpetualsRemoveLiq" => CallsOf(b.dex, b, x, quote) = PerpetualsRemoveLiq(b, x)
         /\ b.dex = "SanctumRemoveLiq" => CallsOf(b.dex, b, x, quote) = SanctumRemoveLiq(b, x)
         /\ b.dex = "SanctumWsolSwap" => CallsOf(b.dex, b, x, quote) = SanctumWsolSwap(b, x)
         /\ b.dex = "SanctumNonWsolSwap" => CallsOf(b.dex, b, x, quote) = SanctumNonWsolSwap(b, x)
         /\ b.dex = "SanctumRouter" => CallsOf(b.dex, b, x, quote) = SanctumRouter(b, x)
         /\ b.dex = "PumpfunBuy3" => CallsOf(b.dex, b, x, quote) = PumpfunBuy3(b, x)
         /\ b.dex = "PumpfunBuy2" => CallsOf(b.dex, b, x, quote) = PumpfunBuy2(b, x)
         /\ b.dex = "BoopfunBuy" => CallsOf(b.dex, b, x, quote) = BoopfunBuy(b, x)
         /\ b.dex = "MoonitBuy" => CallsOf(b.dex, b, x, quote) = MoonitBuy(b, x)
         /\ b.dex = "SugarMoneyBuy" => CallsOf(b.dex, b, x, quote) = SugarBuy(b, x)
         /\ b.dex = "PumpfunSell3" => CallsOf(b.dex, b, x, quote) = PumpfunSell3(b, x)
         /\ b.dex = "PumpfunSell2" => CallsOf(b.dex, b, x, quote) = PumpfunSell2(b, x)
         /\ b.dex = "BoopfunSell" => CallsOf(b.dex, b, x, quote) = BoopfunSell(b, x)
         /\ b.dex = "MoonitSell" => CallsOf(b.dex, b, x, quote) = MoonitSell(b, x)
         /\ b.dex = "SugarMoneySell" => CallsOf(b.dex, b, x, quote) = SugarSell(b, x)
         /\ b.dex = "PumpfunammSell3" => CallsOf(b.dex, b, x, quote) = PumpfunammSell3(b, x)
         /\ b.dex = "PumpfunammBuy3" => CallsOf(b.dex, b, x, quote) = PumpfunammBuy3(b, x)
<1>1. b.dex = "AldrinExchangeV1" => CallsOf(b.dex, b, x, quote) = AldrinV1(b, x)
  BY DEF CallsOf, AbortedDexes
<1>2. b.dex = "AldrinExchangeV2" => CallsOf(b.dex, b, x, quote) = AldrinV2(b, x)
  BY DEF CallsOf, AbortedDexes
<1>3. b.dex = "Whirlpool" => CallsOf(b.dex, b, x, quote) = Whirlpool(b, x)
  BY DEF CallsOf, AbortedDexes
<1>4. b.dex = "WhirlpoolV2" => CallsOf(b.dex, b, x, quote) = WhirlpoolV2(b, x)
  BY DEF CallsOf, AbortedDexes
<1>5. b.dex = "Phoenix" => CallsOf(b.dex, b, x, quote) = Phoenix(b, x)
  BY DEF CallsOf, AbortedDexes
<1>6. b.dex = "OpenBookV2" => CallsOf(b.dex, b, x, quote) = OpenBookV2(b, x)
  BY DEF CallsOf, AbortedDexes
<1>7. b.dex = "ObricV2" => CallsOf(b.dex, b, x, quote) = ObricV2(b, x)
  BY DEF CallsOf, AbortedDexes
<1>8. b.dex = "FutarchyAmm" => CallsOf(b.dex, b, x, quote) = Futarchy(b, x)
  BY DEF CallsOf, AbortedDexes
<1>9. b.dex = "Gavel" => CallsOf(b.dex, b, x, quote) = Gavel(b, x)
  BY DEF CallsOf, AbortedDexes
<1>10. b.dex = "Whalestreet" => CallsOf(b.dex, b, x, quote) = Whalestreet(b, x)
  BY DEF CallsOf, AbortedDexes
<1>11. b.dex = "Manifest" => CallsOf(b.dex, b, x, quote) = Manifest(b, x)
  BY DEF CallsOf, AbortedDexes
<1>12. b.dex = "Virtuals" => CallsOf(b.dex, b, x, quote) = Virtuals(b, x)
  BY DEF CallsOf, AbortedDexes
<1>13. b.dex = "RaydiumLaunchpad" => CallsOf(b.dex, b, x, quote) = RaydiumLaunchpad(b, x)
  BY DEF CallsOf, AbortedDexes
<1>14. b.dex = "LetsBonkFun" => CallsOf(b.dex, b, x, quote) = RaydiumLaunchpad(b, x)
  BY DEF CallsOf, AbortedDexes
<1>15. b.dex = "SarosDlmm" => CallsOf(b.dex, b, x, quote) = SarosDlmm(b, x)
  BY DEF CallsOf, AbortedDexes
<1>16. b.dex = "FluxBeam" => CallsOf(b.dex, b, x, quote) = FluxBeam(b, x)
  BY DEF CallsOf, AbortedDexes
<1>17. b.dex = "SplTokenSwap" => CallsOf(b.dex, b, x, quote) = SplTokenSwap(b, x)
  BY DEF CallsOf, AbortedDexes
<1>18. b.dex = "StableSwap" => CallsOf(b.dex, b, x, quote) = StableSwap(b, x)
  BY DEF CallsOf, AbortedDexes
<1>19. b.dex = "VertigoBuy" => CallsOf(b.dex, b, x, quote) = VertigoBuy(b, x)
  BY DEF CallsOf, AbortedDexes
<1>20. b.dex = "HeavenSell" => CallsOf(b.dex, b, x, quote) = HeavenSell(b, x)
  BY DEF CallsOf, AbortedDexes
<1>21. b.dex = "MeteoraVaultDeposit" => CallsOf(b.dex, b, x, quote) = MeteoraVaultDeposit(b, x)
  BY DEF CallsOf, AbortedDexes
<1>22. b.dex = "SaberDecimalWrapperDeposit" => CallsOf(b.dex, b, x, quote) = SaberDeposit(b, x)
  BY DEF CallsOf, AbortedDexes
<1>23. b.dex = "PerpetualsAddLiq" => CallsOf(b.dex, b, x, quote) = PerpetualsAddLiq(b, x)
  BY DEF CallsOf, AbortedDexes
<1>24. b.dex = "SanctumAddLiq" => CallsOf(b.dex, b, x, quote) = SanctumAddLiq(b, x)
  BY DEF CallsOf, AbortedDexes
<1>25. b.dex = "VertigoSell" => CallsOf(b.dex, b, x, quote) = VertigoSell(b, x)
  BY DEF CallsOf, AbortedDexes
<1>26. b.dex = "HeavenBuy" => CallsOf(b.dex, b, x, quote) = HeavenBuy(b, x)
  BY DEF CallsOf, AbortedDexes
<1>27. b.dex = "MeteoraVaultWithdraw" => CallsOf(b.dex, b, x, quote) = MeteoraVaultWithdraw(b, x)
  BY DEF CallsOf, AbortedDexes
<1>28. b.dex = "SaberDecimalWrapperWithdraw" => CallsOf(b.dex, b, x, quote) = SaberWithdraw(b, x)
  BY DEF CallsOf, AbortedDexes
<1>29. b.dex = "PerpetualsRemoveLiq" => CallsOf(b.dex, b, x, quote) = PerpetualsRemoveLiq(b, x)
  BY DEF CallsOf, AbortedDexes
<1>30. b.dex = "SanctumRemoveLiq" => CallsOf(b.dex, b, x, quote) = SanctumRemoveLiq(b, x)
  BY DEF CallsOf, AbortedDexes
<1>31. b.dex = "SanctumWsolSwap" => CallsOf(b.dex, b, x, quote) = SanctumWsolSwap(b, x)
  BY DEF CallsOf, AbortedDexes
<1>32. b.dex = "SanctumNonWsolSwap" => CallsOf(b.dex, b, x, quote) = SanctumNonWsolSwap(b, x)
  BY DEF CallsOf, AbortedDexes
<1>33. b.dex = "SanctumRouter" => CallsOf(b.dex, b, x, quote) = SanctumRouter(b, x)
  BY DEF CallsOf, AbortedDexes
<1>34. b.dex = "PumpfunBuy3" => CallsOf(b.dex, b, x, quote) = PumpfunBuy3(b, x)
  BY DEF CallsOf, AbortedDexes
<1>35. b.dex = "PumpfunBuy2" => CallsOf(b.dex, b, x, quote) = PumpfunBuy2(b, x)
  BY DEF CallsOf, AbortedDexes
<1>36. b.dex = "BoopfunBuy" => CallsOf(b.dex, b, x, quote) = BoopfunBuy(b, x)
  BY DEF CallsOf, AbortedDexes
<1>37. b.dex = "MoonitBuy" => CallsOf(b.dex, b, x, quote) = MoonitBuy(b, x)
  BY DEF CallsOf, AbortedDexes
<1>38. b.dex = "SugarMoneyBuy" => CallsOf(b.dex, b, x, quote) = SugarBuy(b, x)
  BY DEF CallsOf, AbortedDexes
<1>39. b.dex = "PumpfunSell3" => CallsOf(b.dex, b, x, quote) = PumpfunSell3(b, x)
  BY DEF CallsOf, AbortedDexes
<1>40. b.dex = "PumpfunSell2" => CallsOf(b.dex, b, x, quote) = PumpfunSell2(b, x)
  BY DEF CallsOf, AbortedDexes
<1>41. b.dex = "BoopfunSell" => CallsOf(b.dex, b, x, quote) = BoopfunSell(b, x)
  BY DEF CallsOf, AbortedDexes
<1>42. b.dex = "MoonitSell" => CallsOf(b.dex, b, x, quote) = MoonitSell(b, x)
  BY DEF CallsOf, AbortedDexes
<1>43. b.dex = "SugarMoneySell" => CallsOf(b.dex, b, x, quote) = SugarSell(b, x)
  BY DEF CallsOf, AbortedDexes
<1>44. b.dex = "PumpfunammSell3" => CallsOf(b.dex, b, x, quote) = PumpfunammSell3(b, x)
  BY DEF CallsOf, AbortedDexes
<1>45. b.dex = "PumpfunammBuy3" => CallsOf(b.dex, b, x, quote) = PumpfunammBuy3(b, x)
  BY DEF CallsOf, AbortedDexes
<1> QED
  BY <1>1, <1>2, <1>3, <1>4, <1>5, <1>6, <1>7, <1>8, <1>9, <1>10, <1>11,
     <1>12, <1>13, <1>14, <1>15, <1>16, <1>17, <1>18, <1>19, <1>20, <1>21, <1>22,
     <1>23, <1>24, <1>25, <1>26, <1>27, <1>28, <1>29, <1>30, <1>31, <1>32, <1>33,
     <1>34, <1>35, <1>36, <1>37, <1>38, <1>39, <1>40, <1>41, <1>42, <1>43, <1>44,
     <1>45

(* The length of a call is that of the call for the amount that a quote    *)
(* names.                                                                  *)
LengthKnown(b, quote, c) ==
  \E d \in CallsOf(b.dex, b, quote.taker, quote) : d.len = c.len

LEMMA LengthOfAmount ==
  ASSUME NEW b, NEW x, NEW quote, b.dex \in Dexes,
         NEW c \in CallsOf(b.dex, b, x, quote)
  PROVE  LengthKnown(b, quote, c)
<1> DEFINE y == quote.taker
<1>0. y = quote.taker
  OBVIOUS
<1> HIDE DEF y
<1> SUFFICES \E d \in CallsOf(b.dex, b, y, quote) : d.len = c.len
  BY DEF LengthKnown, y
<1>1. CASE b.dex \in FlaggedDexes
  <2>1. CASE b.dex = "AldrinExchangeV1"
    <3>1. c \in AldrinV1(b, x) /\ CallsOf(b.dex, b, y, quote) = AldrinV1(b, y)
      BY <2>1, Distributed
    <3> QED
      BY <3>1, Lengths DEF AldrinV1
  <2>2. CASE b.dex = "AldrinExchangeV2"
    <3>1. c \in AldrinV2(b, x) /\ CallsOf(b.dex, b, y, quote) = AldrinV2(b, y)
      BY <2>2, Distributed
    <3> QED
      BY <3>1, Lengths DEF AldrinV2
  <2>3. CASE b.dex = "Whirlpool"
    <3>1. c \in Whirlpool(b, x) /\ CallsOf(b.dex, b, y, quote) = Whirlpool(b, y)
      BY <2>3, Distributed
    <3> QED
      BY <3>1, Lengths DEF Whirlpool
  <2>4. CASE b.dex = "WhirlpoolV2"
    <3>1. c \in WhirlpoolV2(b, x) /\ CallsOf(b.dex, b, y, quote) = WhirlpoolV2(b, y)
      BY <2>4, Distributed
    <3> QED
      BY <3>1, Lengths DEF WhirlpoolV2
  <2>5. CASE b.dex = "Phoenix"
    <3>1. c \in Phoenix(b, x) /\ CallsOf(b.dex, b, y, quote) = Phoenix(b, y)
      BY <2>5, Distributed
    <3> QED
      BY <3>1, Lengths DEF Phoenix
  <2>6. CASE b.dex = "OpenBookV2"
    <3>1. c \in OpenBookV2(b, x) /\ CallsOf(b.dex, b, y, quote) = OpenBookV2(b, y)
      BY <2>6, Distributed
    <3> QED
      BY <3>1, Lengths DEF OpenBookV2
  <2>7. CASE b.dex = "ObricV2"
    <3>1. c \in ObricV2(b, x) /\ CallsOf(b.dex, b, y, quote) = ObricV2(b, y)
      BY <2>7, Distributed
    <3> QED
      BY <3>1, Lengths DEF ObricV2
  <2>8. CASE b.dex = "FutarchyAmm"
    <3>1. c \in Futarchy(b, x) /\ CallsOf(b.dex, b, y, quote) = Futarchy(b, y)
      BY <2>8, Distributed
    <3> QED
      BY <3>1, Lengths DEF Futarchy
  <2>9. CASE b.dex = "Gavel"
    <3>1. c \in Gavel(b, x) /\ CallsOf(b.dex, b, y, quote) = Gavel(b, y)
      BY <2>9, Distributed
    <3> QED
      BY <3>1, Lengths DEF Gavel
  <2>10. CASE b.dex = "Whalestreet"
    <3>1. c \in Whalestreet(b, x) /\ CallsOf(b.dex, b, y, quote) = Whalestreet(b, y)
      BY <2>10, Distributed
    <3> QED
      BY <3>1, Lengths DEF Whalestreet
  <2>11. CASE b.dex = "Manifest"
    <3>1. c \in Manifest(b, x) /\ CallsOf(b.dex, b, y, quote) = Manifest(b, y)
      BY <2>11, Distributed
    <3> QED
      BY <3>1, Lengths DEF Manifest
  <2>12. CASE b.dex = "Virtuals"
    <3>1. c \in Virtuals(b, x) /\ CallsOf(b.dex, b, y, quote) = Virtuals(b, y)
      BY <2>12, Distributed
    <3>2. CASE MintOf[b.from] = VirtualMint
      <4> DEFINE call(z) == Flagged(11, b, <<b.from, b.to>>, TRUE, z)
      <4>1. Virtuals(b, x) = {call(x)} /\ Virtuals(b, y) = {call(y)}
        BY <3>2 DEF Virtuals
      <4>2. call(x).len = 11 /\ call(y).len = 11
        BY DEF Flagged, TokenCall
      <4>3. c = call(x) /\ call(y) \in CallsOf(b.dex, b, y, quote)
        BY <3>1, <4>1
      <4> QED
        BY <4>2, <4>3
    <3>3. CASE MintOf[b.from] # VirtualMint /\ MintOf[b.to] = VirtualMint
      <4> DEFINE call(z) == Flagged(11, b, <<b.to, b.from>>, FALSE, z)
      <4>1. Virtuals(b, x) = {call(x)} /\ Virtuals(b, y) = {call(y)}
        BY <3>3 DEF Virtuals
      <4>2. call(x).len = 11 /\ call(y).len = 11
        BY DEF Flagged, TokenCall
      <4>3. c = call(x) /\ call(y) \in CallsOf(b.dex, b, y, quote)
        BY <3>1, <4>1
      <4> QED
        BY <4>2, <4>3
    <3> QED
      BY <3>1, <3>2, <3>3 DEF Virtuals
  <2>13. CASE b.dex = "RaydiumLaunchpad"
    <3>1. c \in RaydiumLaunchpad(b, x) /\ CallsOf(b.dex, b, y, quote) = RaydiumLaunchpad(b, y)
      BY <2>13, Distributed
    <3> QED
      BY <3>1, Lengths DEF RaydiumLaunchpad
  <2>14. CASE b.dex = "LetsBonkFun"
    <3>1. c \in RaydiumLaunchpad(b, x) /\ CallsOf(b.dex, b, y, quote) = RaydiumLaunchpad(b, y)
      BY <2>14, Distributed
    <3> QED
      BY <3>1, Lengths DEF RaydiumLaunchpad
  <2>15. CASE b.dex = "SarosDlmm"
    <3>1. c \in SarosDlmm(b, x) /\ CallsOf(b.dex, b, y, quote) = SarosDlmm(b, y)
      BY <2>15, Distributed
    <3> QED
      BY <3>1, Lengths DEF SarosDlmm
  <2> QED
    BY <1>1, <2>1, <2>2, <2>3, <2>4, <2>5, <2>6, <2>7, <2>8, <2>9, <2>10, <2>11, <2>12, <2>13, <2>14, <2>15 DEF FlaggedDexes
<1>2. CASE b.dex \in SidedDexes
  <2>1. CASE b.dex = "FluxBeam"
    <3>1. c \in FluxBeam(b, x) /\ CallsOf(b.dex, b, y, quote) = FluxBeam(b, y)
      BY <2>1, Distributed
    <3> QED
      BY <3>1, Lengths DEF FluxBeam
  <2>2. CASE b.dex = "SplTokenSwap"
    <3>1. c \in SplTokenSwap(b, x) /\ CallsOf(b.dex, b, y, quote) = SplTokenSwap(b, y)
      BY <2>2, Distributed
    <3> QED
      BY <3>1, Lengths DEF SplTokenSwap
  <2>3. CASE b.dex = "StableSwap"
    <3>1. c \in StableSwap(b, x) /\ CallsOf(b.dex, b, y, quote) = StableSwap(b, y)
      BY <2>3, Distributed
    <3> QED
      BY <3>1, Lengths DEF StableSwap
  <2> QED
    BY <1>2, <2>1, <2>2, <2>3 DEF SidedDexes
<1>3. CASE b.dex \in PositionalDexes
  <2>1. CASE b.dex \in {"RaydiumSwap", "RaydiumSwapV2", "RaydiumStableSwap",
                        "RaydiumClmmSwap", "RaydiumClmmSwapV2"}
    <3>1. PICK len : /\ c \in Positional(len, b, x)
                     /\ CallsOf(b.dex, b, y, quote) = Positional(len, b, y)
      BY <2>1 DEF CallsOf, AbortedDexes, RaydiumSwap, RaydiumSwapV2,
         RaydiumStable, RaydiumClmm, RaydiumClmmV2
    <3> QED
      BY <3>1, PositionalLength
  <2>2. CASE b.dex \in {"RaydiumCpmmSwap", "MeteoraDynamicpool", "MeteoraLst",
                        "MeteoraDlmm", "MeteoraDlmmSwap2"}
    <3>1. PICK len : /\ c \in Positional(len, b, x)
                     /\ CallsOf(b.dex, b, y, quote) = Positional(len, b, y)
      BY <2>2 DEF CallsOf, AbortedDexes, RaydiumCpmm,
         MeteoraDynamicpool, MeteoraLst, MeteoraDlmm, MeteoraDlmmSwap2
    <3> QED
      BY <3>1, PositionalLength
  <2>3. CASE b.dex \in {"MeteoraDAMMV2", "MeteoraDAMMV2Swap2", "MeteoraDbc",
                        "MeteoraDbc2", "PancakeSwapV3Swap"}
    <3>1. PICK len : /\ c \in Positional(len, b, x)
                     /\ CallsOf(b.dex, b, y, quote) = Positional(len, b, y)
      BY <2>3 DEF CallsOf, AbortedDexes, MeteoraDAMMV2,
         MeteoraDAMMV2Swap2, MeteoraDbc, MeteoraDbc2, PancakeSwapV3
    <3> QED
      BY <3>1, PositionalLength
  <2>4. CASE b.dex \in {"PancakeSwapV3SwapV2", "ByrealClmm", "StabbleSwap", "Saros",
                        "LifinityV2"}
    <3>1. PICK len : /\ c \in Positional(len, b, x)
                     /\ CallsOf(b.dex, b, y, quote) = Positional(len, b, y)
      BY <2>4 DEF CallsOf, AbortedDexes, PancakeSwapV3V2, ByrealClmm,
         Stabble, Saros, LifinityV2
    <3> QED
      BY <3>1, PositionalLength
  <2>5. CASE b.dex \in {"Dooar", "GooseFX", "OneDexSwap", "Woofi", "Numeraire"}
    <3>1. PICK len : /\ c \in Positional(len, b, x)
                     /\ CallsOf(b.dex, b, y, quote) = Positional(len, b, y)
      BY <2>5 DEF CallsOf, AbortedDexes, Dooar, GooseFX, OneDex, Woofi,
         Numeraire
    <3> QED
      BY <3>1, PositionalLength
  <2>6. CASE b.dex = "PerpetualsSwap"
    <3>1. PICK len : /\ c \in Positional(len, b, x)
                     /\ CallsOf(b.dex, b, y, quote) = Positional(len, b, y)
      BY <2>6 DEF CallsOf, AbortedDexes, PerpetualsSwap
    <3> QED
      BY <3>1, PositionalLength
  <2> QED
    BY <1>3, <2>1, <2>2, <2>3, <2>4, <2>5, <2>6 DEF PositionalDexes
<1>4. CASE b.dex = "PumpfunammSell3"
  <2>1. CallsOf(b.dex, b, x, quote) = PumpfunammSell3(b, x)
    BY <1>4 DEF CallsOf, AbortedDexes
  <2>2. CallsOf(b.dex, b, y, quote) = PumpfunammSell3(b, y)
    BY <1>4 DEF CallsOf, AbortedDexes
  <2> DEFINE infos == Listing({<<1, b.authority>>, <<5, b.from>>, <<6, b.to>>,
                               <<21, Payer>>})
             repaid(p) == [p EXCEPT !.hook = "repaid", !.roles = AmmSellRoles(infos)]
  <2>3. PICK p \in OneWay(21, b, 1, x) : c = repaid(p)
    BY <2>1 DEF PumpfunammSell3
  <2>4. PICK d \in OneWay(21, b, 1, y) : d.len = 21
    BY <2>3, OneWayLength
  <2>5. repaid(d) \in PumpfunammSell3(b, y)
    BY <2>4 DEF PumpfunammSell3
  <2>6. c.len = 21 /\ repaid(d).len = 21
    BY <2>3, <2>4, OneWayLength DEF OneWay, TokenCall
  <2> QED
    BY <2>2, <2>5, <2>6
<1>5. CASE b.dex \in FirstSideDexes \ {"SanctumRouter", "PumpfunammSell3"}
  <2>1. CASE b.dex = "VertigoBuy"
    <3>1. PICK len : /\ c \in OneWay(len, b, 1, x)
                     /\ CallsOf(b.dex, b, y, quote) = OneWay(len, b, 1, y)
      BY <2>1, Distributed DEF VertigoBuy
    <3> QED
      BY <3>1, OneWayLength
  <2>2. CASE b.dex = "HeavenSell"
    <3>1. PICK len : /\ c \in OneWay(len, b, 1, x)
                     /\ CallsOf(b.dex, b, y, quote) = OneWay(len, b, 1, y)
      BY <2>2, Distributed DEF HeavenSell
    <3> QED
      BY <3>1, OneWayLength
  <2>3. CASE b.dex = "MeteoraVaultDeposit"
    <3>1. PICK len : /\ c \in OneWay(len, b, 1, x)
                     /\ CallsOf(b.dex, b, y, quote) = OneWay(len, b, 1, y)
      BY <2>3, Distributed DEF MeteoraVaultDeposit
    <3> QED
      BY <3>1, OneWayLength
  <2>4. CASE b.dex = "SaberDecimalWrapperDeposit"
    <3>1. PICK len : /\ c \in OneWay(len, b, 1, x)
                     /\ CallsOf(b.dex, b, y, quote) = OneWay(len, b, 1, y)
      BY <2>4, Distributed DEF SaberDeposit
    <3> QED
      BY <3>1, OneWayLength
  <2>5. CASE b.dex = "PerpetualsAddLiq"
    <3>1. PICK len : /\ c \in OneWay(len, b, 1, x)
                     /\ CallsOf(b.dex, b, y, quote) = OneWay(len, b, 1, y)
      BY <2>5, Distributed DEF PerpetualsAddLiq
    <3> QED
      BY <3>1, OneWayLength
  <2>6. CASE b.dex = "SanctumAddLiq"
    <3>1. PICK len : /\ c \in OneWay(len, b, 1, x)
                     /\ CallsOf(b.dex, b, y, quote) = OneWay(len, b, 1, y)
      BY <2>6, Distributed DEF SanctumAddLiq
    <3> QED
      BY <3>1, OneWayLength
  <2> QED
    BY <1>5, <2>1, <2>2, <2>3, <2>4, <2>5, <2>6 DEF FirstSideDexes
<1>6. CASE b.dex \in SecondSideDexes
  <2>1. CASE b.dex = "VertigoSell"
    <3>1. PICK len : /\ c \in OneWay(len, b, 2, x)
                     /\ CallsOf(b.dex, b, y, quote) = OneWay(len, b, 2, y)
      BY <2>1, Distributed DEF VertigoSell
    <3> QED
      BY <3>1, OneWayLength
  <2>2. CASE b.dex = "HeavenBuy"
    <3>1. PICK len : /\ c \in OneWay(len, b, 2, x)
                     /\ CallsOf(b.dex, b, y, quote) = OneWay(len, b, 2, y)
      BY <2>2, Distributed DEF HeavenBuy
    <3> QED
      BY <3>1, OneWayLength
  <2>3. CASE b.dex = "MeteoraVaultWithdraw"
    <3>1. PICK len : /\ c \in OneWay(len, b, 2, x)
                     /\ CallsOf(b.dex, b, y, quote) = OneWay(len, b, 2, y)
      BY <2>3, Distributed DEF MeteoraVaultWithdraw
    <3> QED
      BY <3>1, OneWayLength
  <2>4. CASE b.dex = "SaberDecimalWrapperWithdraw"
    <3>1. PICK len : /\ c \in OneWay(len, b, 2, x)
                     /\ CallsOf(b.dex, b, y, quote) = OneWay(len, b, 2, y)
      BY <2>4, Distributed DEF SaberWithdraw
    <3> QED
      BY <3>1, OneWayLength
  <2>5. CASE b.dex = "PerpetualsRemoveLiq"
    <3>1. PICK len : /\ c \in OneWay(len, b, 2, x)
                     /\ CallsOf(b.dex, b, y, quote) = OneWay(len, b, 2, y)
      BY <2>5, Distributed DEF PerpetualsRemoveLiq
    <3> QED
      BY <3>1, OneWayLength
  <2>6. CASE b.dex = "SanctumRemoveLiq"
    <3>1. PICK len : /\ c \in OneWay(len, b, 2, x)
                     /\ CallsOf(b.dex, b, y, quote) = OneWay(len, b, 2, y)
      BY <2>6, Distributed DEF SanctumRemoveLiq
    <3> QED
      BY <3>1, OneWayLength
  <2>7. CASE b.dex = "PumpfunammBuy3"
    <3>1. PICK len : /\ c \in OneWay(len, b, 2, x)
                     /\ CallsOf(b.dex, b, y, quote) = OneWay(len, b, 2, y)
      BY <2>7, Distributed DEF PumpfunammBuy3
    <3> QED
      BY <3>1, OneWayLength
  <2> QED
    BY <1>6, <2>1, <2>2, <2>3, <2>4, <2>5, <2>6, <2>7 DEF SecondSideDexes
<1>7. CASE b.dex \in PickyDexes
  <2>1. CASE b.dex = "SolRfq"
    <3>1. x = y
      BY <1>0, <2>1 DEF CallsOf, AbortedDexes, SolRfq
    <3> QED
      BY <3>1
  <2>2. CASE b.dex = "SanctumWsolSwap"
    <3>1. PICK len, m : /\ c \in SellsIndex(len, b, m, x)
                        /\ CallsOf(b.dex, b, y, quote) = SellsIndex(len, b, m, y)
      BY <2>2, Distributed DEF SanctumWsolSwap, WsolLst, LstWsol
    <3> QED
      BY <3>1, IndexLength
  <2>3. CASE b.dex = "SanctumNonWsolSwap"
    <3>1. PICK len, m : /\ c \in SellsIndex(len, b, m, x)
                        /\ CallsOf(b.dex, b, y, quote) = SellsIndex(len, b, m, y)
      BY <2>3, Distributed DEF SanctumNonWsolSwap, LstLst
    <3> QED
      BY <3>1, IndexLength
  <2>4. CASE b.dex = "SanctumRouter"
    <3>1. PICK len : /\ c \in OneWay(len, b, 1, x)
                     /\ CallsOf(b.dex, b, y, quote) = OneWay(len, b, 1, y)
      BY <2>4, Distributed DEF SanctumRouter, WithdrawWsol, StakeWsol, SwapViaStake
    <3> QED
      BY <3>1, OneWayLength
  <2> QED
    BY <1>7, <2>1, <2>2, <2>3, <2>4 DEF PickyDexes
<1>8. CASE b.dex \in LamportBuys
  <2>1. CASE b.dex = "PumpfunBuy3"
    <3>1. c \in PumpfunBuy3(b, x) /\ CallsOf(b.dex, b, y, quote) = PumpfunBuy3(b, y)
      BY <2>1, Distributed
    <3> QED
      BY <3>1, Lengths DEF PumpfunBuy3, IfClassic
  <2>2. CASE b.dex = "PumpfunBuy2"
    <3>1. c \in PumpfunBuy2(b, x) /\ CallsOf(b.dex, b, y, quote) = PumpfunBuy2(b, y)
      BY <2>2, Distributed
    <3> QED
      BY <3>1, Lengths DEF PumpfunBuy2
  <2>3. CASE b.dex = "BoopfunBuy"
    <3>1. c \in BoopfunBuy(b, x) /\ CallsOf(b.dex, b, y, quote) = BoopfunBuy(b, y)
      BY <2>3, Distributed
    <3> QED
      BY <3>1, Lengths DEF BoopfunBuy, IfClassic
  <2>4. CASE b.dex = "MoonitBuy"
    <3>1. c \in MoonitBuy(b, x) /\ CallsOf(b.dex, b, y, quote) = MoonitBuy(b, y)
      BY <2>4, Distributed
    <3> QED
      BY <3>1 DEF MoonitBuy, LamportCall
  <2>5. CASE b.dex = "SugarMoneyBuy"
    <3>1. c \in SugarBuy(b, x) /\ CallsOf(b.dex, b, y, quote) = SugarBuy(b, y)
      BY <2>5, Distributed
    <3> QED
      BY <3>1, Lengths DEF SugarBuy
  <2> QED
    BY <1>8, <2>1, <2>2, <2>3, <2>4, <2>5 DEF LamportBuys
<1>9. CASE b.dex \in LamportSells
  <2>1. CASE b.dex = "PumpfunSell3"
    <3>1. c \in PumpfunSell3(b, x) /\ CallsOf(b.dex, b, y, quote) = PumpfunSell3(b, y)
      BY <2>1, Distributed
    <3> QED
      BY <3>1, Lengths DEF PumpfunSell3, IfClassic
  <2>2. CASE b.dex = "PumpfunSell2"
    <3>1. c \in PumpfunSell2(b, x) /\ CallsOf(b.dex, b, y, quote) = PumpfunSell2(b, y)
      BY <2>2, Distributed
    <3> QED
      BY <3>1, Lengths DEF PumpfunSell2
  <2>3. CASE b.dex = "BoopfunSell"
    <3>1. c \in BoopfunSell(b, x) /\ CallsOf(b.dex, b, y, quote) = BoopfunSell(b, y)
      BY <2>3, Distributed
    <3>2. ProgramOf[b.pool[2]] = SplToken
      BY <3>1 DEF BoopfunSell, IfClassic
    <3>3. PICK d : d \in CallsOf(b.dex, b, y, quote)
      BY <3>1, <3>2 DEF BoopfunSell, IfClassic
    <3>4. c = SlotCall(b, x) /\ d = SlotCall(b, y)
      BY <2>3, <3>3, SlotCalls DEF SlotDexes
    <3>5. d.len = c.len
      BY <2>3, <3>4 DEF SlotCall
    <3> QED
      BY <3>3, <3>5
  <2>4. CASE b.dex = "MoonitSell"
    <3>1. c \in MoonitSell(b, x) /\ CallsOf(b.dex, b, y, quote) = MoonitSell(b, y)
      BY <2>4, Distributed
    <3> QED
      BY <3>1 DEF MoonitSell, LamportCall
  <2>5. CASE b.dex = "SugarMoneySell"
    <3>1. c \in SugarSell(b, x) /\ CallsOf(b.dex, b, y, quote) = SugarSell(b, y)
      BY <2>5, Distributed
    <3> QED
      BY <3>1, Lengths DEF SugarSell
  <2> QED
    BY <1>9, <2>1, <2>2, <2>3, <2>4, <2>5 DEF LamportSells
<1>10. CASE b.dex \in AbortedDexes
  <2>1. CallsOf(b.dex, b, x, quote) = Aborted(b, x)
    BY <1>10 DEF CallsOf, AbortedDexes
  <2> QED
    BY <2>1 DEF Aborted
<1> QED
  BY <1>1, <1>2, <1>3, <1>4, <1>5, <1>6, <1>7, <1>8, <1>9, <1>10 DEF Dexes, TokenDexes, PickyDexes

-----------------------------------------------------------------------------
(* No adapter but the picky ones refuses a trade that its pool would make. *)

LEMMA SidesOfTrade ==
  ASSUME NEW b, \/ MintOf[b.from] = b.pool[1] /\ MintOf[b.to] = b.pool[2]
                \/ MintOf[b.from] = b.pool[2] /\ MintOf[b.to] = b.pool[1]
  PROVE  /\ UserSides(b) # {}
         /\ \A len, x : Positional(len, b, x) # {}
<1>1. PICK u \in {<<b.from, b.to>>, <<b.to, b.from>>} :
        MintOf[u[1]] = b.pool[1] /\ MintOf[u[2]] = b.pool[2]
  OBVIOUS
<1>2. u \in UserSides(b)
  BY <1>1 DEF UserSides
<1>3. PICK j \in 1..2 : MintOf[b.from] = b.pool[j]
  OBVIOUS
<1>4. \A len, x : TokenCall(len, b, b.from, b.to, j, x) \in Positional(len, b, x)
  BY <1>3 DEF Positional
<1> QED
  BY <1>2, <1>4

LEMMA NoneRefused ==
  ASSUME NEW b, NEW x, NEW quote, b.dex \in TokenDexes \ PickyDexes, Tradable(b),
         b.dex = "Virtuals" => b.pool[1] = VirtualMint
  PROVE  CallsOf(b.dex, b, x, quote) # {}
<1>1. ASSUME b.dex \in FlaggedDexes \cup SidedDexes \cup PositionalDexes
      PROVE  /\ UserSides(b) # {}
             /\ \A len, y : Positional(len, b, y) # {}
             /\ \/ MintOf[b.from] = b.pool[1] /\ MintOf[b.to] = b.pool[2]
                \/ MintOf[b.from] = b.pool[2] /\ MintOf[b.to] = b.pool[1]
  BY <1>1, BothWays, SidesOfTrade
<1>2. CASE b.dex \in FlaggedDexes
  <2>1. PICK u : u \in UserSides(b)
    BY <1>1, <1>2
  <2>2. CASE b.dex = "AldrinExchangeV1"
    <3>1. AldrinV1(b, x) # {}
      BY <2>1 DEF AldrinV1
    <3> QED
      BY <2>2, <3>1, Distributed
  <2>3. CASE b.dex = "AldrinExchangeV2"
    <3>1. AldrinV2(b, x) # {}
      BY <2>1 DEF AldrinV2
    <3> QED
      BY <2>3, <3>1, Distributed
  <2>4. CASE b.dex = "Whirlpool"
    <3>1. Whirlpool(b, x) # {}
      BY <2>1 DEF Whirlpool
    <3> QED
      BY <2>4, <3>1, Distributed
  <2>5. CASE b.dex = "WhirlpoolV2"
    <3>1. WhirlpoolV2(b, x) # {}
      BY <2>1 DEF WhirlpoolV2
    <3> QED
      BY <2>5, <3>1, Distributed
  <2>6. CASE b.dex = "Phoenix"
    <3>1. Phoenix(b, x) # {}
      BY <2>1 DEF Phoenix
    <3> QED
      BY <2>6, <3>1, Distributed
  <2>7. CASE b.dex = "OpenBookV2"
    <3>1. OpenBookV2(b, x) # {}
      BY <2>1 DEF OpenBookV2
    <3> QED
      BY <2>7, <3>1, Distributed
  <2>8. CASE b.dex = "ObricV2"
    <3>1. ObricV2(b, x) # {}
      BY <2>1 DEF ObricV2
    <3> QED
      BY <2>8, <3>1, Distributed
  <2>9. CASE b.dex = "FutarchyAmm"
    <3>1. Futarchy(b, x) # {}
      BY <2>1 DEF Futarchy
    <3> QED
      BY <2>9, <3>1, Distributed
  <2>10. CASE b.dex = "Gavel"
    <3>1. Gavel(b, x) # {}
      BY <2>1 DEF Gavel
    <3> QED
      BY <2>10, <3>1, Distributed
  <2>11. CASE b.dex = "Whalestreet"
    <3>1. Whalestreet(b, x) # {}
      BY <2>1 DEF Whalestreet
    <3> QED
      BY <2>11, <3>1, Distributed
  <2>12. CASE b.dex = "Manifest"
    <3>1. Manifest(b, x) # {}
      BY <1>1, <1>2 DEF Manifest
    <3> QED
      BY <2>12, <3>1, Distributed
  <2>13. CASE b.dex = "Virtuals"
    <3>1. Virtuals(b, x) # {}
      BY <1>1, <1>2, <2>13 DEF Virtuals
    <3> QED
      BY <2>13, <3>1, Distributed
  <2>14. CASE b.dex \in {"RaydiumLaunchpad", "LetsBonkFun", "SarosDlmm"}
    BY <2>14 DEF CallsOf, AbortedDexes, RaydiumLaunchpad, SarosDlmm
  <2> QED
    BY <1>2, <2>2, <2>3, <2>4, <2>5, <2>6, <2>7, <2>8, <2>9, <2>10, <2>11, <2>12,
       <2>13, <2>14 DEF FlaggedDexes
<1>3. CASE b.dex \in SidedDexes
  BY <1>1, <1>3 DEF SidedDexes, CallsOf, AbortedDexes, FluxBeam, SplTokenSwap, StableSwap
<1>4. CASE b.dex \in PositionalDexes
  <2>1. CASE b.dex \in {"RaydiumSwap", "RaydiumSwapV2", "RaydiumStableSwap",
                        "RaydiumClmmSwap", "RaydiumClmmSwapV2"}
    BY <1>1, <1>4, <2>1 DEF CallsOf, AbortedDexes, RaydiumSwap, RaydiumSwapV2,
       RaydiumStable, RaydiumClmm, RaydiumClmmV2
  <2>2. CASE b.dex \in {"RaydiumCpmmSwap", "MeteoraDynamicpool", "MeteoraLst",
                        "MeteoraDlmm", "MeteoraDlmmSwap2"}
    BY <1>1, <1>4, <2>2 DEF CallsOf, AbortedDexes, RaydiumCpmm,
       MeteoraDynamicpool, MeteoraLst, MeteoraDlmm, MeteoraDlmmSwap2
  <2>3. CASE b.dex \in {"MeteoraDAMMV2", "MeteoraDAMMV2Swap2", "MeteoraDbc",
                        "MeteoraDbc2", "PancakeSwapV3Swap"}
    BY <1>1, <1>4, <2>3 DEF CallsOf, AbortedDexes, MeteoraDAMMV2,
       MeteoraDAMMV2Swap2, MeteoraDbc, MeteoraDbc2, PancakeSwapV3
  <2>4. CASE b.dex \in {"PancakeSwapV3SwapV2", "ByrealClmm", "StabbleSwap", "Saros",
                        "LifinityV2"}
    BY <1>1, <1>4, <2>4 DEF CallsOf, AbortedDexes, PancakeSwapV3V2, ByrealClmm,
       Stabble, Saros, LifinityV2
  <2>5. CASE b.dex \in {"Dooar", "GooseFX", "OneDexSwap", "Woofi", "Numeraire"}
    BY <1>1, <1>4, <2>5 DEF CallsOf, AbortedDexes, Dooar, GooseFX, OneDex, Woofi,
       Numeraire
  <2>6. CASE b.dex = "PerpetualsSwap"
    BY <1>1, <1>4, <2>6 DEF CallsOf, AbortedDexes, PerpetualsSwap
  <2> QED
    BY <1>4, <2>1, <2>2, <2>3, <2>4, <2>5, <2>6 DEF PositionalDexes
<1>5. CASE b.dex \in {"VertigoBuy", "HeavenSell", "MeteoraVaultDeposit"}
  BY <1>5 DEF CallsOf, AbortedDexes, OneWay, VertigoBuy, HeavenSell, MeteoraVaultDeposit
<1>6. CASE b.dex \in {"SaberDecimalWrapperDeposit", "PerpetualsAddLiq", "SanctumAddLiq"}
  BY <1>6 DEF CallsOf, AbortedDexes, OneWay, SaberDeposit, PerpetualsAddLiq, SanctumAddLiq
<1>7. CASE b.dex \in {"VertigoSell", "HeavenBuy", "MeteoraVaultWithdraw"}
  BY <1>7 DEF CallsOf, AbortedDexes, OneWay, VertigoSell, HeavenBuy, MeteoraVaultWithdraw
<1>8. CASE b.dex \in {"SaberDecimalWrapperWithdraw", "PerpetualsRemoveLiq",
                      "SanctumRemoveLiq"}
  BY <1>8 DEF CallsOf, AbortedDexes, OneWay, SaberWithdraw, PerpetualsRemoveLiq,
     SanctumRemoveLiq
<1>9. CASE b.dex = "PumpfunammBuy3"
  BY <1>9 DEF CallsOf, AbortedDexes, OneWay, PumpfunammBuy3
<1>10. CASE b.dex = "PumpfunammSell3"
  <2>1. PICK p : p \in OneWay(21, b, 1, x)
    BY DEF OneWay
  <2>2. PumpfunammSell3(b, x) # {}
    BY <2>1 DEF PumpfunammSell3
  <2> QED
    BY <1>10, <2>2, Distributed
<1> QED
  BY <1>2, <1>3, <1>4, <1>5, <1>6, <1>7, <1>8, <1>9, <1>10
  DEF TokenDexes, PickyDexes, FirstSideDexes, SecondSideDexes

-----------------------------------------------------------------------------
(* What the hooks find in a call.                                          *)

BuyHooks == {"refund", "rent"}
SellHooks == {"promised", "promisedOnly", "received"}

LEMMA CallFacts ==
  ASSUME NEW b, NEW x \in Nat, NEW c, Right(b, x, c)
  PROVE  /\ c.most \in Nat /\ c.most <= x
         /\ c.roles.authority = b.authority /\ Payee(c) = b.authority
         /\ \/ c.kind = "token" /\ c.hook \in {"none", "repaid"}
            \/ c.kind = "buy" /\ c.hook \in BuyHooks
            \/ c.kind = "sell" /\ c.hook \in SellHooks
         /\ c.hook \in BuyHooks => c.roles.source = b.from
         /\ c.hook \in BuyHooks \cup {"promised", "repaid"} => c.roles.payer = Payer
         /\ c.hook \in SellHooks => c.roles.dest = b.to
         /\ Accepts(b.pool, c) => c.debit = b.from /\ c.credit = b.to
<1>1. CallRight(b, x, c) /\ Shaped(c) /\ RolesRight(b, c.roles)
  BY DEF Right, CallRight
<1>2. /\ c.hook \in BuyHooks => "source" \in DOMAIN c.roles
      /\ c.hook \in BuyHooks \cup {"promised", "repaid"} => "payer" \in DOMAIN c.roles
      /\ c.hook \in SellHooks => "dest" \in DOMAIN c.roles
  BY <1>1 DEF Shaped, BuyHooks, SellHooks
<1>3. /\ c.most \in Nat /\ c.most <= x /\ c.roles.authority = b.authority
      /\ Payee(c) = b.authority
      /\ Accepts(b.pool, c) => c.debit = b.from /\ c.credit = b.to
  BY <1>1 DEF Shaped, CallRight, RolesRight, Payee
<1>4. \/ c.kind = "token" /\ c.hook \in {"none", "repaid"}
      \/ c.kind = "buy" /\ c.hook \in BuyHooks
      \/ c.kind = "sell" /\ c.hook \in SellHooks
  BY <1>1 DEF Shaped, BuyHooks, SellHooks
<1> QED
  BY <1>1, <1>2, <1>3, <1>4 DEF RolesRight

(* What a route brings for a fork.                                         *)
LEMMA RouteShape ==
  ASSUME NEW r \in Routes
  PROVE  /\ r.amount \in Nat /\ r.proxy \in BOOLEAN
         /\ r.from \in TokenAccounts /\ r.to \in TokenAccounts
         /\ Len(r.plan) \in Nat /\ DOMAIN r.plan = 1..Len(r.plan)
         /\ DOMAIN r.blocks = 1..Len(r.plan)
         /\ \A i \in 1..Len(r.plan) :
              /\ r.blocks[i] \in Laid
              /\ r.plan[i] \in [dex : Dexes, hop : Nat,
                                quote : [taker : Nat, maker : Nat, native : BOOLEAN]]
<1>1. r \in [proxy : BOOLEAN, amount : Nat, from : TokenAccounts, to : TokenAccounts,
             accounts : Nat, plan : Plans, blocks : Seq(Laid)]
  BY RouteAssumption
<1>2. Len(r.blocks) = Len(r.plan)
  BY RouteAssumption
<1> DEFINE step == [dex : Dexes, hop : Nat,
                    quote : [taker : Nat, maker : Nat, native : BOOLEAN]]
           plan == r.plan
           blocks == r.blocks
<1>3. plan \in Seq(step) /\ blocks \in Seq(Laid) /\ Len(blocks) = Len(plan)
  BY <1>1, <1>2 DEF Plans
<1>4. /\ r.amount \in Nat /\ r.proxy \in BOOLEAN
      /\ r.from \in TokenAccounts /\ r.to \in TokenAccounts
  BY <1>1
<1> HIDE DEF plan, blocks, step
<1>5. /\ Len(plan) \in Nat /\ DOMAIN plan = 1..Len(plan) /\ DOMAIN blocks = 1..Len(plan)
      /\ \A i \in 1..Len(plan) : blocks[i] \in Laid /\ plan[i] \in step
  BY <1>3
<1> QED
  BY <1>4, <1>5 DEF plan, blocks, step

LEMMA BlockShape ==
  ASSUME NEW r \in Routes, NEW i \in 1..Len(r.plan)
  PROVE  LET b == r.blocks[i]
             quote == r.plan[i].quote
         IN  /\ b \in Laid
             /\ b.pool[1] # b.pool[2]
             /\ b.dex = "Virtuals" => b.pool[1] = VirtualMint
             /\ b.dex \in LamportBuys \cup LamportSells => b.pool[1] = Wsol
             /\ b.others \cap {b.from, b.to} = {}
             /\ \A c \in CallsOf(b.dex, b, quote.taker, quote) : c.len \in 1..b.size
             /\ \A j \in 1..Len(r.plan) : i < j => b.at + b.size <= r.blocks[j].at
<1>1. /\ i \in DOMAIN r.blocks /\ DOMAIN r.blocks = 1..Len(r.plan)
      /\ r.blocks[i] \in Laid
  BY RouteShape
<1>2. LET b == r.blocks[i]
          quote == r.plan[i].quote
      IN  /\ b.pool[1] # b.pool[2]
          /\ b.dex = "Virtuals" => b.pool[1] = VirtualMint
          /\ b.dex \in LamportBuys \cup LamportSells => b.pool[1] = Wsol
          /\ b.others \cap {b.from, b.to} = {}
          /\ \A c \in CallsOf(b.dex, b, quote.taker, quote) : c.len \in 1..b.size
          /\ \A j \in DOMAIN r.blocks : i < j => b.at + b.size <= r.blocks[j].at
  BY <1>1, RouteAssumption, Zenon
<1> QED
  BY <1>1, <1>2

(* The call of a fork for its own block reads no more than the block.      *)
LEMMA CallOfBlock ==
  ASSUME NEW r \in Routes, NEW i \in 1..Len(r.plan), NEW x \in Nat,
         NEW c \in CallsOf(r.blocks[i].dex, r.blocks[i], x, r.plan[i].quote)
  PROVE  Formed(r.blocks[i], x, c) /\ c.len \in 1..r.blocks[i].size
<1> DEFINE b == r.blocks[i]
           quote == r.plan[i].quote
<1>1. /\ b \in Laid /\ b.pool[1] # b.pool[2]
      /\ b.dex = "Virtuals" => b.pool[1] = VirtualMint
      /\ \A d \in CallsOf(b.dex, b, quote.taker, quote) : d.len \in 1..b.size
  BY BlockShape
<1>2. c \in CallsOf(b.dex, b, x, quote)
  OBVIOUS
<1> HIDE DEF b, quote
<1>3. b.dex \in Dexes
  BY <1>1 DEF Laid
<1>4. Formed(b, x, c)
  BY <1>1, <1>2, <1>3, CallsFormed
<1>5. LengthKnown(b, quote, c)
  BY <1>2, <1>3, LengthOfAmount
<1>6. PICK d \in CallsOf(b.dex, b, quote.taker, quote) : d.len = c.len
  BY <1>5 DEF LengthKnown
<1> QED
  BY <1>1, <1>4, <1>6 DEF b

-----------------------------------------------------------------------------
(* RightSides holds of every route that may be asked for.                  *)
LEMMA SidesOfRoute ==
  ASSUME route \in Routes
  PROVE  RightSides
<1> DEFINE b(i) == route.blocks[i]
           calls(i, x) == CallsOf(b(i).dex, b(i), x, route.plan[i].quote)
<1>1. ASSUME NEW i \in DOMAIN route.blocks, NEW x \in 1..left
      PROVE  /\ b(i).dex \in TokenDexes \ PickyDexes /\ Tradable(b(i)) => calls(i, x) # {}
             /\ OwnSlots(b(i)) => \A c \in calls(i, x) : CallRight(b(i), x, c)
  <2>1. i \in 1..Len(route.plan) /\ x \in Nat
    BY <1>1, RouteShape
  <2>2. b(i).dex = "Virtuals" => b(i).pool[1] = VirtualMint
    BY <2>1, BlockShape
  <2>3. ASSUME OwnSlots(b(i)), NEW c \in calls(i, x)
        PROVE  CallRight(b(i), x, c)
    <3>1. Formed(b(i), x, c)
      BY <2>1, CallOfBlock
    <3> QED
      BY <2>1, <2>3, <3>1, FormedRight DEF Right
  <2>4. ASSUME b(i).dex \in TokenDexes \ PickyDexes, Tradable(b(i))
        PROVE  calls(i, x) # {}
    <3> DEFINE bl == b(i)
               q == route.plan[i].quote
    <3>1. bl.dex \in TokenDexes \ PickyDexes /\ Tradable(bl)
      BY <2>4
    <3>2. bl.dex = "Virtuals" => bl.pool[1] = VirtualMint
      BY <2>2
    <3> HIDE DEF bl, q
    <3>3. CallsOf(bl.dex, bl, x, q) # {}
      BY <3>1, <3>2, NoneRefused
    <3> QED
      BY <3>3 DEF bl, q
  <2> QED
    BY <2>3, <2>4
<1>2. \A i \in DOMAIN route.blocks, x \in 1..left :
        /\ b(i).dex \in TokenDexes \ PickyDexes /\ Tradable(b(i)) => calls(i, x) # {}
        /\ OwnSlots(b(i)) => \A c \in calls(i, x) : CallRight(b(i), x, c)
  BY <1>1
<1> QED
  BY <1>2, Zenon DEF RightSides

-----------------------------------------------------------------------------
(* Money.                                                                  *)

(* What account a gets of an amount that goes to one account.              *)
At(a, to, x) == IF a = to THEN x ELSE 0

(* A payment in SOL, to a wallet or into a token account.                  *)
LEMMA PaySolEffect ==
  ASSUME NEW b \in Books, NEW from \in SolAccounts, NEW to, NEW x \in Nat,
         b.sol[from] >= x
  PROVE  LET n == PaySol(b, from, to, x)
         IN  /\ n \in Books /\ n.tok = b.tok /\ n.open = b.open
             /\ \A a \in SolAccounts :
                  n.sol[a] = b.sol[a] - At(a, from, x) + At(a, to, x)
             /\ \A a \in TokenAccounts : n.excess[a] = b.excess[a] + At(a, to, x)
<1>1. CASE x = 0
  BY <1>1 DEF PaySol, Books, At
<1>2. CASE x # 0
  <2> DEFINE sol == [a \in SolAccounts |->
                b.sol[a] - (IF a = from THEN x ELSE 0) + (IF a = to THEN x ELSE 0)]
             excess == [a \in TokenAccounts |-> b.excess[a] + (IF a = to THEN x ELSE 0)]
  <2>1. PaySol(b, from, to, x) = [b EXCEPT !.sol = sol, !.excess = excess]
    BY <1>2 DEF PaySol
  <2>2. sol \in [SolAccounts -> Nat] /\ excess \in [TokenAccounts -> Nat]
    BY DEF Books
  <2> HIDE DEF sol, excess
  <2>3. LET n == [b EXCEPT !.sol = sol, !.excess = excess]
        IN  /\ n \in Books /\ n.sol = sol /\ n.excess = excess
            /\ n.tok = b.tok /\ n.open = b.open
    BY <2>2 DEF Books
  <2> QED
    BY <2>1, <2>3 DEF sol, excess, At
<1> QED
  BY <1>1, <1>2

(* A closed account gives all it has to its owner.                         *)
LEMMA ClosedEffect ==
  ASSUME NEW b \in Books, NEW d \in TokenAccounts, NEW to \in SolAccounts
  PROVE  LET n == Closed(b, d, to)
         IN  /\ n \in Books /\ n.open = b.open \ {d} /\ n.tok[d] = 0
             /\ \A a \in TokenAccounts \ {d} :
                  n.tok[a] = b.tok[a] /\ n.excess[a] = b.excess[a]
             /\ \A a \in SolAccounts :
                  n.sol[a] =
                    b.sol[a] + At(a, to, b.tok[d] + b.excess[d] + TOKEN_ACCOUNT_RENT)
<1> DEFINE tok == [b.tok EXCEPT ![d] = 0]
           excess == [b.excess EXCEPT ![d] = 0]
           open == b.open \ {d}
           sol == [b.sol EXCEPT ![to] = @ + b.tok[d] + b.excess[d] + TOKEN_ACCOUNT_RENT]
<1>1. Closed(b, d, to) =
        [b EXCEPT !.tok = tok, !.excess = excess, !.open = open, !.sol = sol]
  BY DEF Closed, Books
<1>2. /\ tok \in [TokenAccounts -> Nat] /\ excess \in [TokenAccounts -> Nat]
      /\ sol \in [SolAccounts -> Nat] /\ open \in SUBSET TokenAccounts
  BY LedgerAssumption DEF Books
<1>3. /\ \A a \in TokenAccounts \ {d} : tok[a] = b.tok[a] /\ excess[a] = b.excess[a]
      /\ \A a \in SolAccounts :
           sol[a] = b.sol[a] + At(a, to, b.tok[d] + b.excess[d] + TOKEN_ACCOUNT_RENT)
  BY LedgerAssumption DEF Books, At
<1>4. open = b.open \ {d} /\ tok[d] = 0
  BY DEF Books
<1> HIDE DEF tok, excess, open, sol
<1>5. LET n == [b EXCEPT !.tok = tok, !.excess = excess, !.open = open, !.sol = sol]
      IN  /\ n \in Books /\ n.tok = tok /\ n.excess = excess /\ n.open = open /\ n.sol = sol
  BY <1>2 DEF Books
<1> QED
  BY <1>1, <1>3, <1>4, <1>5

(* Tokens that arrive at an account or leave it, ...                       *)
LEMMA MovedEffect ==
  ASSUME NEW b \in Books, NEW d \in TokenAccounts, NEW x \in Int, b.tok[d] + x >= 0
  PROVE  LET n == Moved(b, d, x)
         IN  /\ n \in Books /\ n.open = b.open /\ n.sol = b.sol /\ n.excess = b.excess
             /\ \A a \in TokenAccounts : n.tok[a] = b.tok[a] + At(a, d, x)
<1> DEFINE tok == [b.tok EXCEPT ![d] = @ + x]
<1>1. Moved(b, d, x) = [b EXCEPT !.tok = tok]
  BY DEF Moved, Books
<1>2. tok \in [TokenAccounts -> Nat] /\ \A a \in TokenAccounts : tok[a] = b.tok[a] + At(a, d, x)
  BY DEF Books, At
<1> HIDE DEF tok
<1> QED
  BY <1>1, <1>2 DEF Books

(* ... and lamports.                                                       *)
LEMMA LampedEffect ==
  ASSUME NEW b \in Books, NEW d \in SolAccounts, NEW x \in Int, b.sol[d] + x >= 0
  PROVE  LET n == Lamped(b, d, x)
         IN  /\ n \in Books /\ n.open = b.open /\ n.tok = b.tok /\ n.excess = b.excess
             /\ \A a \in SolAccounts : n.sol[a] = b.sol[a] + At(a, d, x)
<1> DEFINE sol == [b.sol EXCEPT ![d] = @ + x]
<1>1. Lamped(b, d, x) = [b EXCEPT !.sol = sol]
  BY DEF Lamped, Books
<1>2. sol \in [SolAccounts -> Nat] /\ \A a \in SolAccounts : sol[a] = b.sol[a] + At(a, d, x)
  BY DEF Books, At
<1> HIDE DEF sol
<1> QED
  BY <1>1, <1>2 DEF Books

(* Lamports that are wrapped go to one account and become its tokens.      *)
LEMMA WrappedEffect ==
  ASSUME NEW b \in Books, NEW from \in SolAccounts, NEW d \in TokenAccounts,
         NEW x \in Nat, b.sol[from] >= x
  PROVE  LET n == Synced(PaySol(b, from, d, x), d)
         IN  /\ n \in Books /\ n.open = b.open
             /\ \A a \in TokenAccounts \ {d} :
                  n.tok[a] = b.tok[a] /\ n.excess[a] = b.excess[a]
             /\ n.tok[d] = b.tok[d] + b.excess[d] + x
             /\ \A a \in SolAccounts : n.sol[a] = b.sol[a] - At(a, from, x)
<1> DEFINE p == PaySol(b, from, d, x)
           tok == [p.tok EXCEPT ![d] = @ + p.excess[d]]
           excess == [p.excess EXCEPT ![d] = 0]
<1>1. d \notin SolAccounts
  BY LedgerAssumption
<1>2. /\ p \in Books /\ p.tok = b.tok /\ p.open = b.open
      /\ \A a \in SolAccounts : p.sol[a] = b.sol[a] - At(a, from, x) + At(a, d, x)
      /\ \A a \in TokenAccounts : p.excess[a] = b.excess[a] + At(a, d, x)
  BY PaySolEffect
<1>3. /\ \A a \in SolAccounts : p.sol[a] = b.sol[a] - At(a, from, x)
      /\ \A a \in TokenAccounts \ {d} : p.excess[a] = b.excess[a]
      /\ p.excess[d] = b.excess[d] + x
  BY <1>1, <1>2 DEF At, Books
<1> HIDE DEF p
<1>4. Synced(p, d) = [p EXCEPT !.tok = tok, !.excess = excess]
  BY <1>2 DEF Synced, Books
<1>5. /\ tok \in [TokenAccounts -> Nat] /\ excess \in [TokenAccounts -> Nat]
      /\ \A a \in TokenAccounts \ {d} : tok[a] = p.tok[a] /\ excess[a] = p.excess[a]
      /\ tok[d] = b.tok[d] + b.excess[d] + x
  BY <1>2, <1>3 DEF Books
<1> HIDE DEF tok, excess
<1>6. LET n == Synced(p, d)
      IN  /\ n \in Books /\ n.tok = tok /\ n.excess = excess
          /\ n.open = p.open /\ n.sol = p.sol
  BY <1>2, <1>4, <1>5 DEF Books
<1> QED
  BY <1>2, <1>3, <1>5, <1>6 DEF p

-----------------------------------------------------------------------------
(* The fork under way.                                                     *)

LEMMA AccountsApart ==
  /\ SaAuthority \in SolAccounts /\ Payer \in SolAccounts /\ SaAuthority # Payer
  /\ WsolSa \in TokenAccounts /\ OwnerOf[WsolSa] = SaAuthority
  /\ None \notin TokenAccounts
  /\ TOKEN_ACCOUNT_RENT \in Nat /\ SOL_DIFF_LIMIT \in Nat /\ MIN_SOL_ACCOUNT_RENT \in Nat
  /\ TOKEN_ACCOUNT_RENT <= SOL_DIFF_LIMIT
  BY HopAssumption, AdapterAssumption, LedgerAssumption

LEMMA ForkShape ==
  ASSUME AdapterTypeOK, CursorInv, OwnBlock, UnderWay
  PROVE  /\ route \in Routes /\ done + 1 \in 1..Len(route.plan)
         /\ swap.block = route.blocks[done + 1] /\ swap.block \in Laid
         /\ swap.block.from \in TokenAccounts /\ swap.block.to \in TokenAccounts
         /\ swap.block.authority \in SolAccounts /\ swap.block.others \subseteq TokenAccounts
         /\ swap.block.slots \in Slots
         /\ swap.block.pool[1] # swap.block.pool[2]
         /\ swap.block.dex \in LamportBuys \cup LamportSells => swap.block.pool[1] = Wsol
         /\ swap.block.others \cap {swap.block.from, swap.block.to} = {}
         /\ swap.amount \in Nat /\ swap.before \in Nat /\ swap.was \in Books
         /\ swap.call \in OwnCalls
         /\ Formed(swap.block, swap.amount, swap.call)
         /\ swap.call.len \in 1..swap.block.size
<1>1. route \in Routes /\ done \in Nat /\ done < Len(route.plan)
  BY DEF AdapterTypeOK, CursorInv, UnderWay
<1>2. done + 1 \in 1..Len(route.plan)
  BY <1>1, RouteShape
<1>3. /\ swap.block \in Laid /\ swap.amount \in Nat /\ swap.before \in Nat
      /\ swap.was \in Books /\ swap.call \in OwnCalls
  BY DEF AdapterTypeOK
<1>4. swap.block = route.blocks[done + 1]
  BY DEF OwnBlock
<1>5. Formed(swap.block, swap.amount, swap.call) /\ swap.call.len \in 1..swap.block.size
  BY <1>1, <1>2, <1>3, <1>4, CallOfBlock DEF OwnCalls
<1>6. /\ swap.block.others \cap {swap.block.from, swap.block.to} = {}
      /\ swap.block.pool[1] # swap.block.pool[2]
      /\ swap.block.dex \in LamportBuys \cup LamportSells => swap.block.pool[1] = Wsol
  BY <1>1, <1>2, <1>4, BlockShape
<1> QED
  BY <1>1, <1>2, <1>3, <1>4, <1>5, <1>6 DEF Laid

(* What the call of a fork names: the accounts of the fork, but for the    *)
(* slots that the caller fills.                                            *)
OwnOrSlot(b, a, own) == a = own \/ (b.dex \in SlotDexes /\ a \in Named(b))

FromBlock(b, x, c) ==
  /\ c.most \in Nat /\ c.most <= x
  /\ c.roles.authority \in SolAccounts /\ Payee(c) \in SolAccounts
  /\ \/ c.kind = "token" /\ c.hook \in {"none", "repaid"}
     \/ c.kind = "buy" /\ c.hook \in BuyHooks
     \/ c.kind = "sell" /\ c.hook \in SellHooks
  /\ c.hook # "promisedOnly" => Payee(c) = c.roles.authority
  /\ c.hook \in BuyHooks \cup {"promised", "repaid"} => c.roles.payer = Payer
  /\ c.hook \in BuyHooks =>
       /\ c.roles.source \in TokenAccounts
       /\ c.roles.source = b.from \/ (b.dex = "MoonitBuy" /\ c.hook = "rent")
  /\ c.hook \in SellHooks =>
       /\ c.roles.dest \in TokenAccounts
       /\ c.roles.dest = b.to \/ (b.dex = "MoonitSell" /\ c.hook = "received")
  /\ b.dex = "MoonitBuy" => c.hook = "rent"
  /\ b.dex = "MoonitSell" => c.hook = "received"
  /\ Accepts(b.pool, c) =>
       /\ c.debit \in TokenAccounts /\ c.credit \in TokenAccounts
       /\ c.kind = "token" => c.debit = b.from /\ c.credit = b.to
       /\ c.kind = "buy" => c.credit = b.to \/ b.dex = "MoonitBuy"
       /\ c.kind = "sell" => OwnOrSlot(b, c.debit, b.from) /\ c.debit # b.to

LEMMA SlotFromBlock ==
  ASSUME NEW b \in Laid, NEW x \in Nat, b.dex \in SlotDexes,
         b.pool[1] # b.pool[2]
  PROVE  FromBlock(b, x, SlotCall(b, x))
<1>1. /\ b.slots.trader \in SolAccounts /\ b.slots.recipient \in SolAccounts
      /\ b.slots.held \in TokenAccounts /\ b.slots.wrapped \in TokenAccounts
      /\ b.from \in TokenAccounts /\ b.to \in TokenAccounts
  BY DEF Laid, Slots
<1>2. CASE b.dex = "BoopfunSell"
  <2> DEFINE roles == [dest |-> b.to, authority |-> b.slots.trader,
                       program |-> SplToken, recipient |-> b.slots.recipient]
             c == [len |-> 16, kind |-> "sell", hook |-> "promisedOnly",
                   debit |-> b.slots.held, credit |-> b.to, into |-> 2, most |-> x,
                   roles |-> roles]
  <2>1. SlotCall(b, x) = c
    BY <1>2 DEF SlotCall
  <2>2. Payee(c) = b.slots.recipient
    BY DEF Payee
  <2>3. Accepts(b.pool, c) => b.slots.held # b.to
    BY DEF Accepts
  <2>4. OwnOrSlot(b, b.slots.held, b.from)
    BY <1>2 DEF OwnOrSlot, SlotDexes, Named
  <2>5. /\ c.most = x /\ c.roles = roles /\ c.kind = "sell" /\ c.hook = "promisedOnly"
        /\ c.debit = b.slots.held /\ c.credit = b.to
        /\ roles.authority = b.slots.trader /\ roles.dest = b.to
    OBVIOUS
  <2> HIDE DEF c, roles
  <2> QED
    BY <1>1, <1>2, <2>1, <2>2, <2>3, <2>4, <2>5 DEF FromBlock, SellHooks, BuyHooks
<1>3. CASE b.dex = "MoonitBuy"
  <2> DEFINE roles == [source |-> b.slots.wrapped, program |-> SplToken,
                       authority |-> b.slots.trader, payer |-> Payer]
             c == [len |-> 16, kind |-> "buy", hook |-> "rent",
                   debit |-> b.from, credit |-> b.slots.held, into |-> 1, most |-> x,
                   roles |-> roles]
  <2>1. SlotCall(b, x) = c
    BY <1>3 DEF SlotCall
  <2>2. Payee(c) = b.slots.trader
    BY DEF Payee
  <2>3. /\ c.most = x /\ c.roles = roles /\ c.kind = "buy" /\ c.hook = "rent"
        /\ c.debit = b.from /\ c.credit = b.slots.held
        /\ roles.authority = b.slots.trader /\ roles.source = b.slots.wrapped
        /\ roles.payer = Payer
    OBVIOUS
  <2> HIDE DEF c, roles
  <2> QED
    BY <1>1, <1>3, <2>1, <2>2, <2>3 DEF FromBlock, SellHooks, BuyHooks
<1>4. CASE b.dex = "MoonitSell"
  <2> DEFINE roles == [dest |-> b.slots.wrapped, authority |-> b.slots.trader,
                       program |-> SplToken]
             c == [len |-> 16, kind |-> "sell", hook |-> "received",
                   debit |-> b.slots.held, credit |-> b.to, into |-> 2, most |-> x,
                   roles |-> roles]
  <2>1. SlotCall(b, x) = c
    BY <1>4 DEF SlotCall
  <2>2. Payee(c) = b.slots.trader
    BY DEF Payee
  <2>3. Accepts(b.pool, c) => b.slots.held # b.to
    BY DEF Accepts
  <2>4. OwnOrSlot(b, b.slots.held, b.from)
    BY <1>4 DEF OwnOrSlot, SlotDexes, Named
  <2>5. /\ c.most = x /\ c.roles = roles /\ c.kind = "sell" /\ c.hook = "received"
        /\ c.debit = b.slots.held /\ c.credit = b.to
        /\ roles.authority = b.slots.trader /\ roles.dest = b.slots.wrapped
    OBVIOUS
  <2> HIDE DEF c, roles
  <2> QED
    BY <1>1, <1>4, <2>1, <2>2, <2>3, <2>4, <2>5 DEF FromBlock, SellHooks, BuyHooks
<1> QED
  BY <1>2, <1>3, <1>4 DEF SlotDexes

LEMMA RightFromBlock ==
  ASSUME NEW b \in Laid, NEW x \in Nat, NEW c, Right(b, x, c), b.dex \notin SlotDexes,
         b.pool[1] # b.pool[2]
  PROVE  FromBlock(b, x, c)
<1>1. /\ b.from \in TokenAccounts /\ b.to \in TokenAccounts /\ b.authority \in SolAccounts
  BY DEF Laid
<1>2. b.dex # "MoonitBuy" /\ b.dex # "MoonitSell"
  BY DEF SlotDexes
<1>3. ASSUME Accepts(b.pool, c), c.kind = "sell"
      PROVE  b.from # b.to
  <2>1. Tradable(b)
    BY <1>3 DEF Right, CallRight
  <2>2. PICK i \in 1..2 : MintOf[b.from] = b.pool[i] /\ MintOf[b.to] = b.pool[3 - i]
    BY <2>1 DEF Tradable, Directions
  <2>3. i = 1 \/ i = 2
    OBVIOUS
  <2> QED
    BY <2>2, <2>3
<1>4. /\ c.most \in Nat /\ c.most <= x
      /\ c.roles.authority = b.authority /\ Payee(c) = b.authority
      /\ \/ c.kind = "token" /\ c.hook \in {"none", "repaid"}
         \/ c.kind = "buy" /\ c.hook \in BuyHooks
         \/ c.kind = "sell" /\ c.hook \in SellHooks
      /\ c.hook \in BuyHooks => c.roles.source = b.from
      /\ c.hook \in BuyHooks \cup {"promised", "repaid"} => c.roles.payer = Payer
      /\ c.hook \in SellHooks => c.roles.dest = b.to
      /\ Accepts(b.pool, c) => c.debit = b.from /\ c.credit = b.to
  BY CallFacts
<1> QED
  BY <1>1, <1>2, <1>3, <1>4 DEF FromBlock, OwnOrSlot

LEMMA ForkCall ==
  ASSUME AdapterTypeOK, CursorInv, OwnBlock, UnderWay
  PROVE  FromBlock(swap.block, swap.amount, swap.call)
<1>1. /\ swap.block \in Laid /\ swap.amount \in Nat
      /\ swap.block.pool[1] # swap.block.pool[2]
      /\ Formed(swap.block, swap.amount, swap.call)
  BY ForkShape
<1> QED
  BY <1>1, SlotFromBlock, RightFromBlock DEF Formed

(* The maker of an RFQ has no hook.                                        *)
LEMMA RfqCall ==
  ASSUME AdapterTypeOK, CursorInv, OwnBlock, UnderWay, swap.block.dex = "SolRfq"
  PROVE  swap.call.kind = "token" /\ swap.call.hook = "none" /\ swap.call.into \in 1..2
<1>1. swap.call \in OwnCalls
  BY ForkShape
<1>2. swap.call \in Positional(12, swap.block, swap.amount)
  BY <1>1 DEF OwnCalls, CallsOf, AbortedDexes, SolRfq
<1> QED
  BY <1>2 DEF Positional, TokenCall

-----------------------------------------------------------------------------
(* What the hook before the call does to the ledger.                       *)
LEMMA BeforeInvokeEffect ==
  ASSUME AdapterTypeOK, CursorInv, OwnBlock, ForkKept, WsolSa \in book.open, BeforeInvoke
  PROVE  /\ book' \in Books /\ Lamports \in Nat /\ WsolSa \in book'.open
         /\ ~Buys => book' = book
         /\ Buys =>
              /\ Roles.source \in TokenAccounts /\ Roles.source \notin book'.open
              /\ book'.tok[Roles.source] <= book.tok[Roles.source]
              /\ \A a \in TokenAccounts \ {Roles.source} :
                   /\ book'.tok[a] = book.tok[a] /\ book'.excess[a] = book.excess[a]
                   /\ a \in book'.open <=> a \in book.open
         /\ ~ForVault => book'.sol[SaAuthority] = book.sol[SaAuthority]
         /\ ForVault /\ Buys =>
              /\ book'.sol[SaAuthority] >=
                   (book.sol[SaAuthority]
                      + (IF Roles.source \in book.open THEN book.tok[Roles.source]
                         ELSE -TOKEN_ACCOUNT_RENT))
                     + (IF swap.call.hook = "refund" THEN TOKEN_ACCOUNT_RENT ELSE 0)
              /\ book'.sol[Payer] = book.sol[Payer]
                   + (IF swap.call.hook = "rent" THEN TOKEN_ACCOUNT_RENT ELSE 0)
<1> DEFINE s == Roles.source
           auth == Roles.authority
           n == SourceClosed
           m == PaySol(n, SaAuthority, Payer, TOKEN_ACCOUNT_RENT)
           freed == IF s \in book.open THEN book.tok[s] ELSE -TOKEN_ACCOUNT_RENT
           rent == IF swap.call.hook = "refund" THEN TOKEN_ACCOUNT_RENT ELSE 0
           back == IF swap.call.hook = "rent" THEN TOKEN_ACCOUNT_RENT ELSE 0
<1>1. UnderWay /\ book \in Books /\ phase = "checked"
  BY DEF BeforeInvoke, UnderWay, AdapterTypeOK
<1>2. /\ auth \in SolAccounts
      /\ Buys => s \in TokenAccounts /\ Roles.payer = Payer
      /\ swap.call.hook = "refund" => s = swap.block.from
  BY <1>1, ForkCall DEF FromBlock, Roles, Buys, BuyHooks
<1>3. Lamports \in Nat
  BY <1>1, AccountsApart DEF Lamports, Books
<1>4. swap.call.hook = "refund" => s \in book.open
  BY <1>1, <1>2 DEF ForkKept
<1>5. ASSUME ~Buys
      PROVE  book' = book
  BY <1>5 DEF BeforeInvoke, Buys
<1>6. ASSUME Buys
      PROVE  /\ SourceCloses
             /\ book' = IF swap.call.hook = "rent" /\ ForVault THEN m ELSE n
             /\ swap.call.hook = "rent" /\ ForVault =>
                  SolPayable(n, SaAuthority, Payer, TOKEN_ACCOUNT_RENT)
  BY <1>2, <1>6 DEF BeforeInvoke, Buys, RentReturned
<1>7. /\ \A a \in SolAccounts : book.sol[a] \in Nat
      /\ \A a \in TokenAccounts : book.tok[a] \in Nat /\ book.excess[a] \in Nat
      /\ TOKEN_ACCOUNT_RENT \in Nat /\ rent \in Nat /\ back \in Nat
  BY <1>1, AccountsApart DEF Books
<1>8. ASSUME Buys
      PROVE  freed \in Int
  BY <1>2, <1>7, <1>8
(* The account is closed, if there is one. *)
<1>9. ASSUME Buys
      PROVE  /\ n \in Books /\ s \notin n.open /\ n.tok[s] <= book.tok[s]
             /\ WsolSa \in n.open
             /\ \A a \in TokenAccounts \ {s} :
                  /\ n.tok[a] = book.tok[a] /\ n.excess[a] = book.excess[a]
                  /\ a \in n.open <=> a \in book.open
             /\ \A a \in SolAccounts \ {auth} : n.sol[a] = book.sol[a]
             /\ n.sol[auth] >= (book.sol[auth] + freed) + TOKEN_ACCOUNT_RENT
  <2>1. CASE Gone
    <3>1. n = book /\ s \notin book.open /\ freed = -TOKEN_ACCOUNT_RENT
      BY <2>1 DEF SourceClosed, Gone
    <3>2. n.sol[auth] >= (book.sol[auth] + freed) + TOKEN_ACCOUNT_RENT
      BY <1>2, <1>7, <3>1
    <3> HIDE DEF freed, n
    <3> QED
      BY <1>1, <1>2, <1>7, <1>9, <3>1, <3>2
  <2>2. CASE ~Gone
    <3>1. /\ s \in book.open /\ OwnerOf[s] = auth /\ (auth = SaAuthority => s # WsolSa)
          /\ freed = book.tok[s] /\ n = Closed(book, s, auth)
      BY <1>6, <1>9, <2>2 DEF SourceCloses, SourceClosed, Closable, ForVault
    <3>2. s # WsolSa
      BY <3>1, AccountsApart
    <3> HIDE DEF s, auth, n, freed
    <3>3. /\ n \in Books /\ n.open = book.open \ {s} /\ n.tok[s] = 0
          /\ \A a \in TokenAccounts \ {s} :
               n.tok[a] = book.tok[a] /\ n.excess[a] = book.excess[a]
          /\ \A a \in SolAccounts :
               n.sol[a] = book.sol[a]
                 + At(a, auth, book.tok[s] + book.excess[s] + TOKEN_ACCOUNT_RENT)
      BY <1>1, <1>2, <1>9, <3>1, ClosedEffect
    <3>4. ASSUME NEW a \in SolAccounts \ {auth}
          PROVE  n.sol[a] = book.sol[a]
      <4>1. book.sol[a] \in Nat /\ a # auth
        BY <1>7
      <4> QED
        BY <3>3, <4>1 DEF At
    <3>5. n.sol[auth] >= (book.sol[auth] + freed) + TOKEN_ACCOUNT_RENT
      BY <1>2, <1>7, <1>9, <3>1, <3>3 DEF At
    <3>6. WsolSa \in n.open /\ n.tok[s] <= book.tok[s]
      BY <1>2, <1>7, <1>9, <3>2, <3>3
    <3> QED
      BY <3>3, <3>4, <3>5, <3>6
  <2> QED
    BY <2>1, <2>2
<1>10. ForVault <=> auth = SaAuthority
  BY DEF ForVault
<1> HIDE DEF n, freed, s, auth
<1>11. CASE ~Buys
  <2>1. book' = book
    BY <1>5, <1>11
  <2> QED
    BY <1>1, <1>3, <1>11, <2>1
<1>12. CASE Buys /\ ~(swap.call.hook = "rent" /\ ForVault)
  <2>1. book' = n
    BY <1>6, <1>12
  <2>2. ~ForVault => n.sol[SaAuthority] = book.sol[SaAuthority]
    BY <1>9, <1>10, <1>12, AccountsApart
  <2>3. ASSUME ForVault
        PROVE  /\ n.sol[SaAuthority] >= (book.sol[SaAuthority] + freed) + rent
               /\ n.sol[Payer] = book.sol[Payer] + back
    <3>1. swap.call.hook = "refund" /\ rent = TOKEN_ACCOUNT_RENT /\ back = 0
      BY <1>12, <2>3 DEF Buys
    <3>2. n.sol[Payer] = book.sol[Payer]
      BY <1>9, <1>10, <1>12, <2>3, AccountsApart
    <3>3. n.sol[SaAuthority] >= (book.sol[SaAuthority] + freed) + TOKEN_ACCOUNT_RENT
      BY <1>9, <1>10, <1>12, <2>3
    <3> HIDE DEF rent, back
    <3> QED
      BY <1>7, <3>1, <3>2, <3>3, AccountsApart
  <2> HIDE DEF rent, back
  <2> QED
    BY <1>2, <1>3, <1>9, <1>12, <2>1, <2>2, <2>3 DEF s, freed, rent, back
<1>13. CASE Buys /\ swap.call.hook = "rent" /\ ForVault
  <2>1. book' = m
    BY <1>6, <1>13
  <2>2. /\ n \in Books /\ n.sol[SaAuthority] \in Nat /\ n.sol[Payer] \in Nat
        /\ \A a \in TokenAccounts : n.excess[a] \in Nat
    BY <1>9, <1>13, AccountsApart DEF Books
  <2>3. n.sol[SaAuthority] >= TOKEN_ACCOUNT_RENT
    BY <1>6, <1>7, <1>13, <2>2 DEF SolPayable
  <2>4. /\ m \in Books /\ m.tok = n.tok /\ m.open = n.open
        /\ \A a \in SolAccounts :
             m.sol[a] = n.sol[a] - At(a, SaAuthority, TOKEN_ACCOUNT_RENT)
                                 + At(a, Payer, TOKEN_ACCOUNT_RENT)
        /\ \A a \in TokenAccounts : m.excess[a] = n.excess[a] + At(a, Payer, TOKEN_ACCOUNT_RENT)
    BY <1>7, <2>2, <2>3, AccountsApart, PaySolEffect
  <2> HIDE DEF m
  <2>5. ASSUME NEW a \in TokenAccounts
        PROVE  m.excess[a] = n.excess[a]
    <3>1. a # Payer /\ n.excess[a] \in Nat
      BY <2>2, AccountsApart, LedgerAssumption
    <3> QED
      BY <2>4, <3>1 DEF At
  <2>6. /\ m.sol[SaAuthority] = n.sol[SaAuthority] - TOKEN_ACCOUNT_RENT
        /\ m.sol[Payer] = n.sol[Payer] + TOKEN_ACCOUNT_RENT
    BY <1>7, <2>2, <2>4, AccountsApart DEF At
  <2>7. /\ n.sol[SaAuthority] >= (book.sol[SaAuthority] + freed) + TOKEN_ACCOUNT_RENT
        /\ n.sol[Payer] = book.sol[Payer]
    BY <1>9, <1>10, <1>13, AccountsApart
  <2>8. rent = 0 /\ back = TOKEN_ACCOUNT_RENT
    BY <1>13
  <2> HIDE DEF rent, back
  <2>9. m.sol[SaAuthority] >= (book.sol[SaAuthority] + freed) + rent
    BY <1>7, <1>8, <1>13, <2>2, <2>6, <2>7, <2>8, AccountsApart
  <2>10. m.sol[Payer] = book.sol[Payer] + back
    BY <2>6, <2>7, <2>8
  <2>11. /\ m \in Books /\ WsolSa \in m.open /\ s \notin m.open /\ m.tok[s] <= book.tok[s]
         /\ \A a \in TokenAccounts \ {s} :
              /\ m.tok[a] = book.tok[a] /\ m.excess[a] = book.excess[a]
              /\ a \in m.open <=> a \in book.open
    BY <1>9, <1>13, <2>4, <2>5
  <2> QED
    BY <1>2, <1>3, <1>13, <2>1, <2>9, <2>10, <2>11 DEF s, freed, rent, back
<1> QED
  BY <1>11, <1>12, <1>13

-----------------------------------------------------------------------------
(* What a DEX does to the ledger b that it is left with.                   *)

LEMMA TradesEffect ==
  ASSUME AdapterTypeOK, CursorInv, OwnBlock, UnderWay,
         Accepts(swap.block.pool, swap.call),
         NEW b \in Books, Trades(b, swap.call)
  PROVE  /\ book' \in Books /\ book'.open = b.open /\ book'.excess = b.excess
         /\ swap.call.kind = "token" =>
              \A a \in TokenAccounts \ {swap.block.from, swap.block.to} :
                book'.tok[a] = b.tok[a]
         /\ swap.call.kind = "buy" =>
              /\ \A a \in TokenAccounts \ {swap.call.credit} : book'.tok[a] = b.tok[a]
              /\ book'.tok[swap.call.credit] >= b.tok[swap.call.credit]
              /\ \/ swap.call.credit \in b.open
                 \/ book'.tok[swap.call.credit] = b.tok[swap.call.credit]
         /\ swap.call.kind = "sell" =>
              /\ \A a \in TokenAccounts \ {swap.call.debit} : book'.tok[a] = b.tok[a]
              /\ \/ /\ swap.call.debit \in b.open
                    /\ OwnerOf[swap.call.debit] = Roles.authority
                 \/ book'.tok[swap.call.debit] = b.tok[swap.call.debit]
              /\ \A a \in SolAccounts : book'.sol[a] >= b.sol[a]
         /\ \A a \in SolAccounts \ Signers(swap.call) : book'.sol[a] = b.sol[a]
         /\ swap.call.kind = "token" /\ swap.call.hook # "repaid" =>
              book'.sol[Roles.authority] = b.sol[Roles.authority]
         /\ swap.call.kind = "buy" =>
              book'.sol[Roles.authority] >= b.sol[Roles.authority] - swap.amount
                - (IF swap.call.hook = "refund" THEN TOKEN_ACCOUNT_RENT ELSE 0)
         /\ swap.block.dex = "SolRfq" =>
              book'.tok[swap.block.to] =
                b.tok[swap.block.to] + route.plan[done + 1].quote.maker
<1> DEFINE c == swap.call
           from == swap.block.from
           to == swap.block.to
           auth == Roles.authority
           paid == Payee(swap.call)
           maker == route.plan[done + 1].quote.maker
<1>1. /\ from \in TokenAccounts /\ to \in TokenAccounts
      /\ auth \in SolAccounts /\ paid \in SolAccounts
      /\ swap.amount \in Nat /\ c.most \in Nat /\ c.most <= swap.amount
      /\ c.debit \in TokenAccounts /\ c.credit \in TokenAccounts
      /\ c.kind = "token" => c.debit = from /\ c.credit = to
      /\ \/ c.kind = "token" /\ c.hook \in {"none", "repaid"}
         \/ c.kind = "buy" /\ c.hook \in BuyHooks
         \/ c.kind = "sell" /\ c.hook \in SellHooks
      /\ c.kind # "sell" => paid = auth
      /\ swap.block.dex = "SolRfq" => c.kind = "token" /\ c.hook = "none"
  BY ForkShape, ForkCall, RfqCall DEF FromBlock, Roles, BuyHooks
<1>2. ASSUME swap.block.dex = "SolRfq"
      PROVE  from # to
  <2>1. swap.block.pool[1] # swap.block.pool[2]
    BY ForkShape, BlockShape
  <2>2. c.kind = "token" /\ c.into \in 1..2
    BY <1>2, RfqCall
  <2>3. MintOf[from] = swap.block.pool[c.into] /\ MintOf[to] = swap.block.pool[3 - c.into]
    BY <1>1, <2>2 DEF Accepts
  <2>4. c.into = 1 \/ c.into = 2
    BY <2>2
  <2> QED
    BY <2>1, <2>3, <2>4
<1>3. /\ b.tok[from] \in Nat /\ b.tok[to] \in Nat
      /\ \A a \in SolAccounts : b.sol[a] \in Nat
      /\ \A a \in TokenAccounts : b.tok[a] \in Nat
  BY <1>1 DEF Books
<1>4. Trades(b, c) /\ swap.call = c /\ swap.block.from = from /\ swap.block.to = to
      /\ c.roles.authority = auth /\ Roles.authority = auth /\ Payee(c) = paid
      /\ Signers(c) = {auth, paid} /\ route.plan[done + 1].quote.maker = maker
  BY DEF Roles, Signers
<1> HIDE DEF c, from, to, auth, paid, maker
<1>5. CASE c.kind = "token"
  <2>1. PICK spent \in 0..(c.most + 1), got \in 0..MaxOut,
             rent \in 0..(IF c.hook = "repaid" THEN TOKEN_ACCOUNT_RENT ELSE 0) :
          /\ spent <= b.tok[from] /\ rent <= b.sol[auth]
          /\ swap.block.dex = "SolRfq" => spent = c.most /\ got = maker
          /\ book' = Lamped(Moved(Moved(b, from, -spent), to, got), auth, -rent)
    BY <1>1, <1>4, <1>5 DEF Trades, TradesTokens
  <2>2. spent \in Nat /\ got \in Nat /\ rent \in Nat /\ (c.hook # "repaid" => rent = 0)
    BY <1>1, <2>1
  <2> DEFINE m == Moved(b, from, -spent)
             n == Moved(m, to, got)
  <2>3. /\ m \in Books /\ m.open = b.open /\ m.sol = b.sol /\ m.excess = b.excess
        /\ \A a \in TokenAccounts : m.tok[a] = b.tok[a] + At(a, from, -spent)
    BY <1>1, <1>3, <2>1, <2>2, MovedEffect
  <2> HIDE DEF m
  <2>4. m.tok[to] \in Nat
    BY <1>1, <2>3 DEF Books
  <2>5. /\ n \in Books /\ n.open = b.open /\ n.sol = b.sol /\ n.excess = b.excess
        /\ \A a \in TokenAccounts : n.tok[a] = m.tok[a] + At(a, to, got)
    BY <1>1, <2>2, <2>3, <2>4, MovedEffect
  <2> HIDE DEF n
  <2>6. b.sol[auth] \in Nat /\ n.sol[auth] + (-rent) >= 0
    BY <1>1, <1>3, <2>1, <2>2, <2>5
  <2>7. /\ book' \in Books /\ book'.open = b.open /\ book'.tok = n.tok
        /\ book'.excess = b.excess
        /\ \A a \in SolAccounts : book'.sol[a] = b.sol[a] + At(a, auth, -rent)
    BY <1>1, <2>1, <2>2, <2>5, <2>6, LampedEffect DEF m, n
  <2>8. ASSUME NEW a \in TokenAccounts \ {from, to}
        PROVE  book'.tok[a] = b.tok[a]
    BY <1>3, <2>3, <2>5, <2>7 DEF At
  <2>9. ASSUME NEW a \in SolAccounts, a # auth \/ c.hook # "repaid"
        PROVE  book'.sol[a] = b.sol[a]
    BY <1>3, <2>2, <2>7, <2>9 DEF At
  <2>10. ASSUME swap.block.dex = "SolRfq"
         PROVE  book'.tok[to] = b.tok[to] + maker
    <3>1. m.tok[to] = b.tok[to] /\ n.tok[to] = m.tok[to] + got /\ got = maker
      BY <1>1, <1>2, <1>3, <2>1, <2>3, <2>5, <2>10 DEF At
    <3> QED
      BY <2>7, <3>1
  <2> QED
    BY <1>1, <1>4, <1>5, <2>7, <2>8, <2>9, <2>10
<1>6. CASE c.kind = "buy"
  <2> DEFINE rent == IF c.hook = "refund" THEN TOKEN_ACCOUNT_RENT ELSE 0
             credit == c.credit
  <2>1. PICK cost \in 0..(c.most + rent), got \in 0..MaxOut :
          /\ cost <= b.sol[auth] /\ (got > 0 => credit \in b.open)
          /\ book' = Lamped(Moved(b, credit, got), auth, -cost)
    BY <1>4, <1>6 DEF Trades, BuysWithLamports
  <2>2. cost \in Nat /\ got \in Nat /\ rent \in Nat /\ cost <= swap.amount + rent
    BY <1>1, <2>1, AccountsApart
  <2> HIDE DEF rent, credit
  <2>3. credit \in TokenAccounts /\ b.tok[credit] \in Nat
    BY <1>1, <1>3 DEF credit
  <2> DEFINE n == Moved(b, credit, got)
  <2>4. /\ n \in Books /\ n.open = b.open /\ n.sol = b.sol /\ n.excess = b.excess
        /\ \A a \in TokenAccounts : n.tok[a] = b.tok[a] + At(a, credit, got)
    BY <2>2, <2>3, MovedEffect
  <2> HIDE DEF n
  <2>5. b.sol[auth] \in Nat /\ n.sol[auth] + (-cost) >= 0
    BY <1>1, <1>3, <2>1, <2>2, <2>4
  <2>6. /\ book' \in Books /\ book'.open = b.open /\ book'.tok = n.tok
        /\ book'.excess = b.excess
        /\ \A a \in SolAccounts : book'.sol[a] = b.sol[a] + At(a, auth, -cost)
    BY <1>1, <2>1, <2>2, <2>4, <2>5, LampedEffect DEF n
  <2>7. ASSUME NEW a \in TokenAccounts \ {credit}
        PROVE  book'.tok[a] = b.tok[a]
    BY <1>3, <2>4, <2>6 DEF At
  <2>8. book'.tok[credit] >= b.tok[credit]
        /\ (credit \in b.open \/ book'.tok[credit] = b.tok[credit])
    <3>1. book'.tok[credit] = b.tok[credit] + got
      BY <2>3, <2>4, <2>6 DEF At
    <3> QED
      BY <2>1, <2>2, <2>3, <3>1
  <2>9. ASSUME NEW a \in SolAccounts \ {auth}
        PROVE  book'.sol[a] = b.sol[a]
    BY <1>3, <2>6 DEF At
  <2>10. book'.sol[auth] >= b.sol[auth] - swap.amount - rent
    <3>1. book'.sol[auth] = b.sol[auth] - cost
      BY <1>1, <2>2, <2>5, <2>6 DEF At
    <3> QED
      BY <1>1, <2>2, <2>5, <3>1
  <2>11. swap.block.dex # "SolRfq"
    BY <1>1, <1>6
  <2> QED
    BY <1>1, <1>4, <1>6, <2>6, <2>7, <2>8, <2>9, <2>10, <2>11 DEF rent, credit
<1>7. CASE c.kind = "sell"
  <2> DEFINE debit == c.debit
  <2>1. PICK spent \in 0..(c.most + 1), got \in 0..MaxOut :
          /\ spent <= b.tok[debit]
          /\ spent > 0 => debit \in b.open /\ OwnerOf[debit] = auth
          /\ book' = Lamped(Moved(b, debit, -spent), paid, got)
    BY <1>4, <1>7 DEF Trades, SellsForLamports
  <2>2. spent \in Nat /\ got \in Nat
    BY <1>1, <2>1
  <2> HIDE DEF debit
  <2>3. debit \in TokenAccounts /\ b.tok[debit] \in Nat
    BY <1>1, <1>3 DEF debit
  <2> DEFINE n == Moved(b, debit, -spent)
  <2>4. /\ n \in Books /\ n.open = b.open /\ n.sol = b.sol /\ n.excess = b.excess
        /\ \A a \in TokenAccounts : n.tok[a] = b.tok[a] + At(a, debit, -spent)
    BY <2>1, <2>2, <2>3, MovedEffect
  <2> HIDE DEF n
  <2>5. /\ book' \in Books /\ book'.open = b.open /\ book'.tok = n.tok
        /\ book'.excess = b.excess
        /\ \A a \in SolAccounts : book'.sol[a] = b.sol[a] + At(a, paid, got)
    <3>1. b.sol[paid] \in Nat /\ n.sol[paid] + got >= 0
      BY <1>1, <1>3, <2>2, <2>4
    <3> QED
      BY <1>1, <2>1, <2>2, <2>4, <3>1, LampedEffect DEF n
  <2>6. ASSUME NEW a \in TokenAccounts \ {debit}
        PROVE  book'.tok[a] = b.tok[a]
    BY <1>3, <2>4, <2>5 DEF At
  <2>7. (debit \in b.open /\ OwnerOf[debit] = auth) \/ book'.tok[debit] = b.tok[debit]
    <3>1. CASE spent > 0
      BY <2>1, <3>1
    <3>2. CASE ~(spent > 0)
      <4>1. spent = 0
        BY <2>2, <3>2
      <4> QED
        BY <2>3, <2>4, <2>5, <4>1 DEF At
    <3> QED
      BY <3>1, <3>2
  <2>8. ASSUME NEW a \in SolAccounts
        PROVE  book'.sol[a] >= b.sol[a] /\ (a # paid => book'.sol[a] = b.sol[a])
    <3>1. b.sol[a] \in Nat
      BY <1>3
    <3> QED
      BY <2>2, <2>5, <3>1 DEF At
  <2>9. swap.block.dex # "SolRfq"
    BY <1>1, <1>7
  <2> QED
    BY <1>1, <1>4, <1>7, <2>5, <2>6, <2>7, <2>8, <2>9 DEF debit
<1> QED
  BY <1>1, <1>5, <1>6, <1>7

(* The DEX takes from no account of the vault but the fork's own two, and  *)
(* gives to another one only what a Moonit buy is told to put there.       *)
LEMMA DexCallEffect ==
  ASSUME AdapterTypeOK, CursorInv, OwnBlock, DexCall
  PROVE  /\ book' \in Books /\ book'.open = book.open
         /\ \A a \in TokenAccounts \ {swap.block.from, swap.block.to} :
              OwnerOf[a] = SaAuthority =>
                /\ book'.excess[a] = book.excess[a]
                /\ \/ book'.tok[a] = book.tok[a]
                   \/ /\ swap.block.dex = "MoonitBuy" /\ a \in book.open
                      /\ book'.tok[a] >= book.tok[a]
                      /\ book'.tok[swap.block.to] = book.tok[swap.block.to]
         /\ swap.call.kind = "sell" =>
              /\ book'.tok[swap.block.to] = book.tok[swap.block.to]
              /\ \A a \in SolAccounts : book'.sol[a] >= book.sol[a]
         /\ \A a \in SolAccounts \ Signers(swap.call) : book'.sol[a] = book.sol[a]
         /\ swap.call.kind = "token" /\ swap.call.hook # "repaid" =>
              book'.sol[Roles.authority] = book.sol[Roles.authority]
         /\ swap.call.kind = "buy" =>
              book'.sol[Roles.authority] >= book.sol[Roles.authority] - swap.amount
                - (IF swap.call.hook = "refund" THEN TOKEN_ACCOUNT_RENT ELSE 0)
         /\ Signers(swap.call) \subseteq {Payer, SaAuthority}
         /\ swap.block.dex = "SolRfq" =>
              book'.tok[swap.block.to] =
                book.tok[swap.block.to] + route.plan[done + 1].quote.maker
<1> DEFINE from == swap.block.from
           to == swap.block.to
           c == swap.call
<1>1. UnderWay /\ book \in Books /\ Accepts(swap.block.pool, swap.call)
  BY DEF DexCall, UnderWay, AdapterTypeOK
<1>2. /\ from \in TokenAccounts /\ to \in TokenAccounts
      /\ swap.block.others \subseteq TokenAccounts
      /\ swap.block.others \cap {from, to} = {}
  BY <1>1, ForkShape
<1>3. /\ Signers(c) \subseteq {Payer, SaAuthority}
      /\ OwnerSigns => SaAuthority \notin Signers(c)
      /\ Roles.authority \in Signers(c)
  BY AccountsApart DEF DexCall, Signs, Signers, Roles
<1>4. /\ c.debit \in TokenAccounts /\ c.credit \in TokenAccounts
      /\ c.kind \in {"token", "buy", "sell"}
      /\ c.kind = "buy" => c.credit = to \/ swap.block.dex = "MoonitBuy"
      /\ c.kind = "sell" => OwnOrSlot(swap.block, c.debit, from) /\ c.debit # to
  BY <1>1, ForkCall DEF FromBlock
(* What is listed of the vault is the fork's own. *)
<1>5. ASSUME NEW a \in Named(swap.block) \cup swap.block.others, a \in book.open,
             OwnerOf[a] \in Signers(c)
      PROVE  OwnerOf[a] # SaAuthority \/ a \in {from, to}
  <2>1. CASE OwnerSigns
    BY <1>3, <1>5, <2>1
  <2>2. CASE ~OwnerSigns
    <3>1. a \in Listed
      BY <1>5 DEF Listed
    <3> QED
      BY <2>2, <3>1 DEF DexCall, AllowListed
  <2> QED
    BY <2>1, <2>2
(* The trade, by whatever the DEX has taken before it. *)
<1>6. ASSUME NEW b \in Books, Trades(b, c), b.open = book.open, b.excess = book.excess,
             b.sol = book.sol, b.tok[to] = book.tok[to],
             \A a \in TokenAccounts : OwnerOf[a] = SaAuthority => b.tok[a] = book.tok[a]
      PROVE  /\ book' \in Books /\ book'.open = book.open
             /\ \A a \in TokenAccounts \ {from, to} : OwnerOf[a] = SaAuthority =>
                  /\ book'.excess[a] = book.excess[a]
                  /\ \/ book'.tok[a] = book.tok[a]
                     \/ /\ swap.block.dex = "MoonitBuy" /\ a \in book.open
                        /\ book'.tok[a] >= book.tok[a]
                        /\ book'.tok[to] = book.tok[to]
             /\ c.kind = "sell" =>
                  /\ book'.tok[to] = book.tok[to]
                  /\ \A a \in SolAccounts : book'.sol[a] >= book.sol[a]
             /\ \A a \in SolAccounts \ Signers(c) : book'.sol[a] = book.sol[a]
             /\ c.kind = "token" /\ c.hook # "repaid" =>
                  book'.sol[Roles.authority] = book.sol[Roles.authority]
             /\ c.kind = "buy" =>
                  book'.sol[Roles.authority] >= book.sol[Roles.authority] - swap.amount
                    - (IF c.hook = "refund" THEN TOKEN_ACCOUNT_RENT ELSE 0)
             /\ swap.block.dex = "SolRfq" =>
                  book'.tok[to] = book.tok[to] + route.plan[done + 1].quote.maker
  <2>1. /\ book' \in Books /\ book'.open = book.open /\ book'.excess = book.excess
        /\ c.kind = "token" =>
             \A a \in TokenAccounts \ {from, to} : book'.tok[a] = b.tok[a]
        /\ c.kind = "buy" =>
             /\ \A a \in TokenAccounts \ {c.credit} : book'.tok[a] = b.tok[a]
             /\ book'.tok[c.credit] >= b.tok[c.credit]
             /\ c.credit \in b.open \/ book'.tok[c.credit] = b.tok[c.credit]
        /\ c.kind = "sell" =>
             /\ \A a \in TokenAccounts \ {c.debit} : book'.tok[a] = b.tok[a]
             /\ \/ c.debit \in b.open /\ OwnerOf[c.debit] = Roles.authority
                \/ book'.tok[c.debit] = b.tok[c.debit]
             /\ \A a \in SolAccounts : book'.sol[a] >= book.sol[a]
        /\ \A a \in SolAccounts \ Signers(c) : book'.sol[a] = book.sol[a]
        /\ c.kind = "token" /\ c.hook # "repaid" =>
             book'.sol[Roles.authority] = book.sol[Roles.authority]
        /\ c.kind = "buy" =>
             book'.sol[Roles.authority] >= book.sol[Roles.authority] - swap.amount
               - (IF c.hook = "refund" THEN TOKEN_ACCOUNT_RENT ELSE 0)
        /\ swap.block.dex = "SolRfq" =>
             book'.tok[to] = book.tok[to] + route.plan[done + 1].quote.maker
    BY <1>1, <1>6, TradesEffect
  <2>2. ASSUME NEW a \in TokenAccounts \ {from, to}, OwnerOf[a] = SaAuthority
        PROVE  \/ book'.tok[a] = book.tok[a]
               \/ /\ swap.block.dex = "MoonitBuy" /\ a \in book.open
                  /\ book'.tok[a] >= book.tok[a]
                  /\ book'.tok[to] = book.tok[to]
    <3>1. b.tok[a] = book.tok[a]
      BY <1>6, <2>2
    <3>2. CASE c.kind = "token"
      BY <2>1, <3>1, <3>2
    <3>3. CASE c.kind = "buy"
      <4>1. CASE a = c.credit
        BY <1>2, <1>4, <1>6, <2>1, <3>1, <3>3, <4>1
      <4>2. CASE a # c.credit
        BY <2>1, <3>1, <3>3, <4>2
      <4> QED
        BY <4>1, <4>2
    <3>4. CASE c.kind = "sell"
      <4>1. CASE a = c.debit
        <5>1. a \in Named(swap.block)
          BY <1>4, <3>4, <4>1 DEF OwnOrSlot
        <5>2. ~(a \in book.open /\ OwnerOf[a] = Roles.authority)
          BY <1>3, <1>5, <2>2, <5>1
        <5> QED
          BY <1>6, <2>1, <3>1, <3>4, <4>1, <5>2
      <4>2. CASE a # c.debit
        BY <2>1, <3>1, <3>4, <4>2
      <4> QED
        BY <4>1, <4>2
    <3> QED
      BY <1>4, <3>2, <3>3, <3>4
  <2>3. c.kind = "sell" => book'.tok[to] = book.tok[to]
    BY <1>2, <1>4, <1>6, <2>1
  <2> HIDE DEF c, from, to
  <2> QED
    BY <2>1, <2>2, <2>3
<1>7. CASE Trades(book, swap.call)
  BY <1>1, <1>3, <1>6, <1>7
<1>8. CASE \E a \in TakesMore : Trades(Moved(book, a, -1), swap.call)
  <2>1. PICK a \in TakesMore : Trades(Moved(book, a, -1), swap.call)
    BY <1>8
  <2>2. /\ a \in swap.block.others /\ a \in book.open /\ book.tok[a] > 0
        /\ OwnerOf[a] \in Signers(c)
    BY <2>1 DEF TakesMore
  <2>3. a \in TokenAccounts /\ a # from /\ a # to /\ book.tok[a] \in Nat
    BY <1>1, <1>2, <2>2 DEF Books
  <2>4. OwnerOf[a] # SaAuthority
    BY <1>5, <2>2, <2>3
  <2> DEFINE b == Moved(book, a, -1)
  <2>5. /\ b \in Books /\ b.open = book.open /\ b.sol = book.sol /\ b.excess = book.excess
        /\ \A d \in TokenAccounts : b.tok[d] = book.tok[d] + At(d, a, -1)
    BY <1>1, <2>2, <2>3, MovedEffect
  <2>6. Trades(b, c)
    BY <2>1
  <2> HIDE DEF b
  <2>7. ASSUME NEW d \in TokenAccounts, d # a
        PROVE  b.tok[d] = book.tok[d]
    BY <1>1, <2>5, <2>7 DEF At, Books
  <2>8. /\ \A d \in TokenAccounts : OwnerOf[d] = SaAuthority => b.tok[d] = book.tok[d]
        /\ b.tok[to] = book.tok[to]
    BY <1>2, <2>3, <2>4, <2>7
  <2> QED
    BY <1>3, <1>6, <2>5, <2>6, <2>8
<1> QED
  BY <1>7, <1>8 DEF DexCall

-----------------------------------------------------------------------------
(* What the hook after the call does to the ledger.                        *)

(* The payer repays what the ledger b is short of.                         *)
LEMMA RepaysEffect ==
  ASSUME NEW b \in Books, Repays(b), swap.before \in Nat,
         ForVault => Roles.payer = Payer
  PROVE  /\ book' \in Books /\ book'.open = b.open
         /\ book'.tok = b.tok
         /\ \A a \in TokenAccounts : book'.excess[a] = b.excess[a]
         /\ ~ForVault => book' = b
         /\ ForVault =>
              /\ book'.sol[SaAuthority] >= swap.before
              /\ book'.sol[SaAuthority] >= b.sol[SaAuthority]
              /\ book'.sol[Payer] <= b.sol[Payer]
              /\ book'.sol[Payer] >= b.sol[Payer] - SOL_DIFF_LIMIT
<1>1. CASE ~ForVault
  BY <1>1 DEF Repays
<1>2. CASE ForVault
  <2> DEFINE x == Shortfall(b)
  <2>1. b.sol[SaAuthority] \in Nat /\ b.sol[Payer] \in Nat
    BY AccountsApart DEF Books
  <2>2. /\ x \in Nat
        /\ b.sol[SaAuthority] + x >= swap.before
    BY <2>1 DEF Shortfall, Less
  <2>3. /\ x <= SOL_DIFF_LIMIT /\ SolPayable(b, Payer, SaAuthority, x)
        /\ book' = PaySol(b, Payer, SaAuthority, x)
    BY <1>2 DEF Repays
  <2> HIDE DEF x
  <2>4. b.sol[Payer] >= x
    BY <2>1, <2>2, <2>3 DEF SolPayable
  <2>5. /\ book' \in Books /\ book'.tok = b.tok /\ book'.open = b.open
        /\ \A a \in SolAccounts :
             book'.sol[a] = b.sol[a] - At(a, Payer, x) + At(a, SaAuthority, x)
        /\ \A a \in TokenAccounts : book'.excess[a] = b.excess[a] + At(a, SaAuthority, x)
    BY <2>2, <2>3, <2>4, AccountsApart, PaySolEffect
  <2>6. /\ book'.sol[SaAuthority] = b.sol[SaAuthority] + x
        /\ book'.sol[Payer] = b.sol[Payer] - x
    BY <2>1, <2>2, <2>5, AccountsApart DEF At
  <2>7. ASSUME NEW a \in TokenAccounts
        PROVE  book'.excess[a] = b.excess[a]
    <3>1. b.excess[a] \in Nat /\ a # SaAuthority
      BY AccountsApart, LedgerAssumption DEF Books
    <3> QED
      BY <2>5, <3>1 DEF At
  <2> QED
    BY <1>2, <2>1, <2>2, <2>3, <2>5, <2>6, <2>7, AccountsApart
<1> QED
  BY <1>1, <1>2

(* The lamports of a sale go into the account that the adapter names.      *)
LEMMA WrapsEffect ==
  ASSUME AdapterTypeOK, CursorInv, OwnBlock, UnderWay, swap.call.hook \in SellHooks,
         NEW x \in Nat, Wraps(book, x)
  PROVE  LET n == Wrapped(book, x)
             d == Roles.dest
         IN  /\ d \in TokenAccounts /\ MintOf[d] = Wsol
             /\ n \in Books /\ n.open = book.open
             /\ \A a \in TokenAccounts \ {d} :
                  n.tok[a] = book.tok[a] /\ n.excess[a] = book.excess[a]
             /\ n.tok[d] = book.tok[d] + book.excess[d] + x
             /\ book.sol[Roles.authority] >= x
             /\ \A a \in SolAccounts :
                  n.sol[a] = book.sol[a] - At(a, Roles.authority, x)
<1> DEFINE auth == Roles.authority
           d == Roles.dest
<1>1. book \in Books /\ auth \in SolAccounts /\ d \in TokenAccounts
  BY ForkCall DEF AdapterTypeOK, FromBlock, Roles
<1>2. book.sol[auth] \in Nat /\ book.sol[auth] >= x /\ MintOf[d] = Wsol
  BY <1>1 DEF Wraps, SolPayable, Books
<1>3. Wrapped(book, x) = Synced(PaySol(book, auth, d, x), d)
  BY DEF Wrapped
<1> HIDE DEF auth, d
<1> QED
  BY <1>1, <1>2, <1>3, WrappedEffect DEF auth, d

(* Whose lamports change, and by how much: LamportsOfVault says what of    *)
(* the vault's is left at every step.                                      *)
LEMMA AfterInvokeEffect ==
  ASSUME AdapterTypeOK, CursorInv, OwnBlock, ForkKept, AfterInvoke
  PROVE  /\ book' \in Books /\ book'.open = book.open
         /\ \A a \in TokenAccounts \ {swap.block.from, swap.block.to} :
              \/ book'.tok[a] = book.tok[a] /\ book'.excess[a] = book.excess[a]
              \/ /\ swap.block.dex = "MoonitSell" /\ swap.call.kind = "sell"
                 /\ book'.tok[a] + book'.excess[a] >= book.tok[a] + book.excess[a]
                 /\ book'.tok[swap.block.to] = book.tok[swap.block.to]
         /\ swap.call.hook \in {"none", "rent"} => book' = book
         /\ ~ForVault => book'.sol[SaAuthority] = book.sol[SaAuthority]
         /\ ForVault => LamportsOfVault'
<1> DEFINE from == swap.block.from
           to == swap.block.to
           auth == Roles.authority
           dest == Roles.dest
           hook == swap.call.hook
           sa == swap.was.sol[SaAuthority]
           py == swap.was.sol[Payer]
           freed == Freed
           amount == swap.amount
           unsigned == Payer \notin Signers(swap.call)
<1>1. UnderWay /\ book \in Books /\ phase = "traded"
  BY DEF AfterInvoke, UnderWay, AdapterTypeOK
<1>2. /\ from \in TokenAccounts /\ to \in TokenAccounts
      /\ amount \in Nat /\ swap.before \in Nat /\ swap.was \in Books
  BY <1>1, ForkShape
<1>3. /\ auth \in SolAccounts
      /\ hook \in BuyHooks \cup SellHooks \cup {"none", "repaid"}
      /\ hook \in {"refund", "promised", "repaid"} => Roles.payer = Payer
      /\ hook \in BuyHooks => Roles.source \in TokenAccounts
      /\ hook \in SellHooks =>
           /\ dest \in TokenAccounts /\ swap.call.kind = "sell"
           /\ dest = to \/ (swap.block.dex = "MoonitSell" /\ hook = "received")
      /\ Buys <=> hook \in BuyHooks
  BY <1>1, ForkCall DEF Roles, Buys, BuyHooks, SellHooks, FromBlock
<1>4. ForVault <=> auth = SaAuthority
  BY DEF ForVault
<1>5. /\ \A a \in SolAccounts : book.sol[a] \in Nat
      /\ book.sol[SaAuthority] \in Nat /\ book.sol[Payer] \in Nat
      /\ sa \in Nat /\ py \in Nat
      /\ hook \in BuyHooks => freed \in Int
      /\ book.tok[to] \in Nat /\ book.excess[to] \in Nat /\ swap.was.tok[to] \in Nat
  BY <1>1, <1>2, <1>3, AccountsApart DEF Books, Freed
<1>6. ASSUME ForVault
      PROVE  /\ hook \in {"refund", "promised", "repaid"} => swap.before = sa
             /\ hook \in BuyHooks => book.sol[SaAuthority] - sa >= freed - amount
             /\ hook \in SellHooks \cup {"none"} => book.sol[SaAuthority] - sa >= 0
             /\ hook = "promisedOnly" /\ MintOf[to] = Wsol =>
                  book.tok[to] - swap.was.tok[to] >= 0
             /\ unsigned =>
                  book.sol[Payer] - py = IF hook = "rent" THEN TOKEN_ACCOUNT_RENT ELSE 0
  <2>1. LamportsOfVault
    BY <1>1, <1>6 DEF ForkKept
  <2> QED
    BY <1>1, <1>3, <2>1 DEF LamportsOfVault, AuthorityGain, PayerGain, Got, BuyHooks, SellHooks
(* What has to be shown of the lamports. *)
<1> DEFINE Settled ==
      /\ hook = "rent" => book'.sol[SaAuthority] - sa >= freed - amount
      /\ hook = "refund" /\ freed >= amount =>
           /\ book'.sol[SaAuthority] - sa >= 0
           /\ swap.before > 0 => book'.sol[SaAuthority] - sa = 0
      /\ hook = "promisedOnly" =>
           (book'.sol[SaAuthority] - sa) + (book'.tok[to] - swap.was.tok[to]) >= 0
      /\ hook \notin BuyHooks \cup {"promisedOnly"} => book'.sol[SaAuthority] - sa >= 0
      /\ unsigned => book'.sol[Payer] - py \in (-SOL_DIFF_LIMIT)..SOL_DIFF_LIMIT
<1>7. phase' = "settled" /\ swap' = swap
  BY DEF AfterInvoke
<1>8. ASSUME ForVault, Settled
      PROVE  LamportsOfVault'
  <2>1. Freed' = freed /\ (Buys' <=> Buys)
    BY <1>7 DEF Freed, Roles, Buys
  <2>2. /\ AuthorityGain' = book'.sol[SaAuthority] - sa
        /\ PayerGain' = book'.sol[Payer] - py
        /\ Got' = book'.tok[to] - swap.was.tok[to]
    BY <1>7 DEF AuthorityGain, PayerGain, Got
  <2> QED
    BY <1>3, <1>6, <1>7, <1>8, <2>1, <2>2 DEF LamportsOfVault, BuyHooks
<1> HIDE DEF Settled, sa, py, freed, unsigned
<1>9. CASE hook = "refund"
  <2>1. Refunds(book)
    BY <1>9 DEF AfterInvoke
  <2> DEFINE diff == Less(book.sol[SaAuthority], swap.before)
  <2>2. /\ diff \in Nat
        /\ book.sol[SaAuthority] > swap.before => diff = book.sol[SaAuthority] - swap.before
        /\ book.sol[SaAuthority] <= swap.before => diff = 0
    BY <1>2, <1>5 DEF Less
  <2>3. CASE ~ForVault \/ swap.before = 0 \/ diff = 0
    <3>1. book' = book
      BY <2>1, <2>3 DEF Refunds
    <3>2. ASSUME ForVault
          PROVE  Settled
      <4>1. /\ swap.before = sa /\ book.sol[SaAuthority] - sa >= freed - amount
            /\ unsigned => book.sol[Payer] - py = 0
        BY <1>6, <1>9, <3>2 DEF BuyHooks
      <4>2. swap.before = 0 \/ diff = 0
        BY <2>3, <3>2
      <4>3. freed \in Int
        BY <1>5, <1>9 DEF BuyHooks
      <4> HIDE DEF diff, amount
      <4> QED
        <5>1. unsigned => book'.sol[Payer] - py \in (-SOL_DIFF_LIMIT)..SOL_DIFF_LIMIT
          BY <1>5, <3>1, <4>1, AccountsApart
        <5>2. ASSUME freed >= amount
              PROVE  book'.sol[SaAuthority] - sa >= 0
          BY <1>2, <1>5, <3>1, <4>1, <4>3, <5>2
        <5>3. ASSUME freed >= amount, swap.before > 0
              PROVE  book'.sol[SaAuthority] - sa = 0
          BY <1>5, <2>2, <3>1, <4>1, <4>2, <5>2, <5>3
        <5> QED
          BY <1>9, <5>1, <5>2, <5>3 DEF Settled, BuyHooks
    <3> QED
      BY <1>1, <1>8, <1>9, <3>1, <3>2
  <2>4. CASE ForVault /\ swap.before # 0 /\ diff # 0
    <3>1. /\ book.sol[SaAuthority] - diff >= MIN_SOL_ACCOUNT_RENT /\ diff <= SOL_DIFF_LIMIT
          /\ book' = PaySol(book, SaAuthority, Payer, diff)
      BY <1>3, <1>9, <2>1, <2>4 DEF Refunds
    <3> HIDE DEF diff
    <3>2. /\ book' \in Books /\ book'.tok = book.tok /\ book'.open = book.open
          /\ \A a \in SolAccounts :
               book'.sol[a] = book.sol[a] - At(a, SaAuthority, diff) + At(a, Payer, diff)
          /\ \A a \in TokenAccounts : book'.excess[a] = book.excess[a] + At(a, Payer, diff)
      <4>1. book.sol[SaAuthority] >= diff
        BY <1>5, <2>2, <3>1, AccountsApart
      <4> QED
        BY <1>1, <2>2, <3>1, <4>1, AccountsApart, PaySolEffect
    <3>3. ASSUME NEW a \in TokenAccounts
          PROVE  book'.excess[a] = book.excess[a]
      <4>1. book.excess[a] \in Nat /\ a # Payer
        BY <1>1, AccountsApart, LedgerAssumption DEF Books
      <4> QED
        BY <3>2, <4>1 DEF At
    <3>4. /\ book'.sol[SaAuthority] = book.sol[SaAuthority] - diff
          /\ book'.sol[Payer] = book.sol[Payer] + diff
      BY <1>5, <2>2, <3>2, AccountsApart DEF At
    <3>5. Settled
      <4>1. swap.before = sa /\ (unsigned => book.sol[Payer] - py = 0)
        BY <1>6, <1>9, <2>4
      <4>2. book.sol[SaAuthority] - diff = sa
        BY <1>2, <1>5, <2>2, <2>4, <4>1
      <4>3. /\ book'.sol[SaAuthority] - sa = 0
            /\ unsigned => book'.sol[Payer] - py = diff
        BY <1>5, <2>2, <3>4, <4>1, <4>2
      <4> QED
        BY <1>9, <2>2, <3>1, <4>3, AccountsApart DEF Settled, BuyHooks
    <3> QED
      BY <1>8, <1>9, <2>4, <3>2, <3>3, <3>5
  <2> QED
    BY <2>3, <2>4
<1>10. CASE hook = "promised"
  <2>1. PICK x \in Promises : Wraps(book, x) /\ Repays(Wrapped(book, x))
    BY <1>10 DEF AfterInvoke
  <2>2. x \in Nat /\ dest = to
    BY <1>3, <1>10 DEF Promises, SellHooks
  <2> DEFINE n == Wrapped(book, x)
  <2>3. /\ n \in Books /\ n.open = book.open
        /\ \A a \in TokenAccounts \ {to} :
             n.tok[a] = book.tok[a] /\ n.excess[a] = book.excess[a]
        /\ \A a \in SolAccounts : n.sol[a] = book.sol[a] - At(a, auth, x)
    BY <1>1, <1>10, <2>1, <2>2, WrapsEffect DEF SellHooks
  <2>4. Repays(n)
    BY <2>1
  <2> HIDE DEF n
  <2>5. /\ book' \in Books /\ book'.open = n.open /\ book'.tok = n.tok
        /\ \A a \in TokenAccounts : book'.excess[a] = n.excess[a]
        /\ ~ForVault => book' = n
        /\ ForVault =>
              /\ book'.sol[SaAuthority] >= swap.before
              /\ book'.sol[Payer] <= n.sol[Payer]
              /\ book'.sol[Payer] >= n.sol[Payer] - SOL_DIFF_LIMIT
    BY <1>2, <1>3, <1>10, <2>3, <2>4, RepaysEffect
  <2>6. ASSUME ~ForVault
        PROVE  book'.sol[SaAuthority] = book.sol[SaAuthority]
    BY <1>4, <1>5, <2>3, <2>5, <2>6, AccountsApart DEF At
  <2>7. ASSUME ForVault
        PROVE  Settled
    <3>1. n.sol[Payer] = book.sol[Payer]
      BY <1>4, <1>5, <2>3, <2>7, AccountsApart DEF At
    <3>2. /\ book'.sol[SaAuthority] >= sa /\ book'.sol[SaAuthority] \in Nat
          /\ unsigned => book'.sol[Payer] <= py /\ book'.sol[Payer] >= py - SOL_DIFF_LIMIT
          /\ book'.sol[Payer] \in Nat
      BY <1>5, <1>6, <1>10, <2>5, <2>7, <3>1, AccountsApart DEF Books
    <3> QED
      BY <1>5, <1>10, <3>2, AccountsApart DEF Settled
  <2> QED
    BY <1>8, <1>10, <2>3, <2>5, <2>6, <2>7
<1>11. CASE hook = "promisedOnly" \/ hook = "received"
  <2>1. PICK x \in Nat :
          /\ Wraps(book, x) /\ book' = Wrapped(book, x)
          /\ hook = "received" => x = book.sol[auth] - swap.was.sol[auth]
    <3>1. CASE hook = "promisedOnly"
      <4>1. PICK x \in Promises : Wraps(book, x) /\ book' = Wrapped(book, x)
        BY <3>1 DEF AfterInvoke
      <4> QED
        BY <3>1, <4>1 DEF Promises
    <3>2. CASE hook = "received"
      <4> DEFINE x == book.sol[auth] - swap.was.sol[auth]
      <4>1. x >= 0 /\ Wraps(book, x) /\ book' = Wrapped(book, x)
        BY <3>2 DEF AfterInvoke
      <4>2. x \in Nat
        BY <1>2, <1>3, <1>5, <4>1 DEF Books
      <4> QED
        BY <4>1, <4>2
    <3> QED
      BY <1>11, <3>1, <3>2
  <2>2. /\ book' \in Books /\ book'.open = book.open
        /\ dest \in TokenAccounts /\ MintOf[dest] = Wsol
        /\ \A a \in TokenAccounts \ {dest} :
             book'.tok[a] = book.tok[a] /\ book'.excess[a] = book.excess[a]
        /\ book'.tok[dest] = book.tok[dest] + book.excess[dest] + x
        /\ book.sol[auth] >= x
        /\ \A a \in SolAccounts : book'.sol[a] = book.sol[a] - At(a, auth, x)
    BY <1>1, <1>11, <2>1, WrapsEffect DEF SellHooks
  <2>3. ASSUME ~ForVault
        PROVE  book'.sol[SaAuthority] = book.sol[SaAuthority]
    BY <1>4, <1>5, <2>2, <2>3, AccountsApart DEF At
  <2>4. ASSUME NEW a \in TokenAccounts \ {from, to}
        PROVE  \/ book'.tok[a] = book.tok[a] /\ book'.excess[a] = book.excess[a]
               \/ /\ swap.block.dex = "MoonitSell" /\ swap.call.kind = "sell"
                  /\ book'.tok[a] + book'.excess[a] >= book.tok[a] + book.excess[a]
                  /\ book'.tok[to] = book.tok[to]
    <3>1. CASE a # dest
      BY <2>2, <3>1
    <3>2. CASE a = dest
      <4>1. /\ swap.block.dex = "MoonitSell" /\ swap.call.kind = "sell"
            /\ book'.tok[to] = book.tok[to]
        BY <1>2, <1>3, <1>11, <2>2, <2>4, <3>2 DEF SellHooks
      <4>2. book'.excess[a] \in Nat /\ book.tok[a] \in Nat /\ book.excess[a] \in Nat
        BY <1>1, <2>2 DEF Books
      <4>3. book'.tok[a] + book'.excess[a] >= book.tok[a] + book.excess[a]
        BY <2>2, <3>2, <4>2
      <4> QED
        BY <4>1, <4>3
    <3> QED
      BY <3>1, <3>2
  <2>5. ASSUME ForVault
        PROVE  Settled
    <3>1. /\ book'.sol[Payer] = book.sol[Payer]
          /\ book'.sol[SaAuthority] = book.sol[SaAuthority] - x
      BY <1>4, <1>5, <2>1, <2>2, <2>5, AccountsApart DEF At
    <3>2. /\ book.sol[SaAuthority] - sa >= 0
          /\ unsigned => book.sol[Payer] - py = 0
      BY <1>6, <1>11, <2>5 DEF SellHooks
    <3>3. unsigned => book'.sol[Payer] - py \in (-SOL_DIFF_LIMIT)..SOL_DIFF_LIMIT
      BY <1>5, <3>1, <3>2, AccountsApart
    <3>4. ASSUME hook = "promisedOnly"
          PROVE  (book'.sol[SaAuthority] - sa) + (book'.tok[to] - swap.was.tok[to]) >= 0
      <4>1. dest = to
        BY <1>3, <3>4 DEF SellHooks
      <4>2. book.tok[to] - swap.was.tok[to] >= 0
        BY <1>6, <2>2, <2>5, <3>4, <4>1
      <4>3. book'.tok[to] = book.tok[to] + book.excess[to] + x
        BY <2>2, <4>1
      <4> QED
        BY <1>5, <2>1, <3>1, <3>2, <4>2, <4>3
    <3>5. ASSUME hook = "received"
          PROVE  book'.sol[SaAuthority] - sa >= 0
      <4>1. x = book.sol[SaAuthority] - sa
        BY <1>4, <2>1, <2>5, <3>5 DEF sa
      <4> QED
        BY <1>5, <3>1, <4>1
    <3> QED
      BY <1>11, <3>3, <3>4, <3>5 DEF Settled
  <2> QED
    BY <1>8, <1>11, <2>2, <2>3, <2>4, <2>5
<1>12. CASE hook = "repaid"
  <2>1. Repays(book)
    BY <1>12 DEF AfterInvoke
  <2>2. /\ book' \in Books /\ book'.open = book.open /\ book'.tok = book.tok
        /\ \A a \in TokenAccounts : book'.excess[a] = book.excess[a]
        /\ ~ForVault => book' = book
        /\ ForVault =>
              /\ book'.sol[SaAuthority] >= swap.before
              /\ book'.sol[Payer] <= book.sol[Payer]
              /\ book'.sol[Payer] >= book.sol[Payer] - SOL_DIFF_LIMIT
    BY <1>1, <1>2, <1>3, <1>12, <2>1, RepaysEffect
  <2>3. ASSUME ForVault
        PROVE  Settled
    <3>1. /\ book'.sol[SaAuthority] >= sa /\ book'.sol[SaAuthority] \in Nat
          /\ unsigned => book'.sol[Payer] <= py /\ book'.sol[Payer] >= py - SOL_DIFF_LIMIT
          /\ book'.sol[Payer] \in Nat
      BY <1>5, <1>6, <1>12, <2>2, <2>3, AccountsApart DEF Books
    <3> QED
      BY <1>5, <1>12, <3>1, AccountsApart DEF Settled
  <2> QED
    BY <1>8, <1>12, <2>2, <2>3
<1>13. CASE hook = "none" \/ hook = "rent"
  <2>1. book' = book
    BY <1>13 DEF AfterInvoke
  <2>2. ASSUME ForVault
        PROVE  Settled
    <3>1. /\ hook = "rent" => book.sol[SaAuthority] - sa >= freed - amount
          /\ hook = "none" => book.sol[SaAuthority] - sa >= 0
          /\ unsigned =>
               book.sol[Payer] - py = IF hook = "rent" THEN TOKEN_ACCOUNT_RENT ELSE 0
      BY <1>6, <2>2 DEF BuyHooks, SellHooks
    <3>2. unsigned => book'.sol[Payer] - py \in (-SOL_DIFF_LIMIT)..SOL_DIFF_LIMIT
      BY <1>5, <2>1, <3>1, AccountsApart
    <3> QED
      BY <1>13, <2>1, <3>1, <3>2 DEF Settled, BuyHooks
  <2> QED
    BY <1>1, <1>8, <2>1, <2>2
<1> QED
  BY <1>3, <1>9, <1>10, <1>11, <1>12, <1>13 DEF BuyHooks, SellHooks

-----------------------------------------------------------------------------
(* The invariant.                                                          *)

(* A step of the fork under way changes neither the route nor the cursor.  *)
LEMMA ForkGoesOn ==
  ASSUME AdapterInv, UnderWay,
         phase' \in {"checked", "invoked", "traded", "settled"},
         UNCHANGED <<start, route, offset, done, hop, hopAccounts, left, gained, commits>>,
         NEW n \in Nat, swap' = [swap EXCEPT !.before = n],
         book' \in Books, WsolSa \in book'.open, ForkKept'
  PROVE  AdapterInv'
<1>1. /\ AdapterTypeOK /\ CursorInv /\ HopInv /\ OwnBlock /\ ForkBacked
      /\ WsolSa \in start.open
  BY DEF AdapterInv
<1>2. swap \in [block : Laid, call : OwnCalls, amount : Nat, before : Nat, was : Books]
  BY <1>1 DEF AdapterTypeOK
<1>3. /\ swap'.block = swap.block /\ swap'.call = swap.call /\ swap'.amount = swap.amount
      /\ swap'.was = swap.was
  BY <1>2
<1>4. UnderWay' /\ phase' # "idle" /\ phase' # "fork" /\ phase # "idle" /\ phase # "fork"
  BY DEF UnderWay
<1>5. OwnCalls' = OwnCalls
  BY <1>3 DEF OwnCalls
<1>6. swap' \in [block : Laid, call : OwnCalls', amount : Nat, before : Nat, was : Books]
  BY <1>2, <1>5
<1>7. AdapterTypeOK'
  BY <1>1, <1>4, <1>6 DEF AdapterTypeOK
<1>8. CursorInv'
  BY <1>1, <1>3, <1>4 DEF CursorInv, UnderWay
<1>9. HopInv'
  BY <1>1, <1>4 DEF HopInv
<1>10. OwnBlock'
  BY <1>1, <1>3, <1>4 DEF OwnBlock, UnderWay
<1>11. Backed'
  BY <1>4 DEF Backed
<1>12. Accountable' <=> Accountable
  BY DEF Accountable
<1>13. Follows(swap.block)' <=> Follows(swap.block)
  BY <1>3 DEF Follows
<1>14. ForkBacked'
  BY <1>1, <1>3, <1>4, <1>12, <1>13 DEF ForkBacked, UnderWay
<1> QED
  BY <1>1, <1>7, <1>8, <1>9, <1>10, <1>11, <1>14 DEF AdapterInv

(* The hook before the call, ...                                           *)
LEMMA BeforeInvokeStep ==
  ASSUME AdapterInv, BeforeInvoke
  PROVE  AdapterInv'
<1> DEFINE from == swap.block.from
           to == swap.block.to
           sa == swap.was.sol[SaAuthority]
           py == swap.was.sol[Payer]
           rent == IF swap.call.hook = "refund" THEN TOKEN_ACCOUNT_RENT ELSE 0
           back == IF swap.call.hook = "rent" THEN TOKEN_ACCOUNT_RENT ELSE 0
<1>1. /\ AdapterTypeOK /\ CursorInv /\ OwnBlock /\ ForkKept
      /\ WsolSa \in book.open
  BY DEF AdapterInv
<1>2. /\ UnderWay /\ phase = "checked" /\ phase' = "invoked"
      /\ swap' = [swap EXCEPT !.before = Lamports]
  BY DEF BeforeInvoke, UnderWay
<1>3. from \in TokenAccounts /\ to \in TokenAccounts /\ swap.was \in Books
  BY <1>1, <1>2, ForkShape
<1>4. swap \in [block : Laid, call : OwnCalls, amount : Nat, before : Nat, was : Books]
  BY <1>1, <1>2 DEF AdapterTypeOK
<1>5. /\ swap'.block = swap.block /\ swap'.call = swap.call /\ swap'.amount = swap.amount
      /\ swap'.was = swap.was /\ swap'.before = Lamports
  BY <1>2, <1>4
<1>6. book = swap.was /\ {from, to} \subseteq swap.was.open
  BY <1>1, <1>2 DEF ForkKept
<1>7. /\ book' \in Books /\ Lamports \in Nat /\ WsolSa \in book'.open
      /\ ~Buys => book' = book
      /\ Buys =>
           /\ Roles.source \in TokenAccounts /\ Roles.source \notin book'.open
           /\ book'.tok[Roles.source] <= book.tok[Roles.source]
           /\ \A a \in TokenAccounts \ {Roles.source} :
                /\ book'.tok[a] = book.tok[a] /\ book'.excess[a] = book.excess[a]
                /\ a \in book'.open <=> a \in book.open
      /\ ~ForVault => book'.sol[SaAuthority] = book.sol[SaAuthority]
      /\ ForVault /\ Buys =>
           /\ book'.sol[SaAuthority] >= (book.sol[SaAuthority] + Freed) + rent
           /\ book'.sol[Payer] = book.sol[Payer] + back
  BY <1>1, <1>6, BeforeInvokeEffect DEF Freed
<1>8. /\ Buys' <=> Buys
      /\ Roles' = Roles /\ Freed' = Freed /\ (ForVault' <=> ForVault)
      /\ Signers(swap.call)' = Signers(swap.call)
  BY <1>5 DEF Buys, Roles, Freed, ForVault, Signers, Payee
<1>9. Buys => Roles.source = from \/ swap.block.dex = "MoonitBuy"
  BY <1>1, <1>2, ForkCall DEF FromBlock, Roles, Buys, BuyHooks
<1>10. /\ sa \in Nat /\ py \in Nat
       /\ book'.sol[SaAuthority] \in Nat /\ book'.sol[Payer] \in Nat
       /\ swap.was.tok[to] \in Nat /\ book'.tok[to] \in Nat
       /\ Buys => Freed \in Int
  BY <1>3, <1>7, AccountsApart DEF Books, Freed
<1>11. OthersKept'
  <2>1. ASSUME NEW a \in TokenAccounts \ {from, to}
        PROVE  Spared(a)'
    <3>1. CASE Buys /\ a = Roles.source
      BY <1>5, <1>7, <1>8, <1>9, <2>1, <3>1 DEF Spared, Unwrapped
    <3>2. CASE ~(Buys /\ a = Roles.source)
      BY <1>5, <1>6, <1>7, <2>1, <3>2 DEF Spared, Same
    <3> QED
      BY <3>1, <3>2
  <2> QED
    BY <1>5, <2>1 DEF OthersKept
<1>12. Got' <= 0
  <2>1. book'.tok[to] <= swap.was.tok[to]
    <3>1. CASE Buys /\ to = Roles.source
      BY <1>6, <1>7, <3>1
    <3>2. CASE ~(Buys /\ to = Roles.source)
      <4>1. book'.tok[to] = swap.was.tok[to]
        BY <1>3, <1>6, <1>7, <3>2
      <4> QED
        BY <1>10, <4>1
    <3> QED
      BY <3>1, <3>2
  <2>2. Got' = book'.tok[to] - swap.was.tok[to]
    BY <1>5 DEF Got
  <2> QED
    BY <1>10, <2>1, <2>2
<1>13. /\ AuthorityGain' = book'.sol[SaAuthority] - sa
       /\ PayerGain' = book'.sol[Payer] - py
  BY <1>5 DEF AuthorityGain, PayerGain
<1> HIDE DEF sa, py, rent, back
<1>14. ASSUME ForVault
       PROVE  LamportsOfVault'
  <2>1. swap.call.hook \in {"refund", "promised", "repaid"} => Lamports = sa
    BY <1>6, <1>14 DEF Lamports, sa
  <2>2. CASE Buys
    <3>1. /\ book'.sol[SaAuthority] >= (sa + Freed) + rent
          /\ book'.sol[Payer] = py + back
      BY <1>6, <1>7, <1>14, <2>2 DEF sa, py
    <3>2. rent \in Nat /\ back \in Nat
      BY AccountsApart DEF rent, back
    <3>3. AuthorityGain' >= Freed + rent /\ PayerGain' = back
      BY <1>10, <1>13, <2>2, <3>1, <3>2
    <3> QED
      BY <1>2, <1>5, <1>8, <2>1, <2>2, <3>3 DEF LamportsOfVault, rent, back, sa
  <2>3. CASE ~Buys
    <3>1. AuthorityGain' = 0 /\ PayerGain' = 0 /\ swap.call.hook # "rent"
      BY <1>6, <1>7, <1>10, <1>13, <2>3 DEF Buys, sa, py
    <3> QED
      BY <1>2, <1>5, <1>8, <2>1, <2>3, <3>1 DEF LamportsOfVault, sa
  <2> QED
    BY <2>2, <2>3
<1>15. ASSUME ~ForVault
       PROVE  AuthorityGain' = 0
  BY <1>6, <1>7, <1>10, <1>13, <1>15 DEF sa
<1>16. ForkKept'
  BY <1>2, <1>5, <1>6, <1>7, <1>8, <1>11, <1>12, <1>14, <1>15 DEF ForkKept
<1> QED
  BY <1>2, <1>7, <1>16, ForkGoesOn DEF BeforeInvoke

(* ... the call, ...                                                       *)
LEMMA DexCallStep ==
  ASSUME AdapterInv, DexCall
  PROVE  AdapterInv'
<1> DEFINE from == swap.block.from
           to == swap.block.to
           sa == swap.was.sol[SaAuthority]
           rent == IF swap.call.hook = "refund" THEN TOKEN_ACCOUNT_RENT ELSE 0
<1>1. /\ AdapterTypeOK /\ CursorInv /\ OwnBlock /\ ForkKept
      /\ WsolSa \in book.open
  BY DEF AdapterInv
<1>2. UnderWay /\ phase = "invoked" /\ phase' = "traded" /\ swap' = swap
  BY DEF DexCall, UnderWay
<1>3. /\ from \in TokenAccounts /\ to \in TokenAccounts
      /\ swap.was \in Books /\ swap.amount \in Nat /\ swap.before \in Nat
  BY <1>1, <1>2, ForkShape
<1>4. /\ book' \in Books /\ book'.open = book.open
      /\ \A a \in TokenAccounts \ {from, to} : OwnerOf[a] = SaAuthority =>
           /\ book'.excess[a] = book.excess[a]
           /\ \/ book'.tok[a] = book.tok[a]
              \/ /\ swap.block.dex = "MoonitBuy" /\ a \in book.open
                 /\ book'.tok[a] >= book.tok[a]
                 /\ book'.tok[to] = book.tok[to]
      /\ swap.call.kind = "sell" =>
           /\ book'.tok[to] = book.tok[to]
           /\ \A a \in SolAccounts : book'.sol[a] >= book.sol[a]
      /\ \A a \in SolAccounts \ Signers(swap.call) : book'.sol[a] = book.sol[a]
      /\ swap.call.kind = "token" /\ swap.call.hook # "repaid" =>
           book'.sol[Roles.authority] = book.sol[Roles.authority]
      /\ swap.call.kind = "buy" =>
           book'.sol[Roles.authority] >= book.sol[Roles.authority] - swap.amount - rent
      /\ Signers(swap.call) \subseteq {Payer, SaAuthority}
      /\ swap.block.dex = "SolRfq" =>
           book'.tok[to] = book.tok[to] + route.plan[done + 1].quote.maker
  BY <1>1, DexCallEffect
<1>5. /\ \/ swap.call.kind = "token" /\ swap.call.hook \in {"none", "repaid"}
         \/ swap.call.kind = "buy"
         \/ swap.call.kind = "sell"
      /\ swap.call.kind = "buy" <=> Buys
      /\ swap.call.hook = "promisedOnly" => swap.call.kind = "sell"
      /\ swap.call.kind # "sell" => Signers(swap.call) = {Roles.authority}
      /\ Buys => Roles.source \in TokenAccounts
  BY <1>1, <1>2, ForkCall DEF FromBlock, Buys, BuyHooks, SellHooks, Signers, Roles
<1>6. /\ {from, to} \subseteq swap.was.open /\ Got <= 0 /\ OthersKept
      /\ ~Buys => book = swap.was
      /\ ForVault => LamportsOfVault
      /\ ~ForVault =>
           /\ AuthorityGain >= 0
           /\ SaAuthority \notin Signers(swap.call) => AuthorityGain = 0
  BY <1>1, <1>2 DEF ForkKept
<1>7. /\ book.sol[SaAuthority] \in Nat /\ book.sol[Payer] \in Nat
      /\ book'.sol[SaAuthority] \in Nat /\ sa \in Nat
      /\ \A a \in TokenAccounts :
           /\ book.tok[a] \in Nat /\ book.excess[a] \in Nat /\ swap.was.tok[a] \in Nat
           /\ book'.tok[a] \in Nat
      /\ rent \in Nat /\ (Buys => Freed \in Int)
  BY <1>1, <1>3, <1>4, <1>5, AccountsApart DEF Books, AdapterTypeOK, Freed
<1>8. /\ Buys' <=> Buys
      /\ Roles' = Roles /\ Freed' = Freed /\ (ForVault' <=> ForVault)
      /\ Signers(swap.call)' = Signers(swap.call)
  BY <1>2 DEF Buys, Roles, Freed, ForVault, Signers, Payee
<1>9. /\ AuthorityGain' = book'.sol[SaAuthority] - sa
      /\ AuthorityGain = book.sol[SaAuthority] - sa
      /\ Got = book.tok[to] - swap.was.tok[to] /\ Got' = book'.tok[to] - swap.was.tok[to]
  BY <1>2 DEF AuthorityGain, Got
<1>10. book'.tok[to] = book.tok[to] => Got' <= 0
  BY <1>6, <1>9
<1>11. OthersKept'
  <2>1. ASSUME NEW a \in TokenAccounts \ {from, to}, OwnerOf[a] = SaAuthority
        PROVE  Spared(a)'
    <3>1. Same(a) \/ (swap.block.dex = "MoonitBuy" /\ Unwrapped(a))
      BY <1>2, <1>6, <2>1 DEF OthersKept, Spared
    <3>2. CASE Same(a) /\ book'.tok[a] = book.tok[a]
      BY <1>2, <1>4, <2>1, <3>2 DEF Same, Spared
    <3>3. CASE Same(a) /\ book'.tok[a] # book.tok[a]
      <4>1. /\ swap.block.dex = "MoonitBuy" /\ book'.tok[a] >= book.tok[a]
            /\ book'.excess[a] = book.excess[a] /\ Got' <= 0
        BY <1>4, <1>10, <2>1, <3>3
      <4>2. book'.tok[a] + book'.excess[a] >= swap.was.tok[a] + swap.was.excess[a]
        BY <1>7, <3>3, <4>1 DEF Same
      <4>3. Gained(a)'
        BY <1>2, <1>4, <3>3, <4>2 DEF Gained, Same
      <4> QED
        BY <1>2, <4>1, <4>3 DEF Spared
    <3>4. CASE swap.block.dex = "MoonitBuy" /\ Unwrapped(a)
      BY <1>2, <1>4, <1>8, <3>4 DEF Spared, Unwrapped
    <3> QED
      BY <3>1, <3>2, <3>3, <3>4
  <2> QED
    BY <1>2, <2>1 DEF OthersKept
<1> HIDE DEF sa, rent
<1>12. ASSUME ForVault
       PROVE  LamportsOfVault'
  <2>1. Roles.authority = SaAuthority
    BY <1>12 DEF ForVault
  <2>2. Payer \notin Signers(swap.call) => PayerGain' = PayerGain
    BY <1>2, <1>4, AccountsApart DEF PayerGain
  <2>3. /\ Buys => AuthorityGain >= Freed + rent
        /\ ~Buys => AuthorityGain = 0
        /\ swap.call.hook \in {"refund", "promised", "repaid"} => swap.before = sa
        /\ Payer \notin Signers(swap.call) =>
             PayerGain = IF swap.call.hook = "rent" THEN TOKEN_ACCOUNT_RENT ELSE 0
    BY <1>2, <1>6, <1>12 DEF LamportsOfVault, rent, sa
  <2>4. ASSUME Buys
        PROVE  AuthorityGain' >= Freed - swap.amount
    <3>1. book'.sol[SaAuthority] >= book.sol[SaAuthority] - swap.amount - rent
      BY <1>4, <1>5, <2>1, <2>4
    <3> QED
      BY <1>3, <1>7, <1>9, <2>3, <2>4, <3>1
  <2>5. ASSUME ~Buys, swap.call.hook # "repaid"
        PROVE  AuthorityGain' >= 0
    <3>1. book'.sol[SaAuthority] >= book.sol[SaAuthority]
      BY <1>4, <1>5, <1>7, <2>1, <2>5, AccountsApart
    <3> QED
      BY <1>7, <1>9, <2>3, <2>5, <3>1
  <2>6. ASSUME swap.call.hook = "promisedOnly"
        PROVE  Got' >= 0
    <3>1. book = swap.was /\ book'.tok[to] = book.tok[to]
      BY <1>4, <1>5, <1>6, <2>6 DEF Buys
    <3> QED
      BY <1>3, <1>7, <1>9, <3>1
  <2> QED
    BY <1>2, <1>8, <2>2, <2>3, <2>4, <2>5, <2>6 DEF LamportsOfVault, sa
<1>13. ASSUME ~ForVault
       PROVE  /\ AuthorityGain' >= 0
              /\ SaAuthority \notin Signers(swap.call) => AuthorityGain' = 0
  <2>1. CASE SaAuthority \notin Signers(swap.call)
    <3>1. book'.sol[SaAuthority] = book.sol[SaAuthority]
      BY <1>4, <2>1, AccountsApart
    <3> QED
      BY <1>6, <1>9, <1>13, <2>1, <3>1
  <2>2. CASE SaAuthority \in Signers(swap.call)
    <3>1. swap.call.kind = "sell"
      BY <1>5, <1>13, <2>2 DEF ForVault
    <3>2. book'.sol[SaAuthority] >= book.sol[SaAuthority]
      BY <1>4, <3>1, AccountsApart
    <3> QED
      BY <1>6, <1>7, <1>9, <1>13, <2>2, <3>2
  <2> QED
    BY <2>1, <2>2
<1>14. ASSUME swap.block.dex = "SolRfq"
       PROVE  Got' = route.plan[done + 1].quote.maker
  <2>1. ~Buys
    BY <1>1, <1>2, <1>14, RfqCall DEF Buys
  <2>2. book = swap.was
    BY <1>6, <2>1
  <2>3. route.plan[done + 1].quote.maker \in Nat
    BY <1>1, <1>2, ForkShape, RouteShape
  <2> QED
    BY <1>3, <1>4, <1>7, <1>9, <1>14, <2>2, <2>3
<1>15. route' = route /\ done' = done
  BY DEF DexCall
<1>16. swap.call.kind = "sell" => Got' <= 0
  BY <1>4, <1>10
<1>17. ForkKept'
  BY <1>2, <1>4, <1>6, <1>8, <1>11, <1>12, <1>13, <1>14, <1>15, <1>16 DEF ForkKept
<1>18. swap' = [swap EXCEPT !.before = swap.before]
  <2>1. swap \in [block : Laid, call : OwnCalls, amount : Nat, before : Nat, was : Books]
    BY <1>1, <1>2 DEF AdapterTypeOK
  <2> QED
    BY <1>2, <2>1
<1> QED
  BY <1>1, <1>2, <1>3, <1>4, <1>17, <1>18, ForkGoesOn DEF DexCall

(* ... and the hook after it.                                              *)
LEMMA AfterInvokeStep ==
  ASSUME AdapterInv, AfterInvoke
  PROVE  AdapterInv'
<1> DEFINE from == swap.block.from
           to == swap.block.to
<1>1. /\ AdapterTypeOK /\ CursorInv /\ OwnBlock /\ ForkKept
      /\ WsolSa \in book.open
  BY DEF AdapterInv
<1>2. UnderWay /\ phase = "traded" /\ phase' = "settled" /\ swap' = swap
  BY DEF AfterInvoke, UnderWay
<1>3. /\ swap.before \in Nat /\ from \in TokenAccounts /\ to \in TokenAccounts
      /\ swap.was \in Books /\ book \in Books
  BY <1>1, <1>2, ForkShape DEF AdapterTypeOK
<1>4. /\ book' \in Books /\ book'.open = book.open
      /\ \A a \in TokenAccounts \ {from, to} :
           \/ book'.tok[a] = book.tok[a] /\ book'.excess[a] = book.excess[a]
           \/ /\ swap.block.dex = "MoonitSell" /\ swap.call.kind = "sell"
              /\ book'.tok[a] + book'.excess[a] >= book.tok[a] + book.excess[a]
              /\ book'.tok[to] = book.tok[to]
      /\ swap.call.hook \in {"none", "rent"} => book' = book
      /\ ~ForVault => book'.sol[SaAuthority] = book.sol[SaAuthority]
      /\ ForVault => LamportsOfVault'
  BY <1>1, AfterInvokeEffect
<1>5. /\ {from, to} \subseteq swap.was.open /\ OthersKept
      /\ swap.call.kind = "sell" => Got <= 0
      /\ Signers(swap.call) \subseteq {Payer, SaAuthority}
      /\ ~ForVault =>
           /\ AuthorityGain >= 0
           /\ SaAuthority \notin Signers(swap.call) => AuthorityGain = 0
      /\ swap.block.dex = "SolRfq" => Got = route.plan[done + 1].quote.maker
  BY <1>1, <1>2 DEF ForkKept
<1>6. /\ Buys' <=> Buys
      /\ Roles' = Roles /\ (ForVault' <=> ForVault)
      /\ Signers(swap.call)' = Signers(swap.call)
  BY <1>2 DEF Buys, Roles, ForVault, Signers, Payee
<1>7. OthersKept'
  <2>1. ASSUME NEW a \in TokenAccounts \ {from, to}, OwnerOf[a] = SaAuthority
        PROVE  Spared(a)'
    <3>1. Spared(a)
      BY <1>5, <2>1 DEF OthersKept
    <3>2. CASE swap.block.dex = "MoonitBuy"
      <4>1. book' = book
        BY <1>1, <1>2, <1>4, <3>2, ForkCall DEF FromBlock
      <4>2. /\ Same(a)' <=> Same(a)
            /\ Unwrapped(a)' <=> Unwrapped(a)
            /\ Gained(a)' <=> Gained(a)
            /\ Got' = Got
        BY <1>2, <1>6, <4>1 DEF Same, Unwrapped, Gained, Got
      <4> QED
        BY <1>2, <3>1, <3>2, <4>2 DEF Spared
    <3>3. CASE swap.block.dex # "MoonitBuy"
      <4>1. Same(a)
        BY <1>2, <3>1, <3>3 DEF Spared
      <4>2. CASE book'.tok[a] = book.tok[a] /\ book'.excess[a] = book.excess[a]
        BY <1>2, <1>4, <4>1, <4>2 DEF Spared, Same
      <4>3. CASE ~(book'.tok[a] = book.tok[a] /\ book'.excess[a] = book.excess[a])
        <5>1. /\ swap.block.dex = "MoonitSell" /\ swap.call.kind = "sell"
              /\ book'.tok[a] + book'.excess[a] >= book.tok[a] + book.excess[a]
              /\ book'.tok[to] = book.tok[to]
          BY <1>4, <2>1, <4>3
        <5>2. Got' <= 0
          BY <1>2, <1>5, <5>1 DEF Got
        <5>3. Gained(a)'
          BY <1>2, <1>4, <4>1, <5>1 DEF Gained, Same
        <5> QED
          BY <1>2, <5>1, <5>2, <5>3 DEF Spared
      <4> QED
        BY <4>2, <4>3
    <3> QED
      BY <3>2, <3>3
  <2> QED
    BY <1>2, <2>1 DEF OthersKept
<1>8. ASSUME ~ForVault
      PROVE  AuthorityGain' = AuthorityGain
  BY <1>2, <1>4, <1>8 DEF AuthorityGain
<1>9. route' = route /\ done' = done
  BY DEF AfterInvoke
<1>10. ASSUME swap.block.dex = "SolRfq"
       PROVE  Got' = route.plan[done + 1].quote.maker
  <2>1. book' = book
    BY <1>1, <1>2, <1>4, <1>10, RfqCall
  <2> QED
    BY <1>2, <1>5, <1>10, <2>1 DEF Got
<1>11. ForkKept'
  BY <1>2, <1>4, <1>5, <1>6, <1>7, <1>8, <1>9, <1>10 DEF ForkKept
<1>12. swap' = [swap EXCEPT !.before = swap.before]
  <2>1. swap \in [block : Laid, call : OwnCalls, amount : Nat, before : Nat, was : Books]
    BY <1>1, <1>2 DEF AdapterTypeOK
  <2> QED
    BY <1>2, <2>1
<1> QED
  BY <1>1, <1>2, <1>3, <1>4, <1>11, <1>12, ForkGoesOn DEF AfterInvoke

(* Every route may begin with any balances.                                *)
LEMMA Initial == Init => AdapterInv
<1> SUFFICES ASSUME Init
             PROVE  AdapterInv
  OBVIOUS
<1>1. /\ phase = "idle" /\ book \in InitialBooks /\ start = book
      /\ offset = 0 /\ done = 0 /\ left = 0 /\ gained = 0 /\ commits = 0 /\ hop = 1
      /\ hopAccounts = Unset
  BY DEF Init
<1>2. book \in Books /\ WsolSa \in book.open
  BY <1>1, HopAssumption
<1>3. ~UnderWay
  BY <1>1 DEF UnderWay
<1>4. AdapterTypeOK
  BY <1>1, <1>2, <1>3 DEF AdapterTypeOK, Unset
<1>5. CursorInv /\ HopInv /\ OwnBlock /\ Backed /\ ForkBacked /\ ForkKept
  BY <1>1, <1>3 DEF CursorInv, HopInv, OwnBlock, Backed, ForkBacked, ForkKept
<1> QED
  BY <1>1, <1>2, <1>4, <1>5 DEF AdapterInv

(* A route begins with what its payer has.                                 *)
LEMMA BeginStep ==
  ASSUME AdapterInv, NEW r \in Routes, Begin(r)
  PROVE  AdapterInv'
<1>1. AdapterTypeOK /\ WsolSa \in book.open
  BY DEF AdapterInv
<1>2. /\ phase' = "fork" /\ route' = r /\ start' = book /\ book' = book
      /\ offset' = 0 /\ done' = 0 /\ hop' = 1 /\ hopAccounts' = Unset
      /\ left' = r.amount /\ gained' = 0 /\ commits' = commits
      /\ book.tok[r.from] >= r.amount
  BY DEF Begin
<1>3. ~UnderWay'
  BY <1>2 DEF UnderWay
<1>4. /\ r.amount \in Nat /\ Len(r.plan) \in Nat
      /\ DOMAIN r.blocks = 1..Len(r.plan)
      /\ \A i \in 1..Len(r.plan) : r.blocks[i] \in Laid
  BY RouteShape
<1>5. AdapterTypeOK'
  BY <1>1, <1>2, <1>3, <1>4 DEF AdapterTypeOK, Unset
<1>6. CursorInv'
  <2>1. \A i \in DOMAIN r.blocks :
          IF i <= 0 THEN r.blocks[i].at < 0 ELSE 0 <= r.blocks[i].at
    BY <1>4 DEF Laid
  <2> QED
    BY <1>2, <1>3, <1>4, <2>1 DEF CursorInv
<1>7. HopInv'
  BY <1>2 DEF HopInv, Unset
<1>8. Backed'
  <2>1. book.open \subseteq TokenAccounts
    BY <1>1 DEF AdapterTypeOK, Books
  <2> QED
    BY <1>2, <2>1, AccountsApart DEF Backed, Unset
<1>9. OwnBlock' /\ ForkBacked' /\ ForkKept'
  BY <1>3 DEF OwnBlock, ForkBacked, ForkKept
<1> QED
  BY <1>1, <1>2, <1>5, <1>6, <1>7, <1>8, <1>9 DEF AdapterInv

(* The only block at the cursor is that of the next fork.                  *)
LEMMA NextBlock ==
  ASSUME AdapterTypeOK, CursorInv, phase = "fork", HopOpen, NEW i \in BlockAt
  PROVE  /\ i = done + 1 /\ done + 1 \in 1..Len(route.plan)
         /\ route.blocks[i].at = offset /\ route.blocks[i] \in Laid
<1>1. /\ route \in Routes /\ done \in Nat /\ offset \in Nat /\ done < Len(route.plan)
  BY DEF AdapterTypeOK, HopOpen
<1>2. /\ DOMAIN route.blocks = 1..Len(route.plan) /\ Len(route.plan) \in Nat
      /\ \A j \in 1..Len(route.plan) : route.blocks[j] \in Laid
  BY <1>1, RouteShape
<1>3. /\ i \in 1..Len(route.plan) /\ route.blocks[i].at = offset
      /\ done + 1 \in 1..Len(route.plan)
  BY <1>1, <1>2 DEF BlockAt
<1>4. \A j \in 1..Len(route.plan) :
        IF j <= done THEN route.blocks[j].at < offset ELSE offset <= route.blocks[j].at
  BY <1>2 DEF CursorInv
<1>5. ~(i <= done)
  BY <1>1, <1>3, <1>4
<1>6. ~(done + 1 < i)
  <2>1. ~(done + 1 <= done)
    BY <1>1
  <2>2. offset <= route.blocks[done + 1].at
    BY <1>3, <1>4, <2>1
  <2>3. done + 1 < i => route.blocks[done + 1].at + route.blocks[done + 1].size
                          <= route.blocks[i].at
    BY <1>1, <1>3, BlockShape
  <2>4. /\ route.blocks[done + 1].at \in Nat
        /\ route.blocks[done + 1].size \in Nat \ {0}
    BY <1>2, <1>3 DEF Laid
  <2> QED
    BY <1>1, <1>3, <2>2, <2>3, <2>4
<1> QED
  BY <1>1, <1>2, <1>3, <1>5, <1>6

(* What a fork of an accountable route offers is in its source account.    *)
LEMMA ParseBacked ==
  ASSUME AdapterInv, phase = "fork", done + 1 \in 1..Len(route.plan),
         NEW b \in Laid, b.dex = route.plan[done + 1].dex,
         {b.from, b.to} \subseteq book.open,
         b.dex = "PerpetualsRemoveLiq" \/ Follows(b),
         Accountable, hop = 1 => b.from = route.from
  PROVE  Follows(b) /\ book.tok[b.from] >= left /\ book.tok[b.to] >= gained
<1>1. AdapterTypeOK /\ HopInv /\ Backed
  BY DEF AdapterInv
<1>2. /\ route \in Routes /\ done \in Nat /\ book \in Books
      /\ gained \in Nat /\ left \in Nat /\ hop \in Nat
      /\ hopAccounts.from \in TokenAccounts \cup {None}
      /\ hopAccounts.last \in TokenAccounts \cup {None}
  BY <1>1 DEF AdapterTypeOK
<1>3. Follows(b)
  <2>1. ASSUME b.dex = "PerpetualsRemoveLiq"
        PROVE  Follows(b)
    <3>1. done + 1 = 1
      BY <1>2, <2>1, RouteShape DEF Accountable
    <3>2. done = 0
      BY <1>2, <3>1
    <3> QED
      BY <1>1, <3>2 DEF HopInv, Follows, Unset
  <2> QED
    BY <2>1
<1>4. StartsAtSource
  BY <1>3 DEF StartsAtSource, Follows
<1>5. book.tok[b.from] \in Nat /\ book.tok[b.to] \in Nat
  BY <1>2 DEF Laid, Books
<1>6. CASE hopAccounts.from # None
  <2>1. b.from = hopAccounts.from /\ b.to = hopAccounts.to /\ hopAccounts.to # None
    BY <1>1, <1>3, <1>6 DEF Follows, HopInv
  <2> QED
    BY <1>1, <1>3, <1>4, <2>1 DEF Backed
<1>7. CASE hopAccounts.from = None
  <2>1. gained = 0
    BY <1>1, <1>7 DEF HopInv
  <2>2. CASE hop = 1
    BY <1>1, <1>3, <1>4, <1>5, <1>7, <2>1, <2>2 DEF Backed
  <2>3. CASE hop # 1
    <3>1. hopAccounts.last # None
      BY <1>1, <2>3 DEF HopInv
    <3>2. b.from = hopAccounts.last
      BY <1>3, <3>1 DEF Follows
    <3> QED
      BY <1>1, <1>3, <1>4, <1>5, <2>1, <3>2 DEF Backed
  <2> QED
    BY <2>2, <2>3
<1> QED
  BY <1>6, <1>7

(* The reading and the checks of a fork.                                   *)
LEMMA ParseStep ==
  ASSUME AdapterInv, Parse
  PROVE  AdapterInv'
<1>1. /\ AdapterTypeOK /\ CursorInv /\ HopInv
      /\ WsolSa \in book.open /\ WsolSa \in start.open
  BY DEF AdapterInv
<1>2. /\ phase = "fork" /\ HopOpen /\ phase' = "checked"
      /\ UNCHANGED <<book, start, route, offset, done, hop, hopAccounts, gained, commits>>
  BY DEF Parse
<1>3. PICK i \in BlockAt, x \in Offers :
        LET b == route.blocks[i]
            p == route.plan[done + 1]
        IN  /\ b.dex = p.dex
            /\ {b.from, b.to} \subseteq book.open
            /\ p.dex = "BoopfunSell" => b.slots.held \in book.open
            /\ IF p.dex \in LamportBuys THEN LamportBeforeCheck(b)
               ELSE BeforeCheck(Checked(b))
            /\ \E c \in CallsOf(p.dex, b, x, p.quote) :
                 /\ offset + c.len <= route.accounts
                 /\ swap' = [block |-> b, call |-> c, amount |-> x, before |-> 0,
                             was |-> book]
            /\ left' = left - x
  BY DEF Parse
<1> DEFINE b == route.blocks[i]
           p == route.plan[done + 1]
<1>4. PICK c \in CallsOf(p.dex, b, x, p.quote) :
        swap' = [block |-> b, call |-> c, amount |-> x, before |-> 0, was |-> book]
  BY <1>3
<1>5. /\ b = route.blocks[done + 1] /\ done + 1 \in 1..Len(route.plan)
      /\ b.at = offset /\ b \in Laid
  BY <1>1, <1>2, NextBlock
<1>6. /\ b.dex = p.dex /\ {b.from, b.to} \subseteq book.open /\ left' = left - x
      /\ IF p.dex \in LamportBuys THEN LamportBeforeCheck(b) ELSE BeforeCheck(Checked(b))
  BY <1>3
<1>7. p = route.plan[done + 1]
  OBVIOUS
<1>8. c \in CallsOf(b.dex, b, x, p.quote)
  BY <1>4, <1>6
<1> HIDE DEF b, p
<1>9. /\ swap'.block = b /\ swap'.call = c /\ swap'.amount = x /\ swap'.before = 0
      /\ swap'.was = book
  BY <1>4
<1>10. /\ book \in Books /\ start \in Books /\ left \in Nat /\ gained \in Nat
       /\ done \in Nat /\ route \in Routes
  BY <1>1, <1>2 DEF AdapterTypeOK
<1>11. x \in Nat /\ left - x \in Nat
  BY <1>10 DEF Offers
<1>12. UnderWay'
  BY <1>2 DEF UnderWay
<1>13. AdapterTypeOK'
  <2>1. OwnCalls' = CallsOf(b.dex, b, x, p.quote)
    BY <1>2, <1>7, <1>9 DEF OwnCalls
  <2>2. swap' \in [block : Laid, call : OwnCalls', amount : Nat, before : Nat, was : Books]
    BY <1>4, <1>5, <1>8, <1>10, <1>11, <2>1
  <2> QED
    BY <1>1, <1>2, <1>6, <1>11, <2>2 DEF AdapterTypeOK
<1>14. CursorInv'
  BY <1>1, <1>2, <1>5, <1>9 DEF CursorInv, HopOpen
<1>15. HopInv'
  BY <1>1, <1>2 DEF HopInv
<1>16. OwnBlock'
  BY <1>2, <1>5, <1>6, <1>7, <1>9 DEF OwnBlock
<1>17. Backed'
  BY <1>2 DEF Backed
<1>18. ForkBacked'
  <2>1. ASSUME Accountable, hop = 1 => b.from = route.from
        PROVE  Follows(b) /\ book.tok[b.from] >= left /\ book.tok[b.to] >= gained
    <3>1. b.dex = "PerpetualsRemoveLiq" \/ Follows(b)
      BY <1>6 DEF LamportBeforeCheck, BeforeCheck, Checked
    <3> QED
      BY <1>2, <1>5, <1>6, <1>7, <2>1, <3>1, ParseBacked
  <2>2. Accountable' <=> Accountable
    BY <1>2 DEF Accountable
  <2>3. Follows(swap.block)' <=> Follows(b)
    BY <1>2, <1>9 DEF Follows
  <2>4. left' + swap'.amount = left
    BY <1>6, <1>9, <1>10, <1>11
  <2> QED
    BY <1>2, <1>9, <2>1, <2>2, <2>3, <2>4 DEF ForkBacked
<1>19. ForkKept'
  <2>1. OthersKept'
    BY <1>2, <1>9 DEF OthersKept, Spared, Same
  <2>2. AuthorityGain' = 0 /\ PayerGain' = 0
    <3>1. book.sol[SaAuthority] \in Nat /\ book.sol[Payer] \in Nat
      BY <1>10, AccountsApart DEF Books
    <3> QED
      BY <1>2, <1>9, <3>1 DEF AuthorityGain, PayerGain
  <2>3. LamportsOfVault'
    BY <1>2, <2>2 DEF LamportsOfVault
  <2> QED
    BY <1>2, <1>6, <1>9, <2>1, <2>2, <2>3 DEF ForkKept
<1> QED
  BY <1>1, <1>2, <1>13, <1>14, <1>15, <1>16, <1>17, <1>18, <1>19 DEF AdapterInv

(* The comparison of balances, after which the cursor moves on.            *)
LEMMA PostSwapCheckStep ==
  ASSUME AdapterInv, PostSwapCheck
  PROVE  AdapterInv'
<1>1. /\ AdapterTypeOK /\ CursorInv /\ HopInv /\ OwnBlock /\ ForkBacked /\ ForkKept
      /\ WsolSa \in book.open /\ WsolSa \in start.open
  BY DEF AdapterInv
<1>2. /\ phase = "settled" /\ phase' = "fork" /\ UnderWay /\ ~UnderWay'
      /\ SpentInBounds /\ swap.block.to \in book.open /\ Got > 0
      /\ offset' = offset + swap.call.len
      /\ hopAccounts' = [hopAccounts EXCEPT !.from = swap.block.from, !.to = swap.block.to]
      /\ gained' = gained + Reported /\ done' = done + 1
      /\ UNCHANGED <<book, start, route, hop, left, commits>>
  BY DEF PostSwapCheck, UnderWay
<1>3. /\ route \in Routes /\ done + 1 \in 1..Len(route.plan)
      /\ swap.block = route.blocks[done + 1] /\ swap.block \in Laid
      /\ swap.block.from \in TokenAccounts /\ swap.block.to \in TokenAccounts
      /\ swap.amount \in Nat /\ swap.was \in Books
      /\ swap.call.len \in 1..swap.block.size
  BY <1>1, <1>2, ForkShape
<1>4. /\ book \in Books /\ start \in Books /\ offset \in Nat /\ done \in Nat
      /\ left \in Nat /\ gained \in Nat /\ hop \in Nat \ {0} /\ commits \in Nat
      /\ hopAccounts \in [from : TokenAccounts \cup {None}, to : TokenAccounts \cup {None},
                          last : TokenAccounts \cup {None}]
  BY <1>1 DEF AdapterTypeOK
<1>5. /\ hopAccounts'.from = swap.block.from /\ hopAccounts'.to = swap.block.to
      /\ hopAccounts'.last = hopAccounts.last
      /\ hopAccounts' \in [from : TokenAccounts \cup {None}, to : TokenAccounts \cup {None},
                           last : TokenAccounts \cup {None}]
  BY <1>2, <1>3, <1>4
<1>6. /\ swap.block.from # None /\ swap.block.to # None
      /\ None \notin book.open
  BY <1>3, <1>4, AccountsApart DEF Books
<1>7. /\ book.tok[swap.block.from] \in Nat /\ swap.was.tok[swap.block.from] \in Nat
      /\ book.tok[swap.block.to] \in Nat /\ swap.was.tok[swap.block.to] \in Nat
  BY <1>3, <1>4 DEF Books
<1>8. Got \in Nat
  BY <1>2, <1>7 DEF Got
<1>9. swap.block.dex = "SaberDecimalWrapperWithdraw" \/ Reported = Got
  BY <1>1, <1>2 DEF ForkKept, Reported
<1>10. Reported \in Nat
  <2>1. route.plan[done + 1].quote.maker \in Nat
    BY <1>3, RouteShape
  <2> QED
    BY <1>3, <1>8, <2>1 DEF Reported
<1>11. AdapterTypeOK'
  <2>1. offset' \in Nat
    BY <1>2, <1>3, <1>4 DEF Laid
  <2> QED
    BY <1>2, <1>3, <1>4, <1>5, <1>10, <2>1 DEF AdapterTypeOK
<1>12. CursorInv'
  <2>1. DOMAIN route.blocks = 1..Len(route.plan) /\ Len(route.plan) \in Nat
    BY <1>3, RouteShape
  <2>2. offset = swap.block.at
    BY <1>1, <1>2 DEF CursorInv, UnderWay
  <2>3. /\ swap.block.size \in Nat /\ swap.call.len \in Nat \ {0}
        /\ swap.call.len <= swap.block.size
    BY <1>3 DEF Laid
  <2>4. offset \in Nat /\ done \in Nat
    BY <1>4
  <2>5. ASSUME NEW j \in 1..Len(route.plan)
        PROVE  IF j <= done + 1 THEN route.blocks[j].at < offset + swap.call.len
               ELSE offset + swap.call.len <= route.blocks[j].at
    <3>1. route.blocks[j].at \in Nat
      BY <1>3, RouteShape DEF Laid
    <3>2. CASE j <= done
      <4>1. route.blocks[j].at < offset
        BY <1>1, <1>2, <2>1, <3>2 DEF CursorInv
      <4> QED
        BY <1>4, <2>3, <3>1, <3>2, <4>1
    <3>3. CASE j = done + 1
      BY <1>3, <1>4, <2>2, <2>3, <3>1, <3>3
    <3>4. CASE done + 1 < j
      <4>1. swap.block.at + swap.block.size <= route.blocks[j].at
        BY <1>3, <3>4, BlockShape
      <4>2. ~(j <= done + 1)
        BY <2>4, <3>4
      <4>3. offset + swap.call.len <= route.blocks[j].at
        BY <2>2, <2>3, <2>4, <3>1, <4>1
      <4> QED
        BY <4>2, <4>3
    <3> QED
      BY <1>4, <3>2, <3>3, <3>4
  <2>6. done + 1 <= Len(route.plan)
    BY <1>3, <2>1
  <2> QED
    BY <1>2, <2>1, <2>5, <2>6 DEF CursorInv
<1>13. HopInv'
  <2>1. done + 1 # 0
    BY <1>4
  <2>2. hop = 1 <=> hopAccounts.last = None
    BY <1>1, <1>2 DEF HopInv
  <2> QED
    BY <1>2, <1>5, <1>6, <2>1, <2>2 DEF HopInv
<1>14. Backed'
  <2>1. ASSUME Accountable', StartsAtSource'
        PROVE  /\ hopAccounts'.last \in {None, swap.block.from}
               /\ hopAccounts'.last \in book.open => book.tok[hopAccounts'.last] >= left
               /\ swap.block.from \in book.open => book.tok[swap.block.from] >= left
               /\ book.tok[swap.block.to] >= gained'
    <3>1. Accountable
      BY <1>2, <2>1 DEF Accountable
    <3>2. hop = 1 => swap.block.from = route.from
      BY <1>2, <1>5, <1>6, <2>1 DEF StartsAtSource
    <3>3. /\ Follows(swap.block)
          /\ swap.was.tok[swap.block.from] >= left + swap.amount
          /\ swap.was.tok[swap.block.to] >= gained
      BY <1>1, <1>2, <3>1, <3>2 DEF ForkBacked
    <3>4. hopAccounts'.last \in {None, swap.block.from}
      BY <1>5, <3>3 DEF Follows
    <3>5. ASSUME swap.block.from \in book.open
          PROVE  book.tok[swap.block.from] >= left
      <4>1. Spent <= swap.amount
        BY <1>2, <3>5 DEF SpentInBounds
      <4> QED
        BY <1>3, <1>4, <1>7, <3>3, <4>1 DEF Spent
    <3>6. swap.block.dex # "SaberDecimalWrapperWithdraw"
      <4>1. swap.block.dex = route.plan[done + 1].dex
        BY <1>1, <1>2 DEF OwnBlock
      <4> QED
        BY <1>3, <3>1, <4>1, RouteShape DEF Accountable
    <3>7. book.tok[swap.block.to] >= gained + Got
      BY <1>4, <1>7, <3>3 DEF Got
    <3> QED
      BY <1>2, <1>6, <1>9, <3>4, <3>5, <3>6, <3>7
  <2> QED
    BY <1>2, <1>5, <1>6, <2>1 DEF Backed
<1>15. OwnBlock' /\ ForkBacked' /\ ForkKept'
  BY <1>2 DEF OwnBlock, ForkBacked, ForkKept
<1> QED
  BY <1>1, <1>2, <1>11, <1>12, <1>13, <1>14, <1>15 DEF AdapterInv

(* The hop that ends leaves what it gained to the next.                    *)
LEMMA EndHopStep ==
  ASSUME AdapterInv, EndHop
  PROVE  AdapterInv'
<1>1. /\ AdapterTypeOK /\ CursorInv /\ HopInv /\ Backed
      /\ WsolSa \in book.open /\ WsolSa \in start.open
  BY DEF AdapterInv
<1>2. /\ phase = "fork" /\ phase' = "fork" /\ ~UnderWay'
      /\ hopAccounts.from # None /\ (hop = 1 => hopAccounts.from = route.from)
      /\ left' = gained /\ gained' = 0
      /\ hopAccounts' = [Unset EXCEPT !.last = hopAccounts.to]
      /\ hop' = hop + 1
      /\ UNCHANGED <<book, start, route, offset, done, commits>>
  BY DEF EndHop, UnderWay
<1>3. /\ book \in Books /\ hop \in Nat \ {0} /\ gained \in Nat
      /\ hopAccounts.to \in TokenAccounts \cup {None}
  BY <1>1 DEF AdapterTypeOK
<1>4. hopAccounts'.from = None /\ hopAccounts'.to = None /\ hopAccounts'.last = hopAccounts.to
  BY <1>2 DEF Unset
<1>5. hopAccounts.to # None /\ done # 0 /\ hop + 1 # 1
  BY <1>1, <1>2, <1>3 DEF HopInv, Unset
<1>6. AdapterTypeOK'
  BY <1>1, <1>2, <1>3 DEF AdapterTypeOK, Unset
<1>7. CursorInv'
  BY <1>1, <1>2 DEF CursorInv
<1>8. HopInv'
  BY <1>2, <1>4, <1>5 DEF HopInv
<1>9. Backed'
  <2>1. None \notin book.open
    BY <1>3, AccountsApart DEF Books
  <2>2. StartsAtSource
    BY <1>2 DEF StartsAtSource
  <2>3. Accountable' <=> Accountable
    BY <1>2 DEF Accountable
  <2>4. Accountable => book.tok[hopAccounts.to] >= gained
    BY <1>1, <1>2, <1>5, <2>2 DEF Backed
  <2> QED
    BY <1>2, <1>4, <1>5, <2>1, <2>3, <2>4 DEF Backed
<1>10. OwnBlock' /\ ForkBacked' /\ ForkKept'
  BY <1>2 DEF OwnBlock, ForkBacked, ForkKept
<1> QED
  BY <1>1, <1>2, <1>6, <1>7, <1>8, <1>9, <1>10 DEF AdapterInv

(* A route that ends, either way, leaves nothing behind.                   *)
LEMMA EndedStep ==
  ASSUME AdapterInv, Finish \/ Fail
  PROVE  AdapterInv'
<1>1. AdapterTypeOK /\ WsolSa \in book.open /\ WsolSa \in start.open
  BY DEF AdapterInv
<1>2. Ended /\ phase' = "idle" /\ ~UnderWay'
  BY DEF Finish, Fail, Ended, UnderWay
<1>3. /\ book' \in {book, start} /\ start' \in {book, start}
      /\ commits' \in {commits, commits + 1}
  BY DEF Finish, Fail
<1>4. AdapterTypeOK'
  BY <1>1, <1>2, <1>3 DEF AdapterTypeOK, Ended, Unset
<1>5. WsolSa \in book'.open /\ WsolSa \in start'.open
  BY <1>1, <1>3
<1>6. /\ CursorInv' /\ HopInv' /\ OwnBlock' /\ Backed' /\ ForkBacked' /\ ForkKept'
  BY <1>2 DEF CursorInv, HopInv, OwnBlock, Backed, ForkBacked, ForkKept
<1> QED
  BY <1>4, <1>5, <1>6 DEF AdapterInv

LEMMA StutterStep ==
  ASSUME AdapterInv, UNCHANGED vars
  PROVE  AdapterInv'
<1>1. UNCHANGED <<book, start, route, offset, done, hop, hopAccounts, left, gained,
                  phase, swap, commits>>
  BY DEF vars
<1>2. /\ AdapterTypeOK' <=> AdapterTypeOK
      /\ CursorInv' <=> CursorInv
      /\ HopInv' <=> HopInv
      /\ OwnBlock' <=> OwnBlock
  BY <1>1 DEF AdapterTypeOK, CursorInv, HopInv, OwnBlock, UnderWay, OwnCalls
<1>3. Backed' <=> Backed
  BY <1>1 DEF Backed, Accountable, StartsAtSource
<1>4. ForkBacked' <=> ForkBacked
  BY <1>1 DEF ForkBacked, UnderWay, Accountable, Follows
<1>5. ForkKept' <=> ForkKept
  BY <1>1 DEF ForkKept, UnderWay, OthersKept, Spared, Same, Unwrapped, Gained,
              LamportsOfVault, Buys, AuthorityGain, PayerGain, Got, Freed, Roles,
              ForVault, Payee, Signers
<1> QED
  BY <1>1, <1>2, <1>3, <1>4, <1>5 DEF AdapterInv

LEMMA Preserved == AdapterInv /\ [Next]_vars => AdapterInv'
<1> SUFFICES ASSUME AdapterInv, [Next]_vars
             PROVE  AdapterInv'
  OBVIOUS
<1>1. ASSUME NEW r \in Routes, Begin(r)
      PROVE  AdapterInv'
  BY <1>1, BeginStep
<1>2. CASE Parse
  BY <1>2, ParseStep
<1>3. CASE BeforeInvoke
  BY <1>3, BeforeInvokeStep
<1>4. CASE DexCall
  BY <1>4, DexCallStep
<1>5. CASE AfterInvoke
  BY <1>5, AfterInvokeStep
<1>6. CASE PostSwapCheck
  BY <1>6, PostSwapCheckStep
<1>7. CASE EndHop
  BY <1>7, EndHopStep
<1>8. CASE Finish \/ Fail
  BY <1>8, EndedStep
<1>9. CASE UNCHANGED vars
  BY <1>9, StutterStep
<1> QED
  BY <1>1, <1>2, <1>3, <1>4, <1>5, <1>6, <1>7, <1>8, <1>9 DEF Next

-----------------------------------------------------------------------------
(* The theorems.                                                           *)

(* Whatever the routes, balances and DEXes: the loops of execute_swap, the *)
(* cursor of the account list and the hooks of the adapters keep their     *)
(* accounts.  Each fork reads its own block, offers what is there, and     *)
(* touches nothing of the vault but what it names.                         *)
THEOREM AdapterInvariance == Spec => []AdapterInv
  BY Initial, Preserved, PTL DEF Spec

(* Whatever accounts a block holds, an adapter whose slots hold the        *)
(* accounts of the swap makes the right call of them or none, and no pool  *)
(* that trades the two mints is refused.                                   *)
THEOREM SidesAreRight == Spec => []RightSides
<1>1. AdapterInv => RightSides
  <2> SUFFICES ASSUME AdapterInv, phase = "fork"
               PROVE  RightSides
    BY DEF RightSides
  <2>1. route \in Routes
    BY DEF AdapterInv, AdapterTypeOK
  <2> QED
    BY <2>1, SidesOfRoute
<1> QED
  BY <1>1, AdapterInvariance, PTL

(* A step that settles a fork is its comparison of balances.               *)
LEMMA SettlesByPostSwapCheck ==
  ASSUME [Next]_vars, ForkSettles
  PROVE  PostSwapCheck
<1>1. phase = "settled" /\ phase' = "fork"
  BY DEF ForkSettles
<1> QED
  BY <1>1 DEF Next, Begin, Parse, BeforeInvoke, DexCall, AfterInvoke, EndHop, Finish,
              Fail, Ended, vars

(* Whatever accounts the caller fills the slots of a block with, and       *)
(* whatever the DEX takes or the adapter promised: the vault's authority   *)
(* ends a fork with no fewer lamports than it began it with, after a buy   *)
(* whose hook refunds with exactly those, and with exactly those if it did *)
(* not sign; a Moonit buy costs it at most what it was offered less what   *)
(* the account that it unwraps has freed, and what a Boop promise costs it *)
(* has gone into the fork's destination.                                   *)
THEOREM AuthorityKept == Spec => AuthorityKeepsLamports
<1> DEFINE kept ==
      ForkSettles /\ Accountable /\ StartsAtSource' =>
        LET was == swap.was.sol[SaAuthority]
            now == book.sol[SaAuthority]
            hook == swap.call.hook
        IN  /\ hook \notin {"rent", "promisedOnly"} => now >= was
            /\ hook = "rent" /\ ForVault => now >= was + Freed - swap.amount
            /\ hook = "rent" /\ Roles.source = swap.block.from => now >= was
            /\ hook = "promisedOnly" => now + Got >= was
            /\ hook = "refund" /\ was > 0 => now = was
            /\ SaAuthority \notin Signers(swap.call) => now = was
<1>1. AdapterInv /\ [Next]_vars => kept
  <2> SUFFICES ASSUME AdapterInv, [Next]_vars, ForkSettles, Accountable, StartsAtSource'
               PROVE  LET was == swap.was.sol[SaAuthority]
                          now == book.sol[SaAuthority]
                          hook == swap.call.hook
                      IN  /\ hook \notin {"rent", "promisedOnly"} => now >= was
                          /\ hook = "rent" /\ ForVault => now >= was + Freed - swap.amount
                          /\ hook = "rent" /\ Roles.source = swap.block.from => now >= was
                          /\ hook = "promisedOnly" => now + Got >= was
                          /\ hook = "refund" /\ was > 0 => now = was
                          /\ SaAuthority \notin Signers(swap.call) => now = was
    OBVIOUS
  <2> DEFINE was == swap.was.sol[SaAuthority]
             now == book.sol[SaAuthority]
             hook == swap.call.hook
             from == swap.block.from
             to == swap.block.to
  <2>1. /\ AdapterTypeOK /\ CursorInv /\ OwnBlock /\ ForkBacked /\ ForkKept
    BY DEF AdapterInv
  <2>2. PostSwapCheck
    BY SettlesByPostSwapCheck
  <2>3. /\ phase = "settled" /\ UnderWay /\ hop' = hop /\ route' = route
        /\ hopAccounts' = [hopAccounts EXCEPT !.from = from, !.to = to]
        /\ Got > 0
    BY <2>2 DEF PostSwapCheck, UnderWay
  <2>4. /\ from \in TokenAccounts /\ to \in TokenAccounts /\ swap.was \in Books
        /\ swap.amount \in Nat /\ book \in Books
    BY <2>1, <2>3, ForkShape DEF AdapterTypeOK
  <2>5. /\ now \in Nat /\ was \in Nat
        /\ swap.was.tok[from] \in Nat /\ left \in Nat
        /\ hopAccounts \in [from : TokenAccounts \cup {None}, to : TokenAccounts \cup {None},
                            last : TokenAccounts \cup {None}]
        /\ Got \in Int
    BY <2>1, <2>4, AccountsApart DEF AdapterTypeOK, Books, Got
  <2>6. hop = 1 => from = route.from
    BY <2>3, <2>4, <2>5, AccountsApart DEF StartsAtSource
  <2>7. swap.was.tok[from] >= swap.amount
    BY <2>1, <2>3, <2>4, <2>5, <2>6 DEF ForkBacked
  <2>8. /\ hook = "refund" => Roles.source = from /\ Signers(swap.call) = {Roles.authority}
        /\ Roles.authority \in Signers(swap.call)
        /\ hook \in BuyHooks => Roles.source \in TokenAccounts
    BY <2>1, <2>3, ForkCall DEF FromBlock, Roles, Signers, BuyHooks
  <2>9. /\ Roles.source = from => Freed >= swap.amount
        /\ hook \in BuyHooks => Freed \in Int
    <3>1. from \in swap.was.open
      BY <2>1, <2>3 DEF ForkKept
    <3> QED
      BY <2>4, <2>7, <2>8, <3>1, AccountsApart DEF Freed, Books
  <2>10. AuthorityGain = now - was
    BY DEF AuthorityGain
  <2> HIDE DEF was, now
  <2>11. ASSUME ForVault
         PROVE  /\ hook \notin {"rent", "promisedOnly"} => now >= was
                /\ hook = "rent" => now >= was + Freed - swap.amount
                /\ hook = "rent" /\ Roles.source = from => now >= was
                /\ hook = "promisedOnly" => now + Got >= was
                /\ hook = "refund" /\ was > 0 => now = was
                /\ SaAuthority \in Signers(swap.call)
    <3>1. LamportsOfVault
      BY <2>1, <2>3, <2>11 DEF ForkKept
    <3>2. /\ hook = "rent" => AuthorityGain >= Freed - swap.amount
          /\ hook = "refund" /\ Freed >= swap.amount =>
               AuthorityGain >= 0 /\ (swap.before > 0 => AuthorityGain = 0)
          /\ hook = "promisedOnly" => AuthorityGain + Got >= 0
          /\ hook \notin {"rent", "refund", "promisedOnly"} => AuthorityGain >= 0
          /\ hook = "refund" => swap.before = was
      BY <2>3, <3>1 DEF LamportsOfVault, Buys, was
    <3>3. SaAuthority \in Signers(swap.call)
      BY <2>8, <2>11 DEF ForVault
    <3>4. CASE hook = "rent"
      <4>1. now - was >= Freed - swap.amount /\ Freed \in Int
        BY <2>9, <2>10, <3>2, <3>4 DEF BuyHooks
      <4>2. now >= was + Freed - swap.amount
        BY <2>4, <2>5, <4>1
      <4>3. Roles.source = from => now >= was
        BY <2>4, <2>5, <2>9, <4>1
      <4> QED
        BY <3>3, <3>4, <4>2, <4>3
    <3>5. CASE hook = "refund"
      <4>1. now - was >= 0 /\ (was > 0 => now - was = 0)
        BY <2>8, <2>9, <2>10, <3>2, <3>5
      <4> QED
        BY <2>5, <3>3, <3>5, <4>1
    <3>6. CASE hook \notin {"rent", "refund"}
      BY <2>5, <2>10, <3>2, <3>3, <3>6
    <3> QED
      BY <3>4, <3>5, <3>6
  <2>12. ASSUME ~ForVault
         PROVE  /\ now >= was /\ now + Got >= was
                /\ hook = "refund" => now = was
                /\ SaAuthority \notin Signers(swap.call) => now = was
    <3>1. /\ AuthorityGain >= 0
          /\ SaAuthority \notin Signers(swap.call) => AuthorityGain = 0
      BY <2>1, <2>3, <2>12 DEF ForkKept
    <3>2. hook = "refund" => SaAuthority \notin Signers(swap.call)
      BY <2>8, <2>12 DEF ForVault
    <3> QED
      BY <2>3, <2>5, <2>10, <3>1, <3>2
  <2> QED
    BY <2>11, <2>12 DEF was, now
<1> HIDE DEF kept
<1>2. Spec => [][kept]_vars
  BY <1>1, AdapterInvariance, PTL DEF Spec
<1> QED
  BY <1>2 DEF kept, AuthorityKeepsLamports

(* Whatever accounts the caller fills the slots of a block with: a fork    *)
(* that settles has moved no account of the vault but its source and its   *)
(* destination, except for the one that a Moonit buy was told to unwrap,   *)
(* and the SOL of a payer that does not sign the call by no more than the  *)
(* limit of the hooks.                                                     *)
THEOREM OthersStay == Spec => OnlyRouteAccountsMove
<1> DEFINE stay ==
      ForkSettles =>
        /\ \A a \in TokenAccounts \ {swap.block.from, swap.block.to} :
             OwnerOf[a] = SaAuthority =>
               Same(a) \/ (swap.block.dex = "MoonitBuy" /\ Unwrapped(a))
        /\ Payer \notin Signers(swap.call) =>
             book.sol[Payer] - swap.was.sol[Payer]
               \in (-SOL_DIFF_LIMIT)..SOL_DIFF_LIMIT
<1>1. AdapterInv /\ [Next]_vars => stay
  <2> SUFFICES ASSUME AdapterInv, [Next]_vars, ForkSettles
               PROVE  stay
    OBVIOUS
  <2>1. ForkKept /\ phase = "settled" /\ UnderWay
    BY DEF AdapterInv, ForkSettles, UnderWay
  <2>2. Got > 0
    BY SettlesByPostSwapCheck DEF PostSwapCheck
  <2>3. ~(Got <= 0)
    <3>1. swap.block.to \in TokenAccounts /\ swap.was \in Books /\ book \in Books
      BY <2>1, ForkShape DEF AdapterInv, AdapterTypeOK
    <3>2. Got \in Int
      BY <3>1 DEF Got, Books
    <3> QED
      BY <2>2, <3>2
  <2>4. ASSUME NEW a \in TokenAccounts \ {swap.block.from, swap.block.to},
               OwnerOf[a] = SaAuthority
        PROVE  Same(a) \/ (swap.block.dex = "MoonitBuy" /\ Unwrapped(a))
    BY <2>1, <2>3, <2>4 DEF ForkKept, OthersKept, Spared
  <2>5. ASSUME Payer \notin Signers(swap.call)
        PROVE  PayerGain \in (-SOL_DIFF_LIMIT)..SOL_DIFF_LIMIT
    <3>1. ForVault
      BY <2>1, <2>5 DEF ForkKept, Signers, ForVault, Roles
    <3> QED
      BY <2>1, <2>5, <3>1 DEF ForkKept, LamportsOfVault
  <2> QED
    BY <2>4, <2>5 DEF PayerGain
<1> HIDE DEF stay
<1>2. Spec => [][stay]_vars
  BY <1>1, AdapterInvariance, PTL DEF Spec
<1> QED
  BY <1>2 DEF stay, OnlyRouteAccountsMove

-----------------------------------------------------------------------------
(* The forks are SwapRouter's.                                             *)
(*                                                                         *)
(* SwapRouter takes a fork as one step, DexCall, and leaves the adapters   *)
(* out.  Here a fork takes five.  RouterBal are the balances that          *)
(* SwapRouter sees: those the fork under way found, until it settles.  The *)
(* arguments of the instruction and the bounds do not matter to a fork.    *)

RouterBal == IF UnderWay THEN swap.was.tok ELSE book.tok
NoFee(m, x) == 0

Router == INSTANCE SwapRouter WITH
  Accounts <- TokenAccounts, ZeroAddress <- None, TransferFee <- NoFee,
  Requests <- {}, InitialBalances <- {}, U64Max <- 0, MaxBal <- 0,
  bal <- RouterBal, ledger <- start.tok,
  req <- [srcSa |-> IF route.proxy THEN route.from ELSE None],
  outBefore <- 0, route <- 1, fork <- done,
  amountIn <- left, accForkIn <- 0, amountOut <- gained,
  lastTo <- hopAccounts.last, hopFrom <- hopAccounts.from, hopTo <- hopAccounts.to,
  underspent <- FALSE

(* What is said of a fork leaves out those that SwapRouter does not have:  *)
(* buys that close their source account, Perpetuals' withdrawal, which is  *)
(* checked the wrong way round, Saber's, which reports what it was         *)
(* offered, and blocks whose caller fills slots with accounts that are not *)
(* the swap's.                                                             *)
Plain ==
  /\ swap.call.kind # "buy" /\ OwnSlots(swap.block)
  /\ swap.block.dex \notin {"PerpetualsRemoveLiq", "SaberDecimalWrapperWithdraw"}

IsRouterDexCall(from, to, offered) ==
  /\ Router!BeforeCheck(from, to)
  /\ \E extra \in TokenAccounts :
       \E took \in Router!Takes(extra, from, to), spent \in 0..RouterBal[from],
          got \in Nat :
         Router!Trade(from, to, offered, extra, took, spent, got)
  /\ hopAccounts' = [hopAccounts EXCEPT !.from = from, !.to = to]
  /\ UNCHANGED hop

IsRouterEndHop ==
  /\ left' = Router!NextAmountIn /\ gained' = 0
  /\ hopAccounts' = [Unset EXCEPT !.last = hopAccounts.to]
  /\ hop' = hop + 1
  /\ UNCHANGED RouterBal

(* ForksAreDexCalls: while a route goes on, SwapRouter sees one of three   *)
(* things: nothing, the end of a hop, or, when a fork settles, its DexCall *)
(* on the accounts of the fork's block and the amount that it was offered. *)
ForksAreDexCalls ==
  [][phase # "idle" /\ phase' # "idle" =>
       \/ UNCHANGED <<RouterBal, hop, hopAccounts, gained>>
       \/ IsRouterEndHop
       \/ /\ phase = "settled"
          /\ Plain => IsRouterDexCall(swap.block.from, swap.block.to, swap.amount)]_vars

(* What the settled fork has moved: of each account, what SwapRouter says. *)
MayTake(extra, took) ==
  \/ extra \in {swap.block.from, swap.block.to} /\ took = 0
  \/ /\ extra \notin {swap.block.from, swap.block.to}
     /\ OwnerSigns /\ OwnerOf[extra] = Payer

HasMoved(extra, took, spent, got) ==
  /\ MayTake(extra, took)
  /\ \A a \in TokenAccounts :
       book.tok[a] = ((swap.was.tok[a] - At(a, swap.block.from, spent))
                       + At(a, swap.block.to, got)) - At(a, extra, took)

(* PlainFork: a plain fork is of its hop and signed as before_check asks,  *)
(* its two accounts stay open, and after the call the balances are those   *)
(* of SwapRouter's DexCall.                                                *)
PlainFork ==
  UnderWay /\ Plain =>
    /\ Follows(swap.block)
    /\ swap.block.authority = OwnerOf[swap.block.from]
    /\ swap.block.authority = (IF OwnerSigns THEN Payer ELSE SaAuthority)
    /\ {swap.block.from, swap.block.to} \subseteq book.open
    /\ phase \in {"traded", "settled"} =>
         /\ swap.block.from # swap.block.to
         /\ \E extra \in TokenAccounts :
              \E took \in 0..swap.was.tok[extra], spent \in 0..swap.was.tok[swap.block.from],
                 got \in Nat : HasMoved(extra, took, spent, got)

(* The adapters that buy with lamports make no other calls.                *)
LEMMA BuysBuy ==
  ASSUME NEW b, NEW x, NEW quote, b.dex \in LamportBuys,
         NEW c \in CallsOf(b.dex, b, x, quote)
  PROVE  c.kind = "buy"
<1>1. CASE b.dex = "PumpfunBuy3"
  <2>1. c \in PumpfunBuy3(b, x)
    BY <1>1 DEF CallsOf, AbortedDexes
  <2> QED
    BY <2>1 DEF PumpfunBuy3, IfClassic, LamportCall
<1>2. CASE b.dex = "PumpfunBuy2"
  <2>1. c \in PumpfunBuy2(b, x)
    BY <1>2 DEF CallsOf, AbortedDexes
  <2> QED
    BY <2>1 DEF PumpfunBuy2, LamportCall
<1>3. CASE b.dex = "BoopfunBuy"
  <2>1. c \in BoopfunBuy(b, x)
    BY <1>3 DEF CallsOf, AbortedDexes
  <2> QED
    BY <2>1 DEF BoopfunBuy, IfClassic, LamportCall
<1>4. CASE b.dex = "MoonitBuy"
  <2>1. c \in MoonitBuy(b, x)
    BY <1>4 DEF CallsOf, AbortedDexes
  <2> QED
    BY <2>1 DEF MoonitBuy, LamportCall
<1>5. CASE b.dex = "SugarMoneyBuy"
  <2>1. c \in SugarBuy(b, x)
    BY <1>5 DEF CallsOf, AbortedDexes
  <2> QED
    BY <2>1 DEF SugarBuy, LamportCall
<1> QED
  BY <1>1, <1>2, <1>3, <1>4, <1>5 DEF LamportBuys

(* A plain fork passes before_check, ...                                   *)
LEMMA PlainParse ==
  ASSUME AdapterInv, Parse
  PROVE  PlainFork'
<1>1. AdapterTypeOK /\ CursorInv
  BY DEF AdapterInv
<1>2. /\ phase = "fork" /\ HopOpen /\ phase' = "checked"
      /\ UNCHANGED <<book, route, hop, hopAccounts>>
  BY DEF Parse
<1>3. PICK i \in BlockAt, x \in Offers :
        LET b == route.blocks[i]
            p == route.plan[done + 1]
        IN  /\ b.dex = p.dex
            /\ {b.from, b.to} \subseteq book.open
            /\ p.dex = "BoopfunSell" => b.slots.held \in book.open
            /\ IF p.dex \in LamportBuys THEN LamportBeforeCheck(b)
               ELSE BeforeCheck(Checked(b))
            /\ \E c \in CallsOf(p.dex, b, x, p.quote) :
                 /\ offset + c.len <= route.accounts
                 /\ swap' = [block |-> b, call |-> c, amount |-> x, before |-> 0,
                             was |-> book]
            /\ left' = left - x
  BY DEF Parse
<1> DEFINE b == route.blocks[i]
           p == route.plan[done + 1]
<1>4. PICK c \in CallsOf(p.dex, b, x, p.quote) :
        swap' = [block |-> b, call |-> c, amount |-> x, before |-> 0, was |-> book]
  BY <1>3
<1>5. /\ b.dex = p.dex /\ {b.from, b.to} \subseteq book.open
      /\ IF p.dex \in LamportBuys THEN LamportBeforeCheck(b) ELSE BeforeCheck(Checked(b))
  BY <1>3
<1>6. c \in CallsOf(b.dex, b, x, p.quote)
  BY <1>4, <1>5
<1> HIDE DEF b, p
<1>7. swap'.block = b /\ swap'.call = c
  BY <1>4
<1>8. ASSUME Plain'
      PROVE  BeforeCheck(b)
  <2>1. c.kind # "buy" /\ b.dex # "PerpetualsRemoveLiq"
    BY <1>7, <1>8 DEF Plain
  <2>2. b.dex \notin LamportBuys
    BY <1>6, <2>1, BuysBuy
  <2> QED
    BY <1>5, <2>1, <2>2 DEF Checked
<1> QED
  BY <1>2, <1>5, <1>7, <1>8 DEF PlainFork, BeforeCheck, Follows, OwnerSigns

(* ... has no account closed for it, ...                                   *)
LEMMA PlainCall ==
  ASSUME AdapterInv, UnderWay, Plain
  PROVE  /\ ~Buys
         /\ \/ swap.call.kind = "token" /\ swap.call.hook \in {"none", "repaid"}
            \/ swap.call.kind = "sell" /\ swap.call.hook \in SellHooks
         /\ Right(swap.block, swap.amount, swap.call)
         /\ swap.call.most \in Nat
         /\ Roles.authority = swap.block.authority
         /\ Payee(swap.call) = swap.block.authority
         /\ swap.call.hook \in SellHooks => Roles.dest = swap.block.to
         /\ swap.call.hook \in {"promised", "repaid"} => Roles.payer = Payer
         /\ Accepts(swap.block.pool, swap.call) =>
              swap.call.debit = swap.block.from /\ swap.call.credit = swap.block.to
<1>1. AdapterTypeOK /\ CursorInv /\ OwnBlock
  BY DEF AdapterInv
<1>2. Right(swap.block, swap.amount, swap.call)
  BY <1>1, ForkShape, FormedRight DEF Plain
<1>3. /\ swap.call.most \in Nat
      /\ swap.call.roles.authority = swap.block.authority
      /\ Payee(swap.call) = swap.block.authority
      /\ \/ swap.call.kind = "token" /\ swap.call.hook \in {"none", "repaid"}
         \/ swap.call.kind = "buy" /\ swap.call.hook \in BuyHooks
         \/ swap.call.kind = "sell" /\ swap.call.hook \in SellHooks
      /\ swap.call.hook \in {"promised", "repaid"} => swap.call.roles.payer = Payer
      /\ swap.call.hook \in SellHooks => swap.call.roles.dest = swap.block.to
      /\ Accepts(swap.block.pool, swap.call) =>
           swap.call.debit = swap.block.from /\ swap.call.credit = swap.block.to
  BY <1>1, <1>2, ForkShape, CallFacts
<1>4. \/ swap.call.kind = "token" /\ swap.call.hook \in {"none", "repaid"}
      \/ swap.call.kind = "sell" /\ swap.call.hook \in SellHooks
  BY <1>3 DEF Plain
<1>5. ~Buys
  BY <1>4 DEF Buys, SellHooks
<1> QED
  BY <1>2, <1>3, <1>4, <1>5 DEF Roles

LEMMA PlainBeforeInvoke ==
  ASSUME AdapterInv, PlainFork, BeforeInvoke
  PROVE  PlainFork'
<1>1. AdapterTypeOK /\ CursorInv /\ OwnBlock /\ ForkKept /\ WsolSa \in book.open
  BY DEF AdapterInv
<1>2. /\ UnderWay /\ phase' = "invoked" /\ swap' = [swap EXCEPT !.before = Lamports]
      /\ UNCHANGED <<route, hop, hopAccounts>>
  BY DEF BeforeInvoke, UnderWay
<1>3. swap \in [block : Laid, call : OwnCalls, amount : Nat, before : Nat, was : Books]
  BY <1>1, <1>2 DEF AdapterTypeOK
<1>4. swap'.block = swap.block /\ swap'.call = swap.call
  BY <1>2, <1>3
<1>5. Plain' => Plain
  BY <1>4 DEF Plain
<1>6. ASSUME Plain
      PROVE  book' = book
  BY <1>1, <1>2, <1>6, PlainCall, BeforeInvokeEffect
<1> QED
  BY <1>2, <1>4, <1>5, <1>6 DEF PlainFork, Follows, OwnerSigns

(* What a DEX that is not paid in lamports does to the tokens of the       *)
(* ledger b that it is left with.                                          *)
LEMMA PlainTrade ==
  ASSUME AdapterInv, UnderWay, Plain,
         Accepts(swap.block.pool, swap.call),
         NEW b \in Books, Trades(b, swap.call)
  PROVE  /\ book'.open = b.open
         /\ \E spent \in 0..b.tok[swap.block.from], got \in Nat :
              \A a \in TokenAccounts :
                book'.tok[a] = (b.tok[a] - At(a, swap.block.from, spent))
                                 + At(a, swap.block.to, got)
<1> DEFINE c == swap.call
           from == swap.block.from
           to == swap.block.to
           auth == swap.block.authority
<1>1. /\ from \in TokenAccounts /\ to \in TokenAccounts /\ auth \in SolAccounts
      /\ c.most \in Nat /\ c.debit = from /\ c.credit = to
      /\ c.roles.authority = auth /\ Payee(c) = auth
      /\ c.kind = "token" \/ c.kind = "sell"
  BY ForkShape, PlainCall DEF AdapterInv, Roles
<1>2. /\ b.tok[from] \in Nat /\ b.sol[auth] \in Nat
      /\ \A a \in TokenAccounts : b.tok[a] \in Nat
  BY <1>1 DEF Books
<1> HIDE DEF c, from, to, auth
<1>3. Trades(b, c) /\ swap.block.from = from /\ swap.block.to = to
  BY DEF c, from, to
<1>4. CASE c.kind = "token"
  <2>1. PICK spent \in 0..(c.most + 1), got \in 0..MaxOut,
             rent \in 0..(IF c.hook = "repaid" THEN TOKEN_ACCOUNT_RENT ELSE 0) :
          /\ spent <= b.tok[from] /\ rent <= b.sol[auth]
          /\ book' = Lamped(Moved(Moved(b, from, -spent), to, got), auth, -rent)
    BY <1>1, <1>3, <1>4 DEF Trades, TradesTokens
  <2>2. spent \in 0..b.tok[from] /\ spent \in Nat /\ got \in Nat /\ rent \in Nat
    BY <1>1, <1>2, <2>1, AccountsApart
  <2> DEFINE m == Moved(b, from, -spent)
             n == Moved(m, to, got)
  <2>3. /\ m \in Books /\ m.open = b.open /\ m.sol = b.sol
        /\ \A a \in TokenAccounts : m.tok[a] = b.tok[a] + At(a, from, -spent)
    BY <1>1, <1>2, <2>2, MovedEffect
  <2> HIDE DEF m
  <2>4. m.tok[to] \in Nat
    BY <1>1, <2>3 DEF Books
  <2>5. /\ n \in Books /\ n.open = b.open /\ n.sol = b.sol
        /\ \A a \in TokenAccounts : n.tok[a] = m.tok[a] + At(a, to, got)
    BY <1>1, <2>2, <2>3, <2>4, MovedEffect
  <2> HIDE DEF n
  <2>6. n.sol[auth] + (-rent) >= 0
    BY <1>2, <2>1, <2>2, <2>5
  <2>7. book'.open = b.open /\ book'.tok = n.tok
    BY <1>1, <2>1, <2>2, <2>5, <2>6, LampedEffect DEF m, n
  <2>8. ASSUME NEW a \in TokenAccounts
        PROVE  book'.tok[a] = (b.tok[a] - At(a, from, spent)) + At(a, to, got)
    BY <1>2, <2>2, <2>3, <2>5, <2>7 DEF At
  <2> QED
    BY <1>3, <2>2, <2>7, <2>8
<1>5. CASE c.kind = "sell"
  <2>1. PICK spent \in 0..(c.most + 1), got \in 0..MaxOut :
          /\ spent <= b.tok[from]
          /\ book' = Lamped(Moved(b, from, -spent), auth, got)
    BY <1>1, <1>3, <1>5 DEF Trades, SellsForLamports
  <2>2. spent \in 0..b.tok[from] /\ spent \in Nat /\ got \in Nat
    BY <1>1, <1>2, <2>1
  <2> DEFINE n == Moved(b, from, -spent)
  <2>3. /\ n \in Books /\ n.open = b.open /\ n.sol = b.sol
        /\ \A a \in TokenAccounts : n.tok[a] = b.tok[a] + At(a, from, -spent)
    BY <1>1, <1>2, <2>2, MovedEffect
  <2> HIDE DEF n
  <2>4. book'.open = b.open /\ book'.tok = n.tok
    BY <1>1, <1>2, <2>1, <2>2, <2>3, LampedEffect DEF n
  <2>5. ASSUME NEW a \in TokenAccounts
        PROVE  book'.tok[a] = (b.tok[a] - At(a, from, spent)) + At(a, to, 0)
    BY <1>2, <2>2, <2>3, <2>4 DEF At
  <2> QED
    BY <1>3, <2>2, <2>4, <2>5
<1> QED
  BY <1>1, <1>4, <1>5

(* A DEX that takes one token more takes it from an account of the payer.  *)
LEMMA TakenFromPayer ==
  ASSUME AdapterInv, PlainFork, Plain, DexCall, NEW a \in TakesMore
  PROVE  /\ a \in TokenAccounts \ {swap.block.from, swap.block.to}
         /\ book.tok[a] \in Nat /\ book.tok[a] > 0
         /\ OwnerSigns /\ OwnerOf[a] = Payer
<1>1. AdapterTypeOK /\ CursorInv /\ OwnBlock /\ UnderWay
  BY DEF AdapterInv, DexCall, UnderWay
<1>2. /\ swap.block.others \subseteq TokenAccounts
      /\ swap.block.others \cap {swap.block.from, swap.block.to} = {}
  BY <1>1, ForkShape
<1>3. /\ a \in swap.block.others /\ a \in book.open /\ book.tok[a] > 0
      /\ OwnerOf[a] = swap.block.authority
  BY <1>1, PlainCall DEF TakesMore, Signers, Roles
<1>4. a \in TokenAccounts \ {swap.block.from, swap.block.to}
  BY <1>2, <1>3
<1>5. book.tok[a] \in Nat
  BY <1>1, <1>4 DEF AdapterTypeOK, Books
<1>6. swap.block.authority = (IF OwnerSigns THEN Payer ELSE SaAuthority)
  BY <1>1 DEF PlainFork
<1>7. a \in Listed
  BY <1>3 DEF Listed
<1>8. OwnerSigns
  BY <1>3, <1>4, <1>6, <1>7 DEF DexCall, AllowListed
<1> QED
  BY <1>3, <1>4, <1>5, <1>6, <1>8

(* ... is called as SwapRouter says, ...                                   *)
LEMMA PlainDexCall ==
  ASSUME AdapterInv, PlainFork, DexCall
  PROVE  PlainFork'
<1>1. AdapterTypeOK /\ CursorInv /\ OwnBlock /\ ForkKept
  BY DEF AdapterInv
<1>2. /\ UnderWay /\ phase = "invoked" /\ phase' = "traded"
      /\ UNCHANGED <<swap, route, hop, hopAccounts>>
      /\ Accepts(swap.block.pool, swap.call)
  BY DEF DexCall, UnderWay
<1> SUFFICES ASSUME Plain
             PROVE  PlainFork'
  BY <1>2 DEF Plain, PlainFork
<1> DEFINE from == swap.block.from
           to == swap.block.to
<1>3. /\ from \in TokenAccounts /\ to \in TokenAccounts /\ book \in Books
      /\ swap.block.pool[1] # swap.block.pool[2]
  BY <1>1, <1>2, ForkShape, BlockShape DEF AdapterTypeOK
<1>4. book = swap.was
  BY <1>1, <1>2, PlainCall DEF ForkKept
<1>5. from # to
  <2>1. Tradable(swap.block)
    BY <1>2, PlainCall DEF Right, CallRight, Plain
  <2>2. PICK i \in 1..2 : /\ MintOf[from] = swap.block.pool[i]
                          /\ MintOf[to] = swap.block.pool[3 - i]
    BY <2>1 DEF Tradable, Directions
  <2>3. i = 1 \/ i = 2
    OBVIOUS
  <2> QED
    BY <1>3, <2>2, <2>3
<1>6. ASSUME NEW extra \in TokenAccounts, NEW took \in 0..book.tok[extra],
             NEW spent \in 0..book.tok[from], NEW got \in Nat,
             MayTake(extra, took),
             book'.open = book.open,
             \A a \in TokenAccounts :
               book'.tok[a] = ((book.tok[a] - At(a, from, spent)) + At(a, to, got))
                                - At(a, extra, took)
      PROVE  PlainFork'
  <2>1. HasMoved(extra, took, spent, got)'
    BY <1>2, <1>4, <1>6 DEF HasMoved, MayTake, At, OwnerSigns
  <2>2. \E e \in TokenAccounts :
          \E t \in 0..swap.was.tok[e], s \in 0..swap.was.tok[from], g \in Nat :
            HasMoved(e, t, s, g)'
    BY <1>4, <2>1
  <2>3. {from, to} \subseteq book'.open
    BY <1>2, <1>6 DEF PlainFork
  <2> QED
    BY <1>2, <1>5, <2>2, <2>3 DEF PlainFork, Follows, OwnerSigns
<1>7. CASE Trades(book, swap.call)
  <2>1. book'.open = book.open
    BY <1>2, <1>3, <1>7, PlainTrade
  <2>2. PICK spent \in 0..book.tok[from], got \in Nat :
          \A a \in TokenAccounts :
            book'.tok[a] = (book.tok[a] - At(a, from, spent)) + At(a, to, got)
    BY <1>2, <1>3, <1>7, PlainTrade
  <2>3. ASSUME NEW a \in TokenAccounts
        PROVE  book'.tok[a] = ((book.tok[a] - At(a, from, spent)) + At(a, to, got))
                                - At(a, from, 0)
    <3>1. book.tok[a] \in Nat /\ At(a, from, spent) \in Int /\ At(a, to, got) \in Int
      BY <1>3 DEF At, Books
    <3>2. At(a, from, 0) = 0
      BY DEF At
    <3> QED
      BY <2>2, <3>1, <3>2
  <2>4. 0 \in 0..book.tok[from] /\ MayTake(from, 0)
    BY <1>3 DEF Books, MayTake
  <2> QED
    BY <1>3, <1>6, <2>1, <2>3, <2>4
<1>8. CASE \E a \in TakesMore : Trades(Moved(book, a, -1), swap.call)
  <2>1. PICK e \in TakesMore : Trades(Moved(book, e, -1), swap.call)
    BY <1>8
  <2>2. /\ e \in TokenAccounts \ {from, to} /\ book.tok[e] \in Nat /\ book.tok[e] > 0
        /\ OwnerSigns /\ OwnerOf[e] = Payer
    BY <2>1, TakenFromPayer
  <2> DEFINE b == Moved(book, e, -1)
  <2>3. /\ b \in Books /\ b.open = book.open
        /\ \A a \in TokenAccounts : b.tok[a] = book.tok[a] + At(a, e, -1)
    BY <1>3, <2>2, MovedEffect
  <2>4. Trades(b, swap.call)
    BY <2>1
  <2> HIDE DEF b
  <2>5. book'.open = book.open
    BY <1>2, <2>3, <2>4, PlainTrade
  <2>6. PICK spent \in 0..b.tok[from], got \in Nat :
          \A a \in TokenAccounts :
            book'.tok[a] = (b.tok[a] - At(a, from, spent)) + At(a, to, got)
    BY <1>2, <2>3, <2>4, PlainTrade
  <2>7. b.tok[from] = book.tok[from]
    BY <1>3, <2>2, <2>3 DEF At, Books
  <2>8. ASSUME NEW a \in TokenAccounts
        PROVE  book'.tok[a] = ((book.tok[a] - At(a, from, spent)) + At(a, to, got))
                                - At(a, e, 1)
    <3>1. book.tok[a] \in Nat /\ At(a, from, spent) \in Int /\ At(a, to, got) \in Int
      BY <1>3 DEF At, Books
    <3>2. b.tok[a] = book.tok[a] - At(a, e, 1)
      BY <2>2, <2>3, <3>1 DEF At
    <3>3. At(a, e, 1) \in Int
      BY DEF At
    <3>4. book'.tok[a] = (b.tok[a] - At(a, from, spent)) + At(a, to, got)
      BY <2>6
    <3> QED
      BY <3>1, <3>2, <3>3, <3>4
  <2>9. 1 \in 0..book.tok[e] /\ MayTake(e, 1)
    BY <2>2 DEF MayTake
  <2> QED
    BY <1>6, <2>2, <2>5, <2>6, <2>7, <2>8, <2>9
<1> QED
  BY <1>7, <1>8 DEF DexCall

(* ... and only gains by the hook after the call.                          *)
LEMMA PlainSettles ==
  ASSUME AdapterInv, UnderWay, Plain, AfterInvoke
  PROVE  /\ \A a \in TokenAccounts \ {swap.block.to} : book'.tok[a] = book.tok[a]
         /\ book'.tok[swap.block.to] >= book.tok[swap.block.to]
<1> DEFINE hook == swap.call.hook
           to == swap.block.to
           auth == swap.block.authority
<1>1. AdapterTypeOK /\ CursorInv /\ OwnBlock
  BY DEF AdapterInv
<1>2. /\ book \in Books /\ to \in TokenAccounts /\ auth \in SolAccounts
      /\ swap.before \in Nat /\ swap.was \in Books
  BY <1>1, ForkShape DEF AdapterTypeOK
<1>3. /\ Roles.authority = auth
      /\ hook \in SellHooks \cup {"none", "repaid"}
      /\ hook \in {"promised", "repaid"} => Roles.payer = Payer
      /\ hook \in SellHooks => Roles.dest = to
  BY PlainCall
<1>4. book.tok[to] \in Nat
  BY <1>2 DEF Books
<1>5. ASSUME NEW x \in Nat, hook \in SellHooks, Wraps(book, x)
      PROVE  /\ Wrapped(book, x) \in Books
             /\ \A a \in TokenAccounts \ {to} : Wrapped(book, x).tok[a] = book.tok[a]
             /\ Wrapped(book, x).tok[to] >= book.tok[to]
  <2>1. /\ Wrapped(book, x) \in Books
        /\ \A a \in TokenAccounts \ {to} : Wrapped(book, x).tok[a] = book.tok[a]
        /\ Wrapped(book, x).tok[to] = book.tok[to] + book.excess[to] + x
    BY <1>1, <1>3, <1>5, WrapsEffect
  <2>2. book.excess[to] \in Nat
    BY <1>2 DEF Books
  <2> QED
    BY <1>4, <1>5, <2>1, <2>2
<1>6. CASE hook = "none"
  BY <1>4, <1>6 DEF AfterInvoke
<1>7. CASE hook = "repaid"
  <2>1. Repays(book)
    BY <1>7 DEF AfterInvoke
  <2>2. book'.tok = book.tok
    BY <1>2, <1>3, <1>7, <2>1, RepaysEffect
  <2> QED
    BY <1>4, <2>2
<1>8. CASE hook = "promised"
  <2>1. PICK x \in Promises : Wraps(book, x) /\ Repays(Wrapped(book, x))
    BY <1>8 DEF AfterInvoke
  <2>2. x \in Nat
    BY <1>8 DEF Promises
  <2> DEFINE n == Wrapped(book, x)
  <2>3. /\ n \in Books /\ n.tok[to] >= book.tok[to]
        /\ \A a \in TokenAccounts \ {to} : n.tok[a] = book.tok[a]
    BY <1>5, <1>8, <2>1, <2>2 DEF SellHooks
  <2>4. Repays(n)
    BY <2>1
  <2> HIDE DEF n
  <2>5. book'.tok = n.tok
    BY <1>2, <1>3, <1>8, <2>3, <2>4, RepaysEffect
  <2> QED
    BY <2>3, <2>5
<1>9. CASE hook = "promisedOnly" \/ hook = "received"
  <2>1. PICK x \in Nat : Wraps(book, x) /\ book' = Wrapped(book, x)
    <3>1. CASE hook = "promisedOnly"
      <4>1. PICK x \in Promises : Wraps(book, x) /\ book' = Wrapped(book, x)
        BY <3>1 DEF AfterInvoke
      <4>2. x \in Nat
        BY <4>1 DEF Promises
      <4> QED
        BY <4>1, <4>2
    <3>2. CASE hook = "received"
      <4> DEFINE x == book.sol[auth] - swap.was.sol[auth]
      <4>1. x >= 0 /\ Wraps(book, x) /\ book' = Wrapped(book, x)
        BY <1>3, <3>2 DEF AfterInvoke
      <4>2. x \in Nat
        BY <1>2, <4>1 DEF Books
      <4> QED
        BY <4>1, <4>2
    <3> QED
      BY <1>9, <3>1, <3>2
  <2> QED
    BY <1>5, <1>9, <2>1 DEF SellHooks
<1> QED
  BY <1>3, <1>6, <1>7, <1>8, <1>9 DEF SellHooks

LEMMA PlainAfterInvoke ==
  ASSUME AdapterInv, PlainFork, AfterInvoke
  PROVE  PlainFork'
<1>1. AdapterTypeOK /\ CursorInv /\ OwnBlock /\ ForkKept
  BY DEF AdapterInv
<1>2. /\ UnderWay /\ phase = "traded" /\ phase' = "settled"
      /\ UNCHANGED <<swap, route, hop, hopAccounts>>
  BY DEF AfterInvoke, UnderWay
<1> SUFFICES ASSUME Plain
             PROVE  PlainFork'
  BY <1>2 DEF Plain, PlainFork
<1> DEFINE from == swap.block.from
           to == swap.block.to
<1>3. from \in TokenAccounts /\ to \in TokenAccounts /\ swap.was \in Books
  BY <1>1, <1>2, ForkShape
<1>4. book \in Books /\ book' \in Books /\ book'.open = book.open
  BY <1>1, AfterInvokeEffect DEF AdapterTypeOK
<1>5. /\ \A a \in TokenAccounts \ {to} : book'.tok[a] = book.tok[a]
      /\ book'.tok[to] >= book.tok[to]
  BY <1>2, PlainSettles
<1>6. PICK extra \in TokenAccounts :
        \E took \in 0..swap.was.tok[extra], spent \in 0..swap.was.tok[from], got \in Nat :
          HasMoved(extra, took, spent, got)
  BY <1>2 DEF PlainFork
<1>7. PICK took \in 0..swap.was.tok[extra], spent \in 0..swap.was.tok[from], got \in Nat :
        HasMoved(extra, took, spent, got)
  BY <1>6
<1> DEFINE more == book'.tok[to] - book.tok[to]
<1>8. more \in Nat /\ book.tok[to] + more = book'.tok[to]
  BY <1>3, <1>4, <1>5 DEF Books
<1> HIDE DEF more
<1>9. ASSUME NEW a \in TokenAccounts
      PROVE  book'.tok[a] = ((swap.was.tok[a] - At(a, from, spent)) + At(a, to, got + more))
                              - At(a, extra, took)
  <2>1. book.tok[a] = ((swap.was.tok[a] - At(a, from, spent)) + At(a, to, got))
                        - At(a, extra, took)
    BY <1>7 DEF HasMoved
  <2>2. /\ swap.was.tok[a] \in Nat /\ At(a, from, spent) \in Int
        /\ At(a, extra, took) \in Int
    BY <1>3 DEF At, Books
  <2>3. At(a, to, got + more) = At(a, to, got) + At(a, to, more) /\ At(a, to, got) \in Int
        /\ At(a, to, more) \in Int
    BY <1>8 DEF At
  <2>4. book'.tok[a] = book.tok[a] + At(a, to, more)
    BY <1>4, <1>5, <1>8 DEF At, Books
  <2> QED
    BY <2>1, <2>2, <2>3, <2>4
<1>10. PICK all \in Nat : all = got + more
  BY <1>8
<1>11. HasMoved(extra, took, spent, all)'
  <2>1. MayTake(extra, took)
    BY <1>7 DEF HasMoved
  <2>2. \A a \in TokenAccounts :
          book'.tok[a] = ((swap.was.tok[a] - At(a, from, spent)) + At(a, to, all))
                           - At(a, extra, took)
    BY <1>9, <1>10
  <2> QED
    BY <1>2, <2>1, <2>2 DEF HasMoved, MayTake, OwnerSigns
<1>12. \E e \in TokenAccounts :
         \E t \in 0..swap.was.tok[e], s \in 0..swap.was.tok[from], g \in Nat :
           HasMoved(e, t, s, g)'
  BY <1>11
<1>13. from # to /\ {from, to} \subseteq book'.open
  BY <1>2, <1>4 DEF PlainFork
<1> QED
  BY <1>2, <1>12, <1>13 DEF PlainFork, Follows, OwnerSigns

(* So it is of every plain fork.                                           *)
LEMMA PlainKept == AdapterInv /\ PlainFork /\ [Next]_vars => PlainFork'
<1> SUFFICES ASSUME AdapterInv, PlainFork, [Next]_vars
             PROVE  PlainFork'
  OBVIOUS
<1>1. CASE Parse
  BY <1>1, PlainParse
<1>2. CASE BeforeInvoke
  BY <1>2, PlainBeforeInvoke
<1>3. CASE DexCall
  BY <1>3, PlainDexCall
<1>4. CASE AfterInvoke
  BY <1>4, PlainAfterInvoke
<1>5. CASE (\E r \in Routes : Begin(r)) \/ PostSwapCheck \/ EndHop \/ Finish \/ Fail
  <2>1. ~UnderWay'
    BY <1>5 DEF Begin, PostSwapCheck, EndHop, Finish, Fail, Ended, UnderWay
  <2> QED
    BY <2>1 DEF PlainFork
<1>6. CASE UNCHANGED vars
  BY <1>6 DEF vars, PlainFork, UnderWay, Plain, OwnSlots, Follows, OwnerSigns, HasMoved,
              MayTake
<1> QED
  BY <1>1, <1>2, <1>3, <1>4, <1>5, <1>6 DEF Next

(* The comparison of balances that ends a plain fork is SwapRouter's.      *)
LEMMA PlainPostSwapCheck ==
  ASSUME LowerBound = [num |-> 95, den |-> 100],
         AdapterInv, PlainFork, Plain, PostSwapCheck
  PROVE  IsRouterDexCall(swap.block.from, swap.block.to, swap.amount)
<1> DEFINE from == swap.block.from
           to == swap.block.to
           was == swap.was
<1>1. AdapterTypeOK /\ CursorInv /\ OwnBlock /\ ForkKept
  BY DEF AdapterInv
<1>2. /\ UnderWay /\ ~UnderWay' /\ phase = "settled"
      /\ SpentInBounds /\ Got > 0
      /\ hopAccounts' = [hopAccounts EXCEPT !.from = from, !.to = to]
      /\ gained' = gained + Reported
      /\ UNCHANGED <<book, route, hop>>
  BY DEF PostSwapCheck, UnderWay
<1>3. /\ from \in TokenAccounts /\ to \in TokenAccounts
      /\ swap.amount \in Nat /\ was \in Books
      /\ route \in Routes
  BY <1>1, <1>2, ForkShape
<1>4. /\ book \in Books /\ gained \in Nat /\ hop \in Nat \ {0}
  BY <1>1 DEF AdapterTypeOK
<1>5. Reported = Got
  BY <1>1, <1>2 DEF ForkKept, Reported, Plain
<1>6. /\ Follows(swap.block)
      /\ OwnerOf[from] = (IF OwnerSigns THEN Payer ELSE SaAuthority)
      /\ from \in book.open /\ from # to
  BY <1>2 DEF PlainFork
<1>7. RouterBal = was.tok /\ RouterBal' = book.tok
  BY <1>2 DEF RouterBal
<1>8. Router!SignedBySa <=> ~OwnerSigns
  <2>1. route.from # None /\ route.proxy \in BOOLEAN
    BY <1>3, RouteShape, AccountsApart
  <2> QED
    BY <1>4, <2>1 DEF Router!SignedBySa, Router!ProxyFrom, OwnerSigns
<1>9. Router!Signer = IF OwnerSigns THEN Payer ELSE SaAuthority
  BY <1>8 DEF Router!Signer
<1>10. Router!BeforeCheck(from, to)
  BY <1>6, <1>9 DEF Router!BeforeCheck, Follows
<1>11. PICK extra \in TokenAccounts :
         \E took \in 0..was.tok[extra], spent \in 0..was.tok[from], got \in Nat :
           HasMoved(extra, took, spent, got)
  BY <1>2 DEF PlainFork
<1>12. PICK took \in 0..was.tok[extra], spent \in 0..was.tok[from], got \in Nat :
         HasMoved(extra, took, spent, got)
  BY <1>11
<1> DEFINE after == Router!AfterCall(from, to, extra, took, spent, got)
<1>13. \/ extra \in {from, to} /\ took = 0
       \/ extra \notin {from, to} /\ OwnerSigns /\ OwnerOf[extra] = Payer
  BY <1>12 DEF HasMoved, MayTake
<1>14. ASSUME NEW a \in TokenAccounts
       PROVE  after[a] = book.tok[a]
  <2> DEFINE moved == (was.tok[a] - At(a, from, spent)) + At(a, to, got)
  <2>1. book.tok[a] = moved - At(a, extra, took)
    BY <1>12 DEF HasMoved
  <2>2. was.tok[a] \in Nat
    BY <1>3 DEF Books
  <2>3. Router!Move(was.tok, from, to, spent, got)[a] = moved
    BY <2>2 DEF Router!Move, At
  <2>4. moved \in Int
    BY <2>2 DEF At
  <2> HIDE DEF moved
  <2>5. after[a] = moved - (IF a = extra THEN took ELSE 0)
    BY <1>7, <2>3 DEF Router!AfterCall
  <2> QED
    BY <2>1, <2>4, <2>5 DEF At
<1>15. after = book.tok
  <2>1. after = [a \in TokenAccounts |-> after[a]]
    BY DEF Router!AfterCall
  <2>2. book.tok = [a \in TokenAccounts |-> book.tok[a]]
    BY <1>4 DEF Books
  <2> HIDE DEF after
  <2> QED
    BY <1>14, <2>1, <2>2, Zenon
<1>16. Router!AllowListed(extra, from, to)
  BY <1>8, <1>13 DEF Router!AllowListed
<1>17. /\ was.tok[from] \in Nat /\ was.tok[to] \in Nat
       /\ book.tok[from] \in Nat /\ book.tok[to] \in Nat
  BY <1>3, <1>4 DEF Books
<1>18. Router!PostSwapCheck(swap.amount, RouterBal, book.tok, from, to)
  <2>1. /\ was.tok[from] - book.tok[from] <= swap.amount
        /\ was.tok[from] - book.tok[from] >= (swap.amount * 95) \div 100
    BY <1>2, <1>6 DEF SpentInBounds, Spent
  <2>2. book.tok[to] - was.tok[to] > 0
    BY <1>2 DEF Got
  <2> QED
    BY <1>7, <2>1, <2>2 DEF Router!PostSwapCheck
<1>19. gained' = gained + (book.tok[to] - was.tok[to])
  BY <1>2, <1>5 DEF Got
<1> HIDE DEF after
<1>20. Router!Trade(from, to, swap.amount, extra, took, spent, got)
  <2>1. RouterBal' = after
    BY <1>7, <1>15
  <2>2. Router!PostSwapCheck(swap.amount, RouterBal, after, from, to)
    BY <1>15, <1>18
  <2> QED
    BY <1>4, <1>7, <1>15, <1>16, <1>17, <1>19, <2>1, <2>2 DEF Router!Trade, after
<1>21. took \in Router!Takes(extra, from, to)
  BY <1>7, <1>9, <1>13 DEF Router!Takes
<1>22. \E e \in TokenAccounts :
         \E t \in Router!Takes(e, from, to), s \in 0..RouterBal[from], g \in Nat :
           Router!Trade(from, to, swap.amount, e, t, s, g)
  BY <1>7, <1>20, <1>21
<1> QED
  BY <1>2, <1>10, <1>22 DEF IsRouterDexCall

LEMMA RouterSteps ==
  ASSUME LowerBound = [num |-> 95, den |-> 100],
         AdapterInv, PlainFork, [Next]_vars, phase # "idle", phase' # "idle"
  PROVE  \/ UNCHANGED <<RouterBal, hop, hopAccounts, gained>>
         \/ IsRouterEndHop
         \/ /\ phase = "settled"
            /\ Plain => IsRouterDexCall(swap.block.from, swap.block.to, swap.amount)
<1>1. CASE Parse
  BY <1>1 DEF Parse, RouterBal, UnderWay
<1>2. CASE BeforeInvoke
  <2>1. UnderWay /\ UnderWay'
    BY <1>2 DEF BeforeInvoke, UnderWay
  <2>2. swap \in [block : Laid, call : OwnCalls, amount : Nat, before : Nat, was : Books]
    BY <2>1 DEF AdapterInv, AdapterTypeOK
  <2>3. swap'.was = swap.was
    BY <1>2, <2>2 DEF BeforeInvoke
  <2> QED
    BY <1>2, <2>1, <2>3 DEF BeforeInvoke, RouterBal
<1>3. CASE DexCall \/ AfterInvoke
  BY <1>3 DEF DexCall, AfterInvoke, RouterBal, UnderWay
<1>4. CASE PostSwapCheck
  BY <1>4, PlainPostSwapCheck DEF PostSwapCheck
<1>5. CASE EndHop
  BY <1>5 DEF EndHop, IsRouterEndHop, RouterBal, UnderWay, Router!NextAmountIn
<1>6. CASE UNCHANGED vars
  BY <1>6 DEF vars, RouterBal, UnderWay
<1> QED
  BY <1>1, <1>2, <1>3, <1>4, <1>5, <1>6 DEF Next, Begin, Finish, Fail, Ended

(* A fork of a plain adapter is SwapRouter's DexCall: whatever the hooks   *)
(* around it do, what is settled passed before_check, moved its two        *)
(* accounts and, if the payer signs, what the DEX took from another of the *)
(* payer's, and passed post_swap_check; and the end of a hop is            *)
(* SwapRouter's.  The lower bound is that of the code.                     *)
THEOREM ForksRefine ==
  ASSUME LowerBound = [num |-> 95, den |-> 100]
  PROVE  Spec => ForksAreDexCalls
<1> DEFINE seen ==
      phase # "idle" /\ phase' # "idle" =>
        \/ UNCHANGED <<RouterBal, hop, hopAccounts, gained>>
        \/ IsRouterEndHop
        \/ /\ phase = "settled"
           /\ Plain => IsRouterDexCall(swap.block.from, swap.block.to, swap.amount)
<1>1. Init => PlainFork
  BY DEF Init, PlainFork, UnderWay
<1>2. Spec => []PlainFork
  BY <1>1, PlainKept, AdapterInvariance, PTL DEF Spec
<1>3. AdapterInv /\ PlainFork /\ [Next]_vars => seen
  BY RouterSteps
<1> HIDE DEF seen
<1>4. Spec => [][seen]_vars
  BY <1>2, <1>3, AdapterInvariance, PTL DEF Spec
<1> QED
  BY <1>4 DEF seen, ForksAreDexCalls

=============================================================================
