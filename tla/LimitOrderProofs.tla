-------------------------- MODULE LimitOrderProofs --------------------------
(***************************************************************************)
(* Proofs about LimitOrder, for every set of accounts, mints, orders,      *)
(* terms, rates and bounds: an open order is backed by its escrow and its  *)
(* prepaid fee, whatever makers, resolvers, donors, mints and the admin    *)
(* do; it ends with its maker served; the vault pays for no fill, and a    *)
(* resolver earns no more than the fee.  The configuration's part comes    *)
(* first: its slots are a set, and a resolver that is removed is out.      *)
(*                                                                         *)
(* IInv is inductive.  That escrows match orders is what makes the mint    *)
(* that a fill names the order's; that makes the escrow back it.           *)
(***************************************************************************)
EXTENDS LimitOrder, TLAPS

-----------------------------------------------------------------------------
(* The configuration: the slots are a set of resolvers, however many       *)
(* slots, keys and changes of the admin there are.                         *)

LEMMA ConfigInitial == ConfigInit => ConfigInv
  BY DEF ConfigInit, ConfigInv, ConfigTypeOK, ResolversDistinct

(* A configuration that exists is well formed.                             *)
LEMMA ConfigShape ==
  ASSUME ConfigInv, config # NoConfig
  PROVE  /\ config \in Configs /\ config.tradeFee > 0 /\ config.feeMultiplier >= 10
         /\ \A i, j \in Slots :
              config.resolvers[i] = config.resolvers[j] /\ config.resolvers[i] # NoKey
                => i = j
  BY DEF ConfigInv, ConfigTypeOK, ResolversDistinct

(* No configuration is taken for the missing one.                          *)
LEMMA ConfigIsNotNone ==
  ASSUME NEW c \in Configs
  PROVE  c # NoConfig
  BY KeysAssumption DEF Configs, NoConfig

LEMMA ConfigStep == ConfigInv /\ [ConfigNext]_config => ConfigInv'
<1> SUFFICES ASSUME ConfigInv, [ConfigNext]_config
             PROVE  ConfigInv'
  OBVIOUS
<1> USE DEF Configs
<1>1. CASE UNCHANGED config
  BY <1>1 DEF ConfigInv, ConfigTypeOK, ResolversDistinct
<1>2. ASSUME NEW signer \in Accounts, NEW fee \in TradeFees, InitGlobalConfig(signer, fee)
      PROVE  ConfigInv'
  <2>1. config' \in Configs /\ config'.tradeFee > 0 /\ config'.feeMultiplier >= 10
    BY <1>2, ConfigAssumption DEF InitGlobalConfig
  <2>2. \A i \in Slots : config'.resolvers[i] = NoKey
    BY <1>2 DEF InitGlobalConfig
  <2> QED
    BY <2>1, <2>2 DEF ConfigInv, ConfigTypeOK, ResolversDistinct
<1>3. ASSUME NEW signer \in Accounts, NEW admin \in NewKeys, SetAdmin(signer, admin)
      PROVE  ConfigInv'
  <2>1. config' \in Configs /\ config'.tradeFee > 0 /\ config'.feeMultiplier >= 10
    BY <1>3, ConfigShape, ConfigAssumption DEF SetAdmin, ByAdmin
  <2>2. config'.resolvers = config.resolvers
    BY <1>3, ConfigShape DEF SetAdmin, ByAdmin
  <2> QED
    BY <1>3, <2>1, <2>2, ConfigShape
    DEF ConfigInv, ConfigTypeOK, ResolversDistinct, SetAdmin, ByAdmin
<1>4. ASSUME NEW signer \in Accounts, NEW r \in NewKeys, AddResolver(signer, r)
      PROVE  ConfigInv'
  <2>1. PICK i \in Slots : config' = [config EXCEPT !.resolvers[i] = r]
    BY <1>4 DEF AddResolver
  <2>2. config' \in Configs /\ config'.tradeFee > 0 /\ config'.feeMultiplier >= 10
    BY <1>4, <2>1, ConfigShape, ConfigAssumption DEF AddResolver, ByAdmin
  <2>3. \A j \in Slots : config.resolvers[j] # r
    BY <1>4 DEF AddResolver, Addable, SlotsOf
  <2>4. config'.resolvers = [config.resolvers EXCEPT ![i] = r]
    BY <1>4, <2>1, ConfigShape DEF AddResolver, ByAdmin
  <2> QED
    BY <1>4, <2>2, <2>3, <2>4, ConfigShape
    DEF ConfigInv, ConfigTypeOK, ResolversDistinct, AddResolver, ByAdmin
<1>5. ASSUME NEW signer \in Accounts, NEW r \in NewKeys, RemoveResolver(signer, r)
      PROVE  ConfigInv'
  <2>1. PICK i \in Slots : config' = [config EXCEPT !.resolvers[i] = NoKey]
    BY <1>5 DEF RemoveResolver
  <2>2. config' \in Configs /\ config'.tradeFee > 0 /\ config'.feeMultiplier >= 10
    BY <1>5, <2>1, ConfigShape DEF RemoveResolver, ByAdmin
  <2>3. config'.resolvers = [config.resolvers EXCEPT ![i] = NoKey]
    BY <1>5, <2>1, ConfigShape DEF RemoveResolver, ByAdmin
  <2> QED
    BY <1>5, <2>2, <2>3, ConfigShape
    DEF ConfigInv, ConfigTypeOK, ResolversDistinct, RemoveResolver, ByAdmin
<1>6. ASSUME NEW signer \in Accounts,
             \/ \E fee \in TradeFees : SetTradeFee(signer, fee)
             \/ \E paused \in BOOLEAN : SetPaused(signer, paused)
             \/ \E multiplier \in Multipliers : SetFeeMultiplier(signer, multiplier)
      PROVE  ConfigInv'
  <2>1. /\ config' \in Configs /\ config'.tradeFee > 0 /\ config'.feeMultiplier >= 10
        /\ config'.resolvers = config.resolvers
    BY <1>6, ConfigShape, ConfigAssumption
    DEF SetTradeFee, SetPaused, SetFeeMultiplier, MultiplierAllowed, ByAdmin
  <2>2. config # NoConfig
    BY <1>6 DEF SetTradeFee, SetPaused, SetFeeMultiplier, ByAdmin
  <2> QED
    BY <2>1, <2>2, ConfigShape DEF ConfigInv, ConfigTypeOK, ResolversDistinct
<1> QED
  BY <1>1, <1>2, <1>3, <1>4, <1>5, <1>6 DEF ConfigNext

(* ConfigInvariance: at any time the configuration is well formed and no   *)
(* resolver holds two of its slots.                                        *)
THEOREM ConfigInvariance == ConfigSpec => []ConfigInv
  BY ConfigInitial, ConfigStep, PTL DEF ConfigSpec

(* RemovalIsFinal: one cleared slot is enough to remove a resolver, and    *)
(* costs nobody else a slot.                                               *)
THEOREM RemovalIsFinal == ConfigSpec => RemovedIsOut
<1>1. ASSUME ConfigInv, NEW signer \in Accounts, NEW r \in Accounts,
             RemoveResolver(signer, r)
      PROVE  /\ ~IsResolver(r)'
             /\ \A s \in Accounts \ {r} : IsResolver(s)' = IsResolver(s)
  <2>1. config # NoConfig /\ r # NoKey
    BY <1>1 DEF RemoveResolver, ByAdmin
  <2>2. PICK i \in Slots : /\ config.resolvers[i] = r
                           /\ config' = [config EXCEPT !.resolvers[i] = NoKey]
    BY <1>1 DEF RemoveResolver, IsFirst, SlotsOf
  <2>3. /\ config'.resolvers = [config.resolvers EXCEPT ![i] = NoKey]
        /\ config' \in Configs
    BY <1>1, <2>1, <2>2, ConfigShape DEF Configs
  <2>4. config' # NoConfig
    BY <2>3, ConfigIsNotNone
  <2>5. config.resolvers \in [Slots -> Accounts \cup {NoKey}]
    BY <1>1, <2>1, ConfigShape DEF Configs
  <2>6. \A j \in Slots : config'.resolvers[j] # r
    BY <1>1, <2>1, <2>2, <2>3, <2>5, ConfigShape
  <2>7. \A s \in Accounts \ {r} :
          (\E j \in Slots : config'.resolvers[j] = s) <=> (\E j \in Slots : config.resolvers[j] = s)
    BY <2>2, <2>3, <2>5, KeysAssumption
  <2>8. ~IsResolver(r)'
    BY <2>6 DEF IsResolver
  <2>9. \A s \in Accounts \ {r} : IsResolver(s)' = IsResolver(s)
    BY <2>1, <2>4, <2>7 DEF IsResolver
  <2> QED
    BY <2>8, <2>9
<1>2. ConfigInv => [\A signer, r \in Accounts :
                      RemoveResolver(signer, r) =>
                        /\ ~IsResolver(r)'
                        /\ \A s \in Accounts \ {r} : IsResolver(s)' = IsResolver(s)]_config
  <2> SUFFICES ASSUME ConfigInv, config' # config,
                      NEW signer \in Accounts, NEW r \in Accounts,
                      RemoveResolver(signer, r)
               PROVE  /\ ~IsResolver(r)'
                      /\ \A s \in Accounts \ {r} : IsResolver(s)' = IsResolver(s)
    OBVIOUS
  <2> QED
    BY <1>1
<1>3. ConfigSpec => []ConfigInv
  BY ConfigInitial, ConfigStep, PTL DEF ConfigSpec
<1> QED
  BY <1>2, <1>3, PTL DEF RemovedIsOut

-----------------------------------------------------------------------------
(* Arithmetic.                                                             *)

(* Integer division rounds down.                                           *)
LEMMA Quotient ==
  ASSUME NEW n \in Nat, NEW d \in Nat \ {0}
  PROVE  n \div d \in Nat /\ (n \div d) * d <= n /\ n < (n \div d) * d + d
OBVIOUS

(* A product grows with its factors.                                       *)
LEMMA Grows ==
  ASSUME NEW x \in Nat, NEW y \in Nat, NEW z \in Nat, x <= y
  PROVE  x * z <= y * z /\ z * x <= z * y
OBVIOUS

(* A mint withholds a part of a transfer, wSOL nothing.                    *)
LEMMA WithheldPart ==
  ASSUME TypeOK, NEW m \in Mints, NEW x \in Nat
  PROVE  /\ TransferFee(m, x) \in 0..x /\ Net(m, x) \in 0..x
         /\ m = Wsol => TransferFee(m, x) = 0 /\ Net(m, x) = x
<1> DEFINE d == WITHHELD_DENOMINATOR
           rate == withheldRate[m]
           n == x * rate + d - 1
           q == n \div d
<1>1. d \in Nat \ {0} /\ rate \in 0..d
  BY LimitOrderAssumption DEF TypeOK
<1>2. x * rate \in Nat /\ x * rate <= x * d
  BY <1>1, Grows
<1>3. n \in Nat /\ n <= x * d + d - 1
  BY <1>1, <1>2
<1>4. q \in Nat /\ q * d <= n
  BY <1>1, <1>3, Quotient
<1>5. q <= x
  <2> HIDE DEF q, n
  <2> SUFFICES ASSUME q >= x + 1 PROVE FALSE
    BY <1>4
  <2>1. (x + 1) * d <= q * d
    BY <1>1, <1>4, Grows
  <2>2. (x + 1) * d = x * d + d
    BY <1>1
  <2> QED
    BY <1>1, <1>3, <1>4, <2>1, <2>2
<1>6. ASSUME m = Wsol PROVE q = 0
  <2>1. n = d - 1
    BY <1>1, <1>6 DEF TypeOK
  <2>2. q * d <= d - 1
    BY <1>4, <2>1
  <2> HIDE DEF q
  <2> SUFFICES ASSUME q >= 1 PROVE FALSE
    BY <1>4
  <2>3. 1 * d <= q * d
    BY <1>1, <1>4, Grows
  <2> QED
    BY <1>1, <1>4, <2>2, <2>3
<1>7. q = TransferFee(m, x)
  BY DEF TransferFee
<1> QED
  BY <1>4, <1>5, <1>6, <1>7 DEF Net

(* Of a larger transfer no less arrives.                                   *)
LEMMA NetGrows ==
  ASSUME TypeOK, NEW m \in Mints, NEW x \in Nat, NEW y \in Nat, x <= y
  PROVE  Net(m, x) <= Net(m, y)
<1> DEFINE d == WITHHELD_DENOMINATOR
           rate == withheldRate[m]
           n == x * rate + d - 1
           l == y * rate + d - 1
           p == n \div d
           q == l \div d
           z == y - x
<1>1. d \in Nat \ {0} /\ rate \in 0..d /\ z \in Nat
  BY LimitOrderAssumption DEF TypeOK
<1>2. x * rate \in Nat /\ y * rate \in Nat /\ y * rate = x * rate + z * rate
  BY <1>1
<1>3. z * rate \in Nat /\ z * d \in Nat /\ z * rate <= z * d
  BY <1>1, Grows
<1>4. n \in Nat /\ l \in Nat /\ l <= n + z * d
  BY <1>1, <1>2, <1>3
<1>5. p \in Nat /\ n < p * d + d /\ q \in Nat /\ q * d <= l
  BY <1>1, <1>4, Quotient
<1> HIDE DEF p, q, n, l
<1>6. q <= p + z
  <2> SUFFICES ASSUME q >= p + z + 1 PROVE FALSE
    BY <1>1, <1>5
  <2>1. (p + z + 1) * d <= q * d
    BY <1>1, <1>5, Grows
  <2>2. (p + z + 1) * d = p * d + z * d + d /\ p * d \in Nat /\ q * d \in Nat
    BY <1>1, <1>5
  <2> QED
    BY <1>1, <1>3, <1>4, <1>5, <2>1, <2>2
<1>7. p = TransferFee(m, x) /\ q = TransferFee(m, y)
  BY DEF TransferFee, p, q, n, l
<1> QED
  BY <1>1, <1>5, <1>6, <1>7 DEF Net

-----------------------------------------------------------------------------
(* Money.                                                                  *)

(* A credit changes one balance.                                           *)
Credited(t, s, who, m, x) ==
  /\ s \in [Holders -> [Mints -> Int]]
  /\ \A h \in Holders, n \in Mints :
       s[h][n] = t[h][n] + (IF h = who /\ n = m THEN x ELSE 0)

CreditedSol(s, r, who, x) ==
  /\ r \in [Accounts -> Int]
  /\ \A a \in Accounts : r[a] = s[a] + (IF a = who THEN x ELSE 0)

LEMMA CreditEffect ==
  ASSUME NEW t \in [Holders -> [Mints -> Int]],
         NEW who \in Holders, NEW m \in Mints, NEW x \in Int
  PROVE  Credited(t, Credit(t, who, m, x), who, m, x)
BY DEF Credit, Credited

LEMMA CreditSolEffect ==
  ASSUME NEW s \in [Accounts -> Int], NEW who \in Accounts, NEW x \in Int
  PROVE  CreditedSol(s, CreditSol(s, who, x), who, x)
BY DEF CreditSol, CreditedSol

(* So does emptying an account.                                            *)
LEMMA EmptiedEffect ==
  ASSUME NEW t \in [Holders -> [Mints -> Int]], NEW who \in Holders, NEW m \in Mints,
         NEW s, s = [t EXCEPT ![who][m] = 0]
  PROVE  /\ s \in [Holders -> [Mints -> Int]]
         /\ \A h \in Holders, n \in Mints :
              s[h][n] = IF h = who /\ n = m THEN 0 ELSE t[h][n]
OBVIOUS

(* Balances that are nowhere negative.                                     *)
LEMMA TokensType ==
  ASSUME NEW t \in [Holders -> [Mints -> Int]],
         \A h \in Holders, n \in Mints : t[h][n] >= 0
  PROVE  t \in [Holders -> [Mints -> Nat]]
<1>1. \A h \in Holders : t[h] \in [Mints -> Int]
  OBVIOUS
<1>2. \A h \in Holders : t[h] \in [Mints -> Nat]
  BY <1>1
<1> QED
  BY <1>2

LEMMA SolType ==
  ASSUME NEW s \in [Accounts -> Int], \A a \in Accounts : s[a] >= 0
  PROVE  s \in [Accounts -> Nat]
<1>1. ASSUME NEW a \in Accounts PROVE s[a] \in Nat
  <2>1. s[a] \in Int
    OBVIOUS
  <2> QED
    BY <2>1
<1> QED
  BY <1>1

LEMMA BalancesAreIntegers ==
  ASSUME TypeOK
  PROVE  /\ tok \in [Holders -> [Mints -> Int]]
         /\ sol \in [Accounts -> Int]
         /\ \A h \in Holders, n \in Mints : tok[h][n] \in Nat
         /\ \A a \in Accounts : sol[a] \in Nat
BY DEF TypeOK

(* Makers are accounts, and accounts hold tokens.                          *)
LEMMA MakerType ==
  ASSUME NEW k \in Keys
  PROVE  Maker(k) \in Accounts /\ Maker(k) \in Holders
BY LimitOrderAssumption DEF Keys, Maker, Holders

(* A configuration that is not paused is one.                              *)
LEMMA Configured ==
  ASSUME TypeOK, ~Paused
  PROVE  config \in Configs /\ config.tradeFee \in Nat /\ config.feeMultiplier \in Nat
BY DEF TypeOK, Paused, Configs

LEMMA CollectedFeeType ==
  ASSUME TypeOK, ~Paused, NEW asked \in AskedFees
  PROVE  CollectedFee(asked) \in Nat
<1>1. asked \in Nat
  BY LimitOrderAssumption
<1>2. config.feeMultiplier \in Nat
  BY Configured
<1>3. asked * config.feeMultiplier \in Nat
  BY <1>1, <1>2
<1>4. (asked * config.feeMultiplier) \div 10 \in Nat
  BY <1>3, Quotient
<1> QED
  BY <1>1, <1>4 DEF CollectedFee

-----------------------------------------------------------------------------
(* A fill.                                                                 *)

(* What a fill and the order it closes consist of.                         *)
LEMMA FillTypes ==
  ASSUME TypeOK, NEW k \in Keys, NEW m \in Mints, NEW f \in Fills,
         order[k].open, escrow[k][m].open
  PROVE  /\ escrow[k][m].amount \in Nat
         /\ order[k] \in OrderTerms /\ order[k].outMint \in Mints
         /\ f.amountIn \in Nat /\ f.taken \in Nat /\ f.got \in Nat
         /\ f.rate \in Nat /\ f.payee \in Holders
         /\ {f.commission, f.temp, f.inSa, f.outSa, f.onFrom} \subseteq BOOLEAN
<1>1. order[k] \in OrderTerms
  BY DEF TypeOK, NoOrder
<1>2. order[k].outMint \in Mints
  BY <1>1 DEF OrderTerms
<1>3. escrow[k][m] \in Escrows
  BY DEF TypeOK
<1>4. escrow[k][m].amount \in Nat
  BY <1>3 DEF Escrows
<1>5. f \in [commission : BOOLEAN, amountIn : Nat, temp : BOOLEAN, inSa : BOOLEAN,
            outSa : BOOLEAN, toPayer : BOOLEAN, rate : Nat, onFrom : BOOLEAN,
            payee : Holders, taken : Nat, got : Nat]
  BY LimitOrderAssumption
<1>6. /\ f.amountIn \in Nat /\ f.taken \in Nat /\ f.got \in Nat
      /\ f.rate \in Nat /\ f.payee \in Holders
      /\ {f.commission, f.temp, f.inSa, f.outSa, f.onFrom} \subseteq BOOLEAN
  BY <1>5
<1> QED
  BY <1>1, <1>2, <1>4, <1>6

LEMMA CommissionType ==
  ASSUME NEW f \in Fills, f.rate \in Nat, f.commission \in BOOLEAN, NEW x \in Nat
  PROVE  Commission(f, x) \in Nat /\ (~f.commission => Commission(f, x) = 0)
<1>1. x * f.rate \in Nat
  OBVIOUS
<1>2. (x * f.rate) \div COMMISSION_DENOMINATOR \in Nat
  BY <1>1, LimitOrderAssumption, Quotient
<1> QED
  BY <1>2 DEF Commission

(* Every part of the escrow that a fill sends somewhere is there.          *)
LEMMA FillIn ==
  ASSUME TypeOK, NEW payer \in Accounts, NEW k \in Keys, NEW m \in Mints,
         NEW f \in Fills, NEW asked \in AskedFees, FillOrder(payer, k, m, f, asked)
  PROVE  LET e == escrow[k][m] IN
         /\ TempFee(f, m, e) \in Nat /\ VaultFee(f, m, e) \in Nat
         /\ RealAmountIn(f, m, e) \in Nat
         /\ SwapAmountIn(f, m, e) \in Nat
         /\ TempAmount(f, m, e) \in Nat
         /\ EscrowRest(f, m, e) \in Nat
         /\ f.taken <= SwapAmountIn(f, m, e)
<1> DEFINE e == escrow[k][m]
<1>1. /\ order[k].open /\ e.open
      /\ CommissionsPayable(f, m, order[k].outMint, e)
      /\ SourceChecked(f, m, e, payer)
  BY DEF FillOrder
<1>2. e.amount \in Nat /\ f.rate \in Nat /\ f.taken \in Nat /\ f.amountIn \in Nat
      /\ {f.commission, f.temp, f.inSa, f.onFrom} \subseteq BOOLEAN
  BY <1>1, FillTypes
<1> HIDE DEF e
<1>3. TempFee(f, m, e) \in Nat /\ TempFee(f, m, e) <= e.amount
  BY <1>1, <1>2, CommissionType DEF TempFee, CommissionsPayable
<1>4. RealAmountIn(f, m, e) \in Nat
  BY <1>2, <1>3 DEF RealAmountIn
<1>5. VaultFee(f, m, e) \in Nat /\ VaultFee(f, m, e) <= RealAmountIn(f, m, e)
  BY <1>1, <1>2, <1>4, CommissionType DEF VaultFee, CommissionsPayable
<1>6. SwapAmountIn(f, m, e) \in Nat
  BY <1>4, <1>5 DEF SwapAmountIn
<1>7. TempAmount(f, m, e) \in Nat
  BY <1>2, <1>4 DEF TempAmount
<1>8. f.taken <= SwapAmountIn(f, m, e)
  BY <1>1 DEF SourceChecked
<1>9. EscrowRest(f, m, e) \in Nat
  <2>1. CASE f.temp
    <3>1. ~f.inSa /\ TempAmount(f, m, e) <= e.amount
      BY <1>1, <2>1 DEF SourceChecked
    <3>2. VaultFee(f, m, e) = 0
      BY <3>1 DEF VaultFee
    <3>3. ~f.commission => TempFee(f, m, e) = 0
      BY <1>2, CommissionType DEF TempFee
    <3> QED
      BY <1>2, <1>3, <1>7, <2>1, <3>1, <3>2, <3>3
      DEF EscrowRest, TempAmount, RealAmountIn
  <2>2. CASE ~f.temp
    BY <1>2, <1>3, <1>4, <1>5, <1>6, <1>8, <2>2
    DEF EscrowRest, SwapAmountIn, RealAmountIn
  <2> QED
    BY <2>1, <2>2
<1> QED
  BY <1>3, <1>4, <1>5, <1>6, <1>7, <1>8, <1>9 DEF e

(* What the swap gave is enough for the fees on it.                        *)
LEMMA FillOut ==
  ASSUME TypeOK, NEW payer \in Accounts, NEW k \in Keys, NEW m \in Mints,
         NEW f \in Fills, NEW asked \in AskedFees, FillOrder(payer, k, m, f, asked)
  PROVE  LET out == order[k].outMint IN
         /\ OutFee(f) \in Nat /\ HandedOver(f) \in Nat
         /\ TakingAmount(f, out) \in Nat
         /\ LateFee(f, out) \in 0..TakingAmount(f, out)
<1> DEFINE out == order[k].outMint
<1>1. /\ order[k].open /\ escrow[k][m].open
      /\ CommissionsPayable(f, m, out, escrow[k][m])
  BY DEF FillOrder
<1>2. out \in Mints /\ f.got \in Nat /\ f.rate \in Nat
      /\ {f.commission, f.outSa, f.onFrom} \subseteq BOOLEAN
  BY <1>1, FillTypes
<1> HIDE DEF out
<1>3. OutFee(f) \in Nat /\ OutFee(f) <= f.got
  BY <1>1, <1>2, CommissionType DEF OutFee, CommissionsPayable
<1>4. HandedOver(f) \in Nat
  BY <1>2, <1>3 DEF HandedOver
<1>5. TakingAmount(f, out) \in Nat
  BY <1>2, <1>4, WithheldPart DEF TakingAmount
<1>6. LateFee(f, out) \in Nat /\ LateFee(f, out) <= TakingAmount(f, out)
  BY <1>1, <1>2, <1>5, CommissionType DEF LateFee, CommissionsPayable
<1> QED
  BY <1>3, <1>4, <1>5, <1>6 DEF out

(* The way in takes nothing from anybody but the payer's temporary account *)
(* and, as far as the mint withholds from the pull, the vault.             *)
LEMMA SwapInEffect ==
  ASSUME TypeOK, NEW payer \in Accounts, NEW k \in Keys, NEW m \in Mints,
         NEW f \in Fills, NEW asked \in AskedFees, FillOrder(payer, k, m, f, asked)
  PROVE  LET e == escrow[k][m]
             t == AfterSwapIn(f, m, e, payer)
         IN  /\ t \in [Holders -> [Mints -> Int]]
             /\ \A h \in Holders, n \in Mints :
                  /\ t[h][n] >= 0
                  /\ n # m => t[h][n] >= tok[h][n]
                  /\ h = SaAuthority =>
                       t[h][n] >= tok[h][n] -
                         (IF f.inSa /\ n = m
                          THEN TransferFee(m, SwapAmountIn(f, m, e)) ELSE 0)
<1> DEFINE e == escrow[k][m]
           temp == TempAmount(f, m, e)
           swap == SwapAmountIn(f, m, e)
           cost == TempFee(f, m, e) + VaultFee(f, m, e)
           paid == Credit(tok, f.payee, m, Net(m, cost))
<1>1. /\ order[k].open /\ e.open /\ SourceChecked(f, m, e, payer)
  BY DEF FillOrder
<1>2. /\ cost \in Nat /\ temp \in Nat /\ swap \in Nat
      /\ f.taken \in Nat /\ f.taken <= swap
      /\ f.payee \in Holders /\ payer \in Holders /\ SaAuthority \in Holders
      /\ payer # SaAuthority
      /\ f.temp \in BOOLEAN /\ f.inSa \in BOOLEAN
  <2>1. /\ TempFee(f, m, e) \in Nat /\ VaultFee(f, m, e) \in Nat
        /\ temp \in Nat /\ swap \in Nat /\ f.taken <= swap
    BY FillIn
  <2>2. f.taken \in Nat /\ f.payee \in Holders
        /\ f.temp \in BOOLEAN /\ f.inSa \in BOOLEAN
    BY <1>1, FillTypes
  <2> QED
    BY <2>1, <2>2, LimitOrderAssumption DEF Holders
<1>3. /\ Net(m, cost) \in Nat
      /\ Net(m, swap) \in Nat /\ TransferFee(m, swap) \in Nat
      /\ Net(m, swap) = swap - TransferFee(m, swap)
  BY <1>2, WithheldPart DEF Net
<1>4. /\ f.temp => ~f.inSa /\ tok[payer][m] + temp >= f.taken
      /\ ~f.temp /\ f.inSa => tok[SaAuthority][m] + Net(m, swap) >= f.taken
  BY <1>1 DEF SourceChecked
<1>5. AfterSwapIn(f, m, e, payer) =
        IF f.temp THEN Credit(paid, payer, m, temp - f.taken)
        ELSE IF f.inSa THEN Credit(paid, SaAuthority, m, Net(m, swap) - f.taken)
        ELSE paid
  BY DEF AfterSwapIn
<1> HIDE DEF e, temp, swap, cost, paid
<1>6. Credited(tok, paid, f.payee, m, Net(m, cost))
  BY <1>2, <1>3, BalancesAreIntegers, CreditEffect DEF paid
<1>7. /\ paid \in [Holders -> [Mints -> Int]]
      /\ \A h \in Holders, n \in Mints :
           tok[h][n] \in Nat /\ paid[h][n] \in Int /\ paid[h][n] >= tok[h][n]
  BY <1>3, <1>6, BalancesAreIntegers DEF Credited
<1> DEFINE t == AfterSwapIn(f, m, e, payer)
           Effect(h, n) ==
             /\ t[h][n] >= 0
             /\ n # m => t[h][n] >= tok[h][n]
             /\ h = SaAuthority =>
                  t[h][n] >= tok[h][n] -
                    (IF f.inSa /\ n = m THEN TransferFee(m, swap) ELSE 0)
<1>8. CASE f.temp
  <2> DEFINE x == temp - f.taken
  <2>1. x \in Int /\ tok[payer][m] + x >= 0
    BY <1>2, <1>4, <1>7, <1>8
  <2>2. t = Credit(paid, payer, m, x)
    BY <1>5, <1>8
  <2> HIDE DEF x, t
  <2>3. Credited(paid, t, payer, m, x)
    BY <1>2, <1>7, <2>1, <2>2, CreditEffect
  <2>4. ASSUME NEW h \in Holders, NEW n \in Mints PROVE Effect(h, n)
    BY <1>2, <1>3, <1>7, <2>1, <2>3 DEF Credited
  <2> QED
    BY <2>3, <2>4 DEF t, e, swap, Credited
<1>9. CASE ~f.temp /\ f.inSa
  <2> DEFINE x == Net(m, swap) - f.taken
  <2>1. x \in Int /\ tok[SaAuthority][m] + x >= 0 /\ x >= -TransferFee(m, swap)
    BY <1>2, <1>3, <1>4, <1>7, <1>9
  <2>2. t = Credit(paid, SaAuthority, m, x)
    BY <1>5, <1>9
  <2> HIDE DEF x, t
  <2>3. Credited(paid, t, SaAuthority, m, x)
    BY <1>2, <1>7, <2>1, <2>2, CreditEffect
  <2>4. ASSUME NEW h \in Holders, NEW n \in Mints PROVE Effect(h, n)
    BY <1>2, <1>3, <1>7, <1>9, <2>1, <2>3 DEF Credited
  <2> QED
    BY <2>3, <2>4 DEF t, e, swap, Credited
<1>10. CASE ~f.temp /\ ~f.inSa
  <2>1. t = paid
    BY <1>5, <1>10
  <2> HIDE DEF t
  <2>2. ASSUME NEW h \in Holders, NEW n \in Mints PROVE Effect(h, n)
    BY <1>7, <1>10, <2>1
  <2> QED
    BY <1>7, <2>1, <2>2 DEF t, e, swap
<1> QED
  BY <1>2, <1>8, <1>9, <1>10

(* The way out takes nothing from anybody, and brings the owner of the     *)
(* output account what the swap gave less the fees on it.                  *)
LEMMA SwapOutEffect ==
  ASSUME TypeOK, NEW payer \in Accounts, NEW k \in Keys, NEW m \in Mints,
         NEW f \in Fills, NEW asked \in AskedFees, FillOrder(payer, k, m, f, asked),
         NEW t \in [Holders -> [Mints -> Int]], NEW owner \in Holders
  PROVE  LET out == order[k].outMint
             s == AfterSwapOut(t, f, out, owner)
         IN  /\ s \in [Holders -> [Mints -> Int]]
             /\ \A h \in Holders, n \in Mints : s[h][n] >= t[h][n]
             /\ s[owner][out]
                  >= t[owner][out] + TakingAmount(f, out) - LateFee(f, out)
<1> DEFINE out == order[k].outMint
           fees == OutFee(f) + LateFee(f, out)
           gain == TakingAmount(f, out) - LateFee(f, out)
           paid == Credit(t, f.payee, out, Net(out, fees))
           handed == IF f.outSa
                     THEN Credit(paid, SaAuthority, out, f.got - OutFee(f) - HandedOver(f))
                     ELSE paid
           s == AfterSwapOut(t, f, out, owner)
<1>1. out \in Mints /\ f.payee \in Holders /\ f.got \in Nat /\ f.outSa \in BOOLEAN
  BY FillTypes DEF FillOrder
<1>2. /\ OutFee(f) \in Nat /\ HandedOver(f) \in Nat
      /\ TakingAmount(f, out) \in Nat /\ LateFee(f, out) \in 0..TakingAmount(f, out)
  BY FillOut
<1>3. fees \in Nat /\ gain \in Nat
  BY <1>2
<1>4. Net(out, fees) \in Nat
  BY <1>1, <1>3, WithheldPart
<1>5. f.got - OutFee(f) - HandedOver(f) = 0
  BY <1>1, <1>2 DEF HandedOver
<1>6. s = Credit(handed, owner, out, gain)
  BY DEF AfterSwapOut
<1> HIDE DEF out, fees, gain, paid, handed, s
<1>7. Credited(t, paid, f.payee, out, Net(out, fees))
  BY <1>1, <1>4, CreditEffect DEF paid
<1>8. /\ paid \in [Holders -> [Mints -> Int]]
      /\ \A h \in Holders, n \in Mints :
           t[h][n] \in Int /\ paid[h][n] \in Int /\ paid[h][n] >= t[h][n]
  BY <1>4, <1>7 DEF Credited
<1>9. /\ handed \in [Holders -> [Mints -> Int]]
      /\ \A h \in Holders, n \in Mints : handed[h][n] = paid[h][n]
  <2>1. SaAuthority \in Holders
    BY DEF Holders
  <2>2. CASE f.outSa
    <3>1. handed = Credit(paid, SaAuthority, out, 0)
      BY <1>5, <2>2 DEF handed
    <3>2. \A x \in Int : Credited(paid, Credit(paid, SaAuthority, out, x), SaAuthority, out, x)
      BY <1>1, <1>8, <2>1, CreditEffect
    <3>3. Credited(paid, handed, SaAuthority, out, 0)
      BY <3>1, <3>2
    <3> QED
      BY <1>8, <3>3 DEF Credited
  <2>3. CASE ~f.outSa
    BY <1>8, <2>3 DEF handed
  <2> QED
    BY <2>2, <2>3
<1>10. Credited(handed, s, owner, out, gain)
  BY <1>1, <1>3, <1>6, <1>9, CreditEffect
<1>11. /\ s \in [Holders -> [Mints -> Int]]
       /\ \A h \in Holders, n \in Mints : s[h][n] >= t[h][n]
  BY <1>3, <1>8, <1>9, <1>10 DEF Credited
<1>12. s[owner][out] >= t[owner][out] + gain
  BY <1>1, <1>3, <1>8, <1>9, <1>10 DEF Credited
<1>13. s[owner][out] >= t[owner][out] + TakingAmount(f, out) - LateFee(f, out)
  <2>1. t[owner][out] \in Int
    BY <1>1
  <2> QED
    BY <1>2, <1>12, <2>1 DEF gain
<1> QED
  BY <1>11, <1>13 DEF out, s

(* A fill leaves no balance negative, and the vault short of at most what  *)
(* the mint withholds from the pull.                                       *)
LEMMA FillTokens ==
  ASSUME TypeOK, NEW payer \in Accounts, NEW k \in Keys, NEW m \in Mints,
         NEW f \in Fills, NEW asked \in AskedFees, FillOrder(payer, k, m, f, asked)
  PROVE  /\ tok' \in [Holders -> [Mints -> Nat]]
         /\ \A n \in Mints :
              tok'[SaAuthority][n] >= tok[SaAuthority][n] -
                (IF f.inSa /\ n = m
                 THEN TransferFee(m, SwapAmountIn(f, m, escrow[k][m])) ELSE 0)
<1> DEFINE e == escrow[k][m]
           out == order[k].outMint
           owner == IF f.toPayer THEN payer ELSE Maker(k)
           t == AfterSwapIn(f, m, e, payer)
           s == AfterSwapOut(t, f, out, owner)
           lost(n) == IF f.inSa /\ n = m THEN TransferFee(m, SwapAmountIn(f, m, e)) ELSE 0
<1>1. payer \in Holders /\ owner \in Holders /\ SaAuthority \in Holders
      /\ payer # SaAuthority
  BY MakerType, LimitOrderAssumption DEF Holders
<1>2. /\ t \in [Holders -> [Mints -> Int]]
      /\ \A h \in Holders, n \in Mints :
           t[h][n] >= 0 /\ (h = SaAuthority => t[h][n] >= tok[h][n] - lost(n))
  BY SwapInEffect
<1>3. tok' = IF ToSol(f, out) THEN [s EXCEPT ![payer][Wsol] = 0] ELSE s
  BY DEF FillOrder
<1>4. \A n \in Mints : lost(n) \in Int /\ tok[SaAuthority][n] \in Nat
  <2>1. SwapAmountIn(f, m, e) \in Nat
    BY FillIn
  <2>2. TransferFee(m, SwapAmountIn(f, m, e)) \in Nat
    BY <2>1, WithheldPart
  <2> QED
    BY <1>1, <2>2, BalancesAreIntegers
<1> HIDE DEF owner, t, e, lost
<1>5. /\ s \in [Holders -> [Mints -> Int]]
      /\ \A h \in Holders, n \in Mints : s[h][n] >= t[h][n]
  BY <1>1, <1>2, SwapOutEffect
<1> HIDE DEF s, out
<1>6. \A h \in Holders, n \in Mints :
        s[h][n] \in Int /\ s[h][n] >= 0
        /\ (h = SaAuthority => s[h][n] >= tok[h][n] - lost(n))
  <2> SUFFICES ASSUME NEW h \in Holders, NEW n \in Mints
               PROVE  s[h][n] \in Int /\ s[h][n] >= 0
                      /\ (h = SaAuthority => s[h][n] >= tok[h][n] - lost(n))
    OBVIOUS
  <2>1. s[h][n] \in Int /\ t[h][n] \in Int
    BY <1>2, <1>5
  <2> QED
    BY <1>2, <1>4, <1>5, <2>1
<1>7. /\ tok' \in [Holders -> [Mints -> Int]]
      /\ \A h \in Holders, n \in Mints :
           \/ tok'[h][n] = s[h][n]
           \/ h = payer /\ tok'[h][n] = 0
  <2>1. CASE ToSol(f, out)
    <3>1. Wsol \in Mints /\ tok' = [s EXCEPT ![payer][Wsol] = 0]
      BY <1>3, <2>1, LimitOrderAssumption
    <3>2. s \in [Holders -> [Mints -> Int]]
      BY <1>5
    <3>3. /\ tok' \in [Holders -> [Mints -> Int]]
          /\ \A h \in Holders, n \in Mints :
               tok'[h][n] = IF h = payer /\ n = Wsol THEN 0 ELSE s[h][n]
      BY <1>1, <3>1, <3>2, EmptiedEffect
    <3> QED
      BY <3>3
  <2>2. CASE ~ToSol(f, out)
    <3>1. tok' = s
      BY <1>3, <2>2
    <3> QED
      BY <1>5, <3>1
  <2> QED
    BY <2>1, <2>2
<1>8. tok' \in [Holders -> [Mints -> Nat]]
  <2>1. \A h \in Holders, n \in Mints : tok'[h][n] >= 0
    BY <1>6, <1>7
  <2>2. tok' \in [Holders -> [Mints -> Int]]
    BY <1>7
  <2> QED
    BY <2>1, <2>2, TokensType, Zenon
<1>9. \A n \in Mints : tok'[SaAuthority][n] >= tok[SaAuthority][n] - lost(n)
  BY <1>1, <1>6, <1>7
<1> QED
  BY <1>8, <1>9 DEF lost, e

(* How an order pays out its lamports.                                     *)
LEMMA CloseSol ==
  ASSUME TypeOK, NEW k \in Keys, NEW m \in Mints, NEW rest \in Nat,
         NEW payer \in Accounts, NEW fee \in Nat, NEW s \in [Accounts -> Nat],
         CloseOrder(k, m, rest, payer, fee, s), FeeCovered(k, fee) \/ fee = 0
  PROVE  /\ sol' \in [Accounts -> Nat]
         /\ \A a \in Accounts : sol'[a] >= s[a]
         /\ FeeCovered(k, fee)
              => sol'[Maker(k)] >= s[Maker(k)] + TOKEN_ACCOUNT_RENT + ORDER_MIN_RENT
<1> DEFINE r == CreditSol(s, payer, fee)
           x == TOKEN_ACCOUNT_RENT + rest + orderSol[k] - fee
<1>1. /\ orderSol[k] \in Nat /\ TOKEN_ACCOUNT_RENT \in Nat /\ ORDER_MIN_RENT \in Nat
      /\ Maker(k) \in Accounts
  BY LimitOrderAssumption, MakerType DEF TypeOK
<1>2. /\ x \in Nat
      /\ FeeCovered(k, fee) => x >= TOKEN_ACCOUNT_RENT + ORDER_MIN_RENT
  BY <1>1 DEF FeeCovered
<1>3. sol' = CreditSol(r, Maker(k), x)
  BY DEF CloseOrder
<1> HIDE DEF r, x
<1>4. CreditedSol(s, r, payer, fee)
  <2>1. s \in [Accounts -> Int] /\ fee \in Int
    OBVIOUS
  <2> QED
    BY <2>1, CreditSolEffect DEF r
<1>5. r \in [Accounts -> Int] /\ \A a \in Accounts : r[a] \in Int /\ r[a] >= s[a]
  BY <1>4 DEF CreditedSol
<1>6. CreditedSol(r, sol', Maker(k), x)
  BY <1>1, <1>2, <1>3, <1>5, CreditSolEffect
<1>7. /\ sol' \in [Accounts -> Int]
      /\ \A a \in Accounts : sol'[a] >= s[a] /\ sol'[a] >= 0
  BY <1>2, <1>5, <1>6 DEF CreditedSol
<1>8. FeeCovered(k, fee)
        => sol'[Maker(k)] >= s[Maker(k)] + TOKEN_ACCOUNT_RENT + ORDER_MIN_RENT
  BY <1>1, <1>2, <1>5, <1>6 DEF CreditedSol
<1> QED
  BY <1>7, <1>8, SolType

(* Before the maker is paid in SOL, and the rest of its output account     *)
(* goes to the payer, nobody's lamports get less.                          *)
LEMMA SolAfterSwapType ==
  ASSUME TypeOK, NEW payer \in Accounts, NEW k \in Keys, NEW m \in Mints,
         NEW f \in Fills, NEW asked \in AskedFees, FillOrder(payer, k, m, f, asked)
  PROVE  LET e == escrow[k][m]
             out == order[k].outMint
             owner == IF f.toPayer THEN payer ELSE Maker(k)
             t == AfterSwapIn(f, m, e, payer)
             s == AfterSwapOut(t, f, out, owner)
             r == SolAfterSwap(f, k, payer, s)
             gain == TakingAmount(f, out) - LateFee(f, out)
         IN  /\ r \in [Accounts -> Nat]
             /\ \A a \in Accounts : r[a] >= sol[a]
             /\ ToSol(f, out) => r[Maker(k)] >= sol[Maker(k)] + gain
             /\ ToSol(f, out) /\ payer = Maker(k) /\ out # m
                  => r[payer] >= sol[payer] + tok[payer][Wsol] + gain
<1> DEFINE e == escrow[k][m]
           out == order[k].outMint
           owner == IF f.toPayer THEN payer ELSE Maker(k)
           t == AfterSwapIn(f, m, e, payer)
           s == AfterSwapOut(t, f, out, owner)
           r == SolAfterSwap(f, k, payer, s)
           gain == TakingAmount(f, out) - LateFee(f, out)
<1>1. CASE ~ToSol(f, out)
  <2>1. r = sol
    BY <1>1 DEF SolAfterSwap
  <2>2. sol \in [Accounts -> Nat]
    BY DEF TypeOK
  <2>3. \A a \in Accounts : sol[a] >= sol[a]
    BY <2>2
  <2> QED
    BY <1>1, <2>1, <2>2, <2>3
<1>2. CASE ToSol(f, out)
  <2> DEFINE x == s[payer][Wsol] + TOKEN_ACCOUNT_RENT
                  - TakingAmount(f, Wsol) + LateFee(f, Wsol)
             r1 == CreditSol(sol, payer, x)
  <2>1. out = Wsol /\ owner = payer /\ payer \in Holders /\ Wsol \in Mints
        /\ Maker(k) \in Accounts /\ TOKEN_ACCOUNT_RENT \in Nat
    BY <1>2, MakerType, LimitOrderAssumption DEF ToSol, Holders
  <2>2. TakingAmount(f, out) \in Nat /\ LateFee(f, out) \in Nat /\ gain \in Nat
    BY FillOut
  <2>3. r = CreditSol(r1, Maker(k), gain)
    BY <1>2, <2>1 DEF SolAfterSwap
  <2>4. /\ t \in [Holders -> [Mints -> Int]]
        /\ \A h \in Holders, n \in Mints :
             t[h][n] >= 0 /\ (n # m => t[h][n] >= tok[h][n])
    BY SwapInEffect
  <2> HIDE DEF t
  <2>5. /\ s \in [Holders -> [Mints -> Int]]
        /\ s[payer][Wsol] >= t[payer][Wsol] + TakingAmount(f, out) - LateFee(f, out)
    BY <2>1, <2>4, SwapOutEffect
  <2>6. t[payer][Wsol] \in Int /\ s[payer][Wsol] \in Int /\ tok[payer][Wsol] \in Nat
    BY <2>1, <2>4, <2>5, BalancesAreIntegers
  <2> HIDE DEF s, r
  <2>7. x \in Nat /\ (out # m => x >= tok[payer][Wsol])
    BY <2>1, <2>2, <2>4, <2>5, <2>6
  <2> HIDE DEF x, gain, r1
  <2>8. CreditedSol(sol, r1, payer, x)
    BY <2>7, BalancesAreIntegers, CreditSolEffect DEF r1
  <2>9. r1 \in [Accounts -> Int] /\ \A a \in Accounts : r1[a] \in Int
    BY <2>8 DEF CreditedSol
  <2>10. CreditedSol(r1, r, Maker(k), gain)
    BY <2>1, <2>2, <2>3, <2>9, CreditSolEffect
  <2>11. /\ r \in [Accounts -> Int]
         /\ \A a \in Accounts : r[a] >= sol[a] /\ r[a] >= 0
    BY <2>2, <2>7, <2>8, <2>10, BalancesAreIntegers DEF CreditedSol
  <2>12. r[Maker(k)] >= sol[Maker(k)] + gain
    BY <2>1, <2>2, <2>7, <2>8, <2>10, BalancesAreIntegers DEF CreditedSol
  <2>13. ASSUME payer = Maker(k), out # m
         PROVE  r[payer] >= sol[payer] + tok[payer][Wsol] + gain
    BY <2>1, <2>2, <2>6, <2>7, <2>8, <2>10, <2>13, BalancesAreIntegers DEF CreditedSol
  <2>14. r \in [Accounts -> Nat]
    BY <2>11, SolType
  <2> QED
    BY <2>11, <2>12, <2>13, <2>14 DEF r, s, t, gain
<1> QED
  BY <1>1, <1>2

LEMMA FillSol ==
  ASSUME TypeOK, NEW payer \in Accounts, NEW k \in Keys, NEW m \in Mints,
         NEW f \in Fills, NEW asked \in AskedFees, FillOrder(payer, k, m, f, asked)
  PROVE  LET out == order[k].outMint
             gain == TakingAmount(f, out) - LateFee(f, out)
             rents == TOKEN_ACCOUNT_RENT + ORDER_MIN_RENT
         IN  /\ sol' \in [Accounts -> Nat]
             /\ sol'[Maker(k)] >= sol[Maker(k)] + rents
             /\ ToSol(f, out) => sol'[Maker(k)] >= sol[Maker(k)] + gain + rents
             /\ ToSol(f, out) /\ payer = Maker(k) /\ out # m
                  => sol'[Maker(k)] >= sol[Maker(k)] + tok[payer][Wsol] + gain + rents
<1> DEFINE e == escrow[k][m]
           out == order[k].outMint
           owner == IF f.toPayer THEN payer ELSE Maker(k)
           s == AfterSwapOut(AfterSwapIn(f, m, e, payer), f, out, owner)
           r == SolAfterSwap(f, k, payer, s)
           gain == TakingAmount(f, out) - LateFee(f, out)
           fee == CollectedFee(asked)
<1>1. /\ ~Paused /\ FeeCovered(k, fee)
      /\ CloseOrder(k, m, EscrowRest(f, m, e), payer, fee, r)
  BY DEF FillOrder
<1>2. fee \in Nat /\ EscrowRest(f, m, e) \in Nat /\ gain \in Nat
      /\ Maker(k) \in Accounts /\ sol[Maker(k)] \in Nat /\ tok[payer][Wsol] \in Nat
  <2>1. gain \in Nat
    BY FillOut
  <2>2. payer \in Holders /\ Wsol \in Mints
    BY LimitOrderAssumption DEF Holders
  <2> QED
    BY <1>1, <2>1, <2>2, CollectedFeeType, FillIn, MakerType, BalancesAreIntegers
<1>3. /\ r \in [Accounts -> Nat]
      /\ r[Maker(k)] >= sol[Maker(k)]
      /\ ToSol(f, out) => r[Maker(k)] >= sol[Maker(k)] + gain
      /\ ToSol(f, out) /\ payer = Maker(k) /\ out # m
           => r[payer] >= sol[payer] + tok[payer][Wsol] + gain
  BY <1>2, SolAfterSwapType
<1> HIDE DEF e, r, fee, gain
<1>4. /\ sol' \in [Accounts -> Nat]
      /\ sol'[Maker(k)] >= r[Maker(k)] + TOKEN_ACCOUNT_RENT + ORDER_MIN_RENT
  BY <1>1, <1>2, <1>3, CloseSol
<1>5. r[Maker(k)] \in Nat /\ sol'[Maker(k)] \in Nat
      /\ TOKEN_ACCOUNT_RENT \in Nat /\ ORDER_MIN_RENT \in Nat
  BY <1>2, <1>3, <1>4, LimitOrderAssumption
<1> QED
  BY <1>2, <1>3, <1>4, <1>5 DEF gain

-----------------------------------------------------------------------------
(* Orders and their escrows.                                               *)

(* The escrow that is open is the order's.                                 *)
LEMMA OrderShape ==
  ASSUME IInv, NEW k \in Keys, order[k].open
  PROVE  /\ order[k] \in OrderTerms
         /\ order[k].making \in Nat \ {0}
         /\ order[k].inMint \in Mints /\ order[k].outMint \in Mints
         /\ order[k].inMint # order[k].outMint
         /\ order[k].minReturn \in Nat
         /\ \A m \in Mints : escrow[k][m].open <=> order[k].inMint = m
         /\ \A m \in Mints : escrow[k][m].open => escrow[k][m].amount >= order[k].making
<1>1. order[k] \in OrderTerms
  BY DEF IInv, TypeOK, NoOrder
<1>2. /\ order[k].making \in Nat /\ order[k].minReturn \in Nat
      /\ order[k].inMint \in Mints /\ order[k].outMint \in Mints
  BY <1>1 DEF OrderTerms
<1>3. \A m \in Mints : escrow[k][m].open <=> order[k].inMint = m
  BY DEF IInv, EscrowMatchesOrder
<1>4. /\ order[k].making > 0 /\ order[k].inMint # order[k].outMint
      /\ escrow[k][order[k].inMint].amount >= order[k].making
  BY DEF IInv, OrderBacked, OpenOrders
<1> QED
  BY <1>1, <1>2, <1>3, <1>4

(* What the invariant says of one order: a step that leaves all but one    *)
(* order alone has only that one to answer for.                            *)
OrderSound(k) ==
  /\ \A m \in Mints : escrow[k][m].open <=> order[k].open /\ order[k].inMint = m
  /\ order[k].open =>
       /\ escrow[k][order[k].inMint].amount >= order[k].making
       /\ orderSol[k] = ORDER_MIN_RENT + prepaid[k]
       /\ order[k].making > 0
       /\ order[k].inMint # order[k].outMint
       /\ order[k].minReturn \in 1..order[k].expect
       /\ order[k].deadline >= order[k].created + MIN_DEADLINE
       /\ order[k].created <= now

LEMMA OrdersSound == IInv <=> TypeOK /\ \A k \in Keys : OrderSound(k)
BY DEF IInv, EscrowMatchesOrder, OrderBacked, CreatedBefore, OpenOrders, OrderSound

LEMMA OrdersSoundNext == TypeOK' /\ (\A k \in Keys : OrderSound(k)') => IInv'
BY DEF IInv, EscrowMatchesOrder, OrderBacked, CreatedBefore, OpenOrders, OrderSound

LEMMA SoundUnchanged ==
  ASSUME NEW k \in Keys, OrderSound(k), now' = now, order'[k] = order[k],
         escrow'[k] = escrow[k], orderSol'[k] = orderSol[k], prepaid'[k] = prepaid[k]
  PROVE  OrderSound(k)'
BY DEF OrderSound

(* An order that closes leaves nothing behind.                             *)
LEMMA CloseKeeps ==
  ASSUME IInv, NEW k \in Keys, NEW m \in Mints, order[k].open, escrow[k][m].open,
         NEW rest, NEW payer, NEW fee, NEW s,
         CloseOrder(k, m, rest, payer, fee, s), now' = now
  PROVE  /\ order' \in [Keys -> OrderTerms \cup {NoOrder}]
         /\ escrow' \in [Keys -> [Mints -> Escrows]]
         /\ orderSol' \in [Keys -> Nat] /\ prepaid' \in [Keys -> Nat]
         /\ \A j \in Keys : OrderSound(j)'
<1>1. /\ order' = [order EXCEPT ![k] = NoOrder]
      /\ escrow' = [escrow EXCEPT ![k][m] = NoEscrow]
      /\ orderSol' = [orderSol EXCEPT ![k] = 0]
      /\ prepaid' = [prepaid EXCEPT ![k] = 0]
  BY DEF CloseOrder, EscrowClosed
<1>2. TypeOK /\ \A j \in Keys : OrderSound(j)
  BY OrdersSound
<1>3. NoEscrow \in Escrows /\ ~NoEscrow.open /\ ~NoOrder.open
  BY DEF NoEscrow, Escrows, NoOrder
<1>4. /\ order' \in [Keys -> OrderTerms \cup {NoOrder}]
      /\ escrow' \in [Keys -> [Mints -> Escrows]]
      /\ orderSol' \in [Keys -> Nat] /\ prepaid' \in [Keys -> Nat]
  BY <1>1, <1>2, <1>3 DEF TypeOK
<1>5. \A n \in Mints : ~escrow'[k][n].open
  BY <1>1, <1>2, <1>3, OrderShape DEF TypeOK
<1>6. ~order'[k].open
  BY <1>1, <1>2, <1>3 DEF TypeOK
<1>7. OrderSound(k)'
  BY <1>5, <1>6 DEF OrderSound
<1>8. ASSUME NEW j \in Keys, j # k PROVE OrderSound(j)'
  BY <1>1, <1>2, <1>8, SoundUnchanged DEF TypeOK
<1> QED
  BY <1>4, <1>7, <1>8

-----------------------------------------------------------------------------
(* The steps.                                                              *)

LEMMA FillStep ==
  ASSUME IInv, NEW payer \in Accounts, NEW k \in Keys, NEW m \in Mints,
         NEW f \in Fills, NEW asked \in AskedFees, FillOrder(payer, k, m, f, asked)
  PROVE  IInv'
<1>1. TypeOK /\ order[k].open /\ escrow[k][m].open
      /\ UNCHANGED <<config, now, withheldRate, placed>>
  BY DEF FillOrder, IInv
<1>2. PICK fee, s : CloseOrder(k, m, EscrowRest(f, m, escrow[k][m]), payer, fee, s)
  BY DEF FillOrder
<1>3. /\ order' \in [Keys -> OrderTerms \cup {NoOrder}]
      /\ escrow' \in [Keys -> [Mints -> Escrows]]
      /\ orderSol' \in [Keys -> Nat] /\ prepaid' \in [Keys -> Nat]
      /\ \A j \in Keys : OrderSound(j)'
  BY <1>1, <1>2, CloseKeeps
<1>4. tok' \in [Holders -> [Mints -> Nat]] /\ sol' \in [Accounts -> Nat]
  BY <1>1, FillTokens, FillSol
<1>5. TypeOK'
  BY <1>1, <1>3, <1>4 DEF TypeOK
<1> QED
  BY <1>3, <1>5, OrdersSoundNext

(* A cancellation returns the escrow, and no balance gets less.            *)
LEMMA CancelEffect ==
  ASSUME IInv, NEW payer \in Accounts, NEW refundTo \in Accounts, NEW k \in Keys,
         NEW m \in Mints, NEW asked \in AskedFees,
         CancelOrder(payer, k, m, refundTo, asked)
  PROVE  /\ tok' \in [Holders -> [Mints -> Nat]]
         /\ tok'[refundTo][m] = tok[refundTo][m] + Net(m, escrow[k][m].amount)
         /\ tok'[SaAuthority] = tok[SaAuthority]
         /\ sol' \in [Accounts -> Nat]
         /\ sol'[Maker(k)] >= sol[Maker(k)] + TOKEN_ACCOUNT_RENT + ORDER_MIN_RENT
<1> DEFINE e == escrow[k][m]
           fee == CancelFee(payer, k, asked)
           x == Net(m, e.amount)
<1>1. /\ ~Paused /\ order[k].open /\ e.open
      /\ payer # Maker(k) => FeeCovered(k, fee)
      /\ tok' = Credit(tok, refundTo, m, x)
      /\ CloseOrder(k, m, 0, payer, fee, sol)
  BY DEF CancelOrder
<1>2. TypeOK /\ OrderSound(k)
  BY OrdersSound
<1>3. fee \in Nat /\ FeeCovered(k, fee)
  <2>1. fee \in Nat
    BY <1>1, <1>2, CollectedFeeType DEF CancelFee
  <2>2. orderSol[k] >= 0 + ORDER_MIN_RENT
    <3>1. orderSol[k] = ORDER_MIN_RENT + prepaid[k]
      BY <1>1, <1>2 DEF OrderSound
    <3> QED
      BY <1>2, <3>1, LimitOrderAssumption DEF TypeOK
  <2>3. payer = Maker(k) => fee = 0
    BY DEF CancelFee
  <2> QED
    BY <1>1, <2>1, <2>2, <2>3 DEF FeeCovered
<1>4. x \in Nat
  <2>1. e.amount \in Nat
    BY <1>2 DEF TypeOK, Escrows
  <2> QED
    BY <1>2, <2>1, WithheldPart
<1> HIDE DEF fee, e, x
<1>5. /\ sol' \in [Accounts -> Nat]
      /\ sol'[Maker(k)] >= sol[Maker(k)] + TOKEN_ACCOUNT_RENT + ORDER_MIN_RENT
  <2>1. sol \in [Accounts -> Nat] /\ 0 \in Nat
    BY <1>2 DEF TypeOK
  <2> QED
    BY <1>1, <1>2, <1>3, <2>1, CloseSol
<1>6. refundTo \in Holders /\ SaAuthority \in Holders /\ refundTo # SaAuthority
  BY LimitOrderAssumption DEF Holders
<1>7. Credited(tok, tok', refundTo, m, x)
  BY <1>1, <1>2, <1>4, <1>6, BalancesAreIntegers, CreditEffect
<1>8. /\ tok' \in [Holders -> [Mints -> Int]]
      /\ \A h \in Holders, n \in Mints : tok'[h][n] >= 0
      /\ tok'[refundTo][m] = tok[refundTo][m] + x
      /\ \A n \in Mints : tok'[SaAuthority][n] = tok[SaAuthority][n]
  BY <1>2, <1>4, <1>6, <1>7, BalancesAreIntegers DEF Credited
<1>9. tok' \in [Holders -> [Mints -> Nat]]
  BY <1>8, TokensType
<1>10. tok'[SaAuthority] = tok[SaAuthority]
  <2>1. tok'[SaAuthority] \in [Mints -> Nat] /\ tok[SaAuthority] \in [Mints -> Nat]
    BY <1>2, <1>6, <1>9 DEF TypeOK
  <2> QED
    BY <1>8, <2>1
<1> QED
  BY <1>5, <1>8, <1>9, <1>10 DEF x, e

LEMMA CancelStep ==
  ASSUME IInv, NEW payer \in Accounts, NEW refundTo \in Accounts, NEW k \in Keys,
         NEW m \in Mints, NEW asked \in AskedFees,
         CancelOrder(payer, k, m, refundTo, asked)
  PROVE  IInv'
<1>1. TypeOK /\ order[k].open /\ escrow[k][m].open
      /\ UNCHANGED <<config, now, withheldRate, placed>>
  BY DEF CancelOrder, IInv
<1>2. PICK fee : CloseOrder(k, m, 0, payer, fee, sol)
  BY DEF CancelOrder
<1>3. /\ order' \in [Keys -> OrderTerms \cup {NoOrder}]
      /\ escrow' \in [Keys -> [Mints -> Escrows]]
      /\ orderSol' \in [Keys -> Nat] /\ prepaid' \in [Keys -> Nat]
      /\ \A j \in Keys : OrderSound(j)'
  BY <1>1, <1>2, CloseKeeps
<1>4. tok' \in [Holders -> [Mints -> Nat]] /\ sol' \in [Accounts -> Nat]
  BY CancelEffect
<1>5. TypeOK'
  BY <1>1, <1>3, <1>4 DEF TypeOK
<1> QED
  BY <1>3, <1>5, OrdersSoundNext

LEMMA PlaceStep ==
  ASSUME IInv, NEW k \in Keys, NEW p \in Placements, PlaceOrder(k, p)
  PROVE  IInv'
<1> DEFINE maker == Maker(k)
           cost == p.fee + ORDER_MIN_RENT + TOKEN_ACCOUNT_RENT
           arrived == Net(p.inMint, p.making)
           newOrder == [open |-> TRUE, making |-> arrived,
                        expect |-> p.expect, minReturn |-> p.minReturn,
                        created |-> now, deadline |-> now + p.wait,
                        inMint |-> p.inMint, outMint |-> p.outMint]
           newEscrow == [amount |-> arrived, open |-> TRUE,
                         withheld |-> TransferFee(p.inMint, p.making)]
<1>1. TypeOK /\ \A j \in Keys : OrderSound(j)
  BY OrdersSound
<1>2. /\ p.inMint \in Mints /\ p.outMint \in Mints /\ p.making \in Nat
      /\ p.expect \in Nat /\ p.minReturn \in Nat /\ p.wait \in Nat /\ p.fee \in Nat
      /\ ORDER_MIN_RENT \in Nat /\ TOKEN_ACCOUNT_RENT \in Nat /\ MIN_DEADLINE \in Nat
  BY LimitOrderAssumption
<1>3. /\ ~order[k].open /\ p.wait >= MIN_DEADLINE /\ p.inMint # p.outMint
      /\ p.minReturn \in 1..p.expect /\ arrived > 0
      /\ sol[maker] >= cost /\ tok[maker][p.inMint] >= p.making
  BY DEF PlaceOrder
<1>4. /\ order' = [order EXCEPT ![k] = newOrder]
      /\ escrow' = [escrow EXCEPT ![k][p.inMint] = newEscrow]
      /\ orderSol' = [orderSol EXCEPT ![k] = ORDER_MIN_RENT + p.fee]
      /\ prepaid' = [prepaid EXCEPT ![k] = p.fee]
      /\ tok' = Credit(tok, maker, p.inMint, -p.making)
      /\ sol' = CreditSol(sol, maker, -cost)
      /\ placed' = placed + 1
      /\ UNCHANGED <<config, now, withheldRate>>
  BY DEF PlaceOrder, RecordedAmount
<1>5. arrived \in Nat /\ TransferFee(p.inMint, p.making) \in Nat
  BY <1>1, <1>2, WithheldPart
<1> HIDE DEF maker, cost, arrived
<1>6. newOrder \in OrderTerms /\ newEscrow \in Escrows
  BY <1>1, <1>2, <1>5 DEF OrderTerms, Escrows, TypeOK
<1>7. /\ order' \in [Keys -> OrderTerms \cup {NoOrder}]
      /\ escrow' \in [Keys -> [Mints -> Escrows]]
      /\ orderSol' \in [Keys -> Nat] /\ prepaid' \in [Keys -> Nat]
  <2> HIDE DEF newOrder, newEscrow
  <2> QED
    BY <1>1, <1>2, <1>4, <1>6 DEF TypeOK
<1>8. tok' \in [Holders -> [Mints -> Nat]]
  <2>1. maker \in Holders /\ -p.making \in Int
    BY <1>2, MakerType DEF maker
  <2>2. Credited(tok, tok', maker, p.inMint, -p.making)
    BY <1>1, <1>2, <1>4, <2>1, BalancesAreIntegers, CreditEffect
  <2>3. /\ tok' \in [Holders -> [Mints -> Int]]
        /\ \A h \in Holders, n \in Mints : tok'[h][n] >= 0
    BY <1>1, <1>2, <1>3, <2>1, <2>2, BalancesAreIntegers DEF Credited
  <2> QED
    BY <2>3, TokensType
<1>9. sol' \in [Accounts -> Nat]
  <2>1. maker \in Accounts /\ cost \in Nat /\ -cost \in Int
    BY <1>2, MakerType DEF maker, cost
  <2>2. CreditedSol(sol, sol', maker, -cost)
    BY <1>1, <1>4, <2>1, BalancesAreIntegers, CreditSolEffect
  <2>3. /\ sol' \in [Accounts -> Int]
        /\ \A a \in Accounts : sol'[a] >= 0
    BY <1>1, <1>3, <2>1, <2>2, BalancesAreIntegers DEF CreditedSol
  <2> QED
    BY <2>3, SolType
<1>10. TypeOK'
  BY <1>1, <1>4, <1>7, <1>8, <1>9 DEF TypeOK
<1>11. OrderSound(k)'
  <2>1. /\ order'[k] = newOrder /\ orderSol'[k] = ORDER_MIN_RENT + p.fee
        /\ prepaid'[k] = p.fee
    BY <1>1, <1>4 DEF TypeOK
  <2>2. \A n \in Mints :
          escrow'[k][n] = IF n = p.inMint THEN newEscrow ELSE escrow[k][n]
    BY <1>1, <1>2, <1>4 DEF TypeOK
  <2>3. \A n \in Mints : ~escrow[k][n].open
    BY <1>1, <1>3 DEF OrderSound
  <2>4. now \in Nat /\ now' = now
    BY <1>1, <1>4 DEF TypeOK
  <2> QED
    BY <1>2, <1>3, <1>5, <2>1, <2>2, <2>3, <2>4 DEF OrderSound
<1>12. ASSUME NEW j \in Keys, j # k PROVE OrderSound(j)'
  BY <1>1, <1>4, <1>12, SoundUnchanged DEF TypeOK
<1> QED
  BY <1>10, <1>11, <1>12, OrdersSoundNext

LEMMA UpdateStep ==
  ASSUME IInv, NEW k \in Keys, NEW u \in Updates, UpdateOrder(k, u)
  PROVE  IInv'
<1> DEFINE o == order[k]
           expect == Updated(o.expect, u.expect)
           minReturn == Updated(o.minReturn, u.minReturn)
           deadline == IF u.wait > 0 THEN now + u.wait ELSE o.deadline
<1>1. TypeOK /\ \A j \in Keys : OrderSound(j)
  BY OrdersSound
<1>2. u.expect \in Nat /\ u.minReturn \in Nat /\ u.wait \in Nat /\ u.fee \in Nat
      /\ ORDER_MIN_RENT \in Nat /\ MIN_DEADLINE \in Nat
  BY LimitOrderAssumption
<1>3. /\ o.open /\ minReturn <= expect
      /\ u.wait > 0 => u.wait >= MIN_DEADLINE
      /\ sol[Maker(k)] >= u.fee
      /\ orderSol' = [orderSol EXCEPT ![k] = @ + u.fee]
      /\ prepaid' = [prepaid EXCEPT ![k] = @ + u.fee]
      /\ sol' = CreditSol(sol, Maker(k), -u.fee)
      /\ UNCHANGED <<config, now, withheldRate, escrow, tok, placed>>
  BY DEF UpdateOrder, UpdateSound
<1>4. o \in OrderTerms
  BY <1>1, <1>3 DEF TypeOK, NoOrder
<1>5. /\ o.expect \in Nat /\ o.minReturn \in Nat /\ o.deadline \in Nat
      /\ o.created \in Nat /\ now \in Nat
      /\ o.minReturn \in 1..o.expect
      /\ o.deadline >= o.created + MIN_DEADLINE /\ o.created <= now
  BY <1>1, <1>3, <1>4 DEF OrderTerms, OrderSound, TypeOK
<1>6. /\ expect \in Nat /\ deadline \in Nat
      /\ minReturn \in 1..expect
      /\ deadline >= o.created + MIN_DEADLINE
  BY <1>2, <1>3, <1>5 DEF Updated
<1>7. order' = [order EXCEPT ![k] = [o EXCEPT !.expect = expect,
                                             !.minReturn = minReturn,
                                             !.deadline = deadline]]
  BY <1>1, <1>4 DEF UpdateOrder, TypeOK, OrderTerms
<1> HIDE DEF expect, minReturn, deadline
<1> DEFINE updated == [o EXCEPT !.expect = expect, !.minReturn = minReturn,
                                !.deadline = deadline]
<1>8. /\ updated \in OrderTerms
      /\ updated.open /\ updated.expect = expect /\ updated.minReturn = minReturn
      /\ updated.deadline = deadline /\ updated.created = o.created
      /\ updated.making = o.making
      /\ updated.inMint = o.inMint /\ updated.outMint = o.outMint
  <2>1. minReturn \in Nat /\ expect \in Nat /\ deadline \in Nat
    BY <1>6
  <2> HIDE DEF o
  <2>2. updated \in OrderTerms
    BY <1>4, <2>1 DEF OrderTerms
  <2> QED
    BY <1>3, <1>4, <2>1, <2>2 DEF OrderTerms
<1> HIDE DEF updated
<1>9. order'[k] = updated
  BY <1>1, <1>7 DEF TypeOK, updated
<1>10. /\ order' \in [Keys -> OrderTerms \cup {NoOrder}]
       /\ \A j \in Keys : j # k => order'[j] = order[j]
  <2>1. order' = [order EXCEPT ![k] = updated]
    BY <1>7 DEF updated
  <2> QED
    BY <1>1, <1>8, <2>1 DEF TypeOK
<1>11. orderSol' \in [Keys -> Nat] /\ prepaid' \in [Keys -> Nat]
  BY <1>1, <1>2, <1>3 DEF TypeOK
<1>12. sol' \in [Accounts -> Nat]
  <2>1. Maker(k) \in Accounts /\ -u.fee \in Int
    BY <1>2, MakerType
  <2>2. CreditedSol(sol, sol', Maker(k), -u.fee)
    BY <1>1, <1>3, <2>1, BalancesAreIntegers, CreditSolEffect
  <2>3. /\ sol' \in [Accounts -> Int]
        /\ \A a \in Accounts : sol'[a] >= 0
    BY <1>1, <1>2, <1>3, <2>1, <2>2, BalancesAreIntegers DEF CreditedSol
  <2> QED
    BY <2>3, SolType
<1>13. TypeOK'
  BY <1>1, <1>3, <1>10, <1>11, <1>12 DEF TypeOK
<1>14. OrderSound(k)'
  <2>1. /\ orderSol'[k] = orderSol[k] + u.fee /\ prepaid'[k] = prepaid[k] + u.fee
        /\ orderSol[k] \in Nat /\ prepaid[k] \in Nat
    BY <1>1, <1>3 DEF TypeOK
  <2>2. OrderSound(k)
    BY <1>1
  <2> QED
    BY <1>2, <1>3, <1>5, <1>6, <1>8, <1>9, <2>1, <2>2 DEF OrderSound
<1>15. ASSUME NEW j \in Keys, j # k PROVE OrderSound(j)'
  BY <1>1, <1>3, <1>10, <1>15, SoundUnchanged DEF TypeOK
<1> QED
  BY <1>13, <1>14, <1>15, OrdersSoundNext

LEMMA DonateStep ==
  ASSUME IInv, NEW who \in Donors, NEW k \in Keys, NEW m \in Mints, Donate(who, k, m)
  PROVE  IInv'
<1> DEFINE e == escrow[k][m]
           donated == [e EXCEPT !.amount = @ + Net(m, 1),
                                !.withheld = @ + TransferFee(m, 1)]
<1>1. TypeOK /\ \A j \in Keys : OrderSound(j)
  BY OrdersSound
<1>2. /\ e.open /\ tok[who][m] > 0
      /\ tok' = Credit(tok, who, m, -1)
      /\ UNCHANGED <<config, now, withheldRate, order, orderSol, sol, prepaid, placed>>
  BY DEF Donate
<1>3. e \in Escrows /\ e.amount \in Nat /\ e.withheld \in Nat
  BY <1>1 DEF TypeOK, Escrows
<1>4. Net(m, 1) \in Nat /\ TransferFee(m, 1) \in Nat
  BY <1>1, WithheldPart
<1>5. escrow' = [escrow EXCEPT ![k] = [escrow[k] EXCEPT ![m] = donated]]
  BY <1>1, <1>3 DEF Donate, TypeOK, Escrows
<1> HIDE DEF e
<1>6. /\ donated \in Escrows /\ donated.open /\ donated.amount >= e.amount
  <2>1. /\ e.amount + Net(m, 1) \in Nat /\ e.withheld + TransferFee(m, 1) \in Nat
        /\ e.amount + Net(m, 1) >= e.amount
    BY <1>3, <1>4
  <2>2. donated \in Escrows
    BY <1>3, <2>1 DEF Escrows
  <2>3. donated.open = e.open /\ donated.amount = e.amount + Net(m, 1)
    BY <1>3 DEF Escrows
  <2> QED
    BY <1>2, <2>1, <2>2, <2>3
<1> HIDE DEF donated
<1>7. /\ escrow' \in [Keys -> [Mints -> Escrows]]
      /\ \A j \in Keys : j # k => escrow'[j] = escrow[j]
      /\ \A n \in Mints : escrow'[k][n] = IF n = m THEN donated ELSE escrow[k][n]
  BY <1>1, <1>5, <1>6 DEF TypeOK
<1>8. tok' \in [Holders -> [Mints -> Nat]]
  <2>1. who \in Holders /\ -1 \in Int
    BY LimitOrderAssumption DEF Holders
  <2>2. Credited(tok, tok', who, m, -1)
    BY <1>1, <1>2, <2>1, BalancesAreIntegers, CreditEffect
  <2>3. /\ tok' \in [Holders -> [Mints -> Int]]
        /\ \A h \in Holders, n \in Mints : tok'[h][n] >= 0
    BY <1>1, <1>2, <2>1, <2>2, BalancesAreIntegers DEF Credited
  <2> QED
    BY <2>3, TokensType
<1>9. TypeOK'
  BY <1>1, <1>2, <1>7, <1>8 DEF TypeOK
<1>10. OrderSound(k)'
  <2>1. /\ order[k].open /\ order[k].inMint = m
        /\ OrderSound(k)
    BY <1>1, <1>2 DEF OrderSound, e
  <2>2. order[k] \in OrderTerms
    BY <1>1, <2>1 DEF TypeOK, NoOrder
  <2>3. order[k].making \in Nat /\ order[k].inMint \in Mints
    BY <2>2 DEF OrderTerms
  <2>4. donated.amount \in Nat
    BY <1>6 DEF Escrows
  <2>5. donated.amount >= order[k].making
    BY <1>3, <1>6, <2>1, <2>3, <2>4 DEF OrderSound, e
  <2> QED
    BY <1>2, <1>6, <1>7, <2>1, <2>3, <2>5 DEF OrderSound
<1>11. ASSUME NEW j \in Keys, j # k PROVE OrderSound(j)'
  BY <1>1, <1>2, <1>7, <1>11, SoundUnchanged
<1> QED
  BY <1>9, <1>10, <1>11, OrdersSoundNext

(* Time passes, mints change what they withhold: orders stay sound.        *)
LEMMA ClockStep ==
  ASSUME IInv, Tick \/ \E m \in Mints, rate \in WithheldRates : SetTransferFee(m, rate)
  PROVE  IInv'
<1>1. TypeOK /\ \A j \in Keys : OrderSound(j)
  BY OrdersSound
<1>2. UNCHANGED <<config, orderVars>>
  BY DEF Tick, SetTransferFee
<1>3. now' \in Nat /\ now' >= now
  BY <1>1 DEF Tick, SetTransferFee, TypeOK
<1>4. withheldRate' \in [Mints -> 0..WITHHELD_DENOMINATOR] /\ withheldRate'[Wsol] = 0
  <2>1. CASE Tick
    BY <1>1, <2>1 DEF Tick, TypeOK
  <2>2. ASSUME NEW m \in Mints, NEW rate \in WithheldRates, SetTransferFee(m, rate)
        PROVE  withheldRate' \in [Mints -> 0..WITHHELD_DENOMINATOR]
               /\ withheldRate'[Wsol] = 0
    <3>1. rate \in 0..WITHHELD_DENOMINATOR
      BY LimitOrderAssumption
    <3> QED
      BY <1>1, <2>2, <3>1 DEF SetTransferFee, TypeOK
  <2> QED
    BY <2>1, <2>2
<1>5. TypeOK'
  BY <1>1, <1>2, <1>3, <1>4 DEF TypeOK, orderVars
<1>6. ASSUME NEW k \in Keys PROVE OrderSound(k)'
  <2>1. ASSUME order[k].open PROVE order[k].created \in Nat
    <3>1. order[k] \in OrderTerms
      BY <1>1, <2>1 DEF TypeOK, NoOrder
    <3> QED
      BY <3>1 DEF OrderTerms
  <2>2. OrderSound(k) /\ now \in Nat
    BY <1>1 DEF TypeOK
  <2> QED
    BY <1>2, <1>3, <2>1, <2>2 DEF OrderSound, orderVars
<1> QED
  BY <1>5, <1>6, OrdersSoundNext

(* The admin changes the configuration, not its shape.                     *)
LEMMA ConfigureStep ==
  ASSUME IInv, Configure
  PROVE  IInv'
<1> USE DEF Configs
<1>1. TypeOK /\ \A j \in Keys : OrderSound(j)
  BY OrdersSound
<1>2. UNCHANGED <<now, withheldRate, orderVars>> /\ ConfigNext
  BY DEF Configure
<1>3. config' \in Configs
  <2> SUFFICES ASSUME NEW signer \in Accounts,
                 \/ \E fee \in TradeFees : InitGlobalConfig(signer, fee)
                 \/ \E admin \in NewKeys : SetAdmin(signer, admin)
                 \/ \E r \in NewKeys : AddResolver(signer, r)
                 \/ \E r \in NewKeys : RemoveResolver(signer, r)
                 \/ \E fee \in TradeFees : SetTradeFee(signer, fee)
                 \/ \E paused \in BOOLEAN : SetPaused(signer, paused)
                 \/ \E multiplier \in Multipliers : SetFeeMultiplier(signer, multiplier)
               PROVE  config' \in Configs
    BY <1>2 DEF ConfigNext
  <2>1. config # NoConfig => config \in Configs
    BY <1>1 DEF TypeOK
  <2>2. ASSUME NEW fee \in TradeFees, InitGlobalConfig(signer, fee)
        PROVE  config' \in Configs
    BY <2>2, ConfigAssumption DEF InitGlobalConfig
  <2>3. ASSUME NEW admin \in NewKeys, SetAdmin(signer, admin)
        PROVE  config' \in Configs
    BY <2>1, <2>3, ConfigAssumption DEF SetAdmin, ByAdmin
  <2>4. ASSUME NEW r \in NewKeys, AddResolver(signer, r)
        PROVE  config' \in Configs
    BY <2>1, <2>4, ConfigAssumption DEF AddResolver, ByAdmin
  <2>5. ASSUME NEW r \in NewKeys, RemoveResolver(signer, r)
        PROVE  config' \in Configs
    BY <2>1, <2>5 DEF RemoveResolver, ByAdmin
  <2>6. ASSUME \/ \E fee \in TradeFees : SetTradeFee(signer, fee)
               \/ \E paused \in BOOLEAN : SetPaused(signer, paused)
               \/ \E multiplier \in Multipliers : SetFeeMultiplier(signer, multiplier)
        PROVE  config' \in Configs
    BY <2>1, <2>6, ConfigAssumption DEF SetTradeFee, SetPaused, SetFeeMultiplier, ByAdmin
  <2> QED
    BY <2>2, <2>3, <2>4, <2>5, <2>6
<1>4. TypeOK'
  BY <1>1, <1>2, <1>3 DEF TypeOK, orderVars
<1>5. ASSUME NEW k \in Keys PROVE OrderSound(k)'
  BY <1>1, <1>2, SoundUnchanged DEF orderVars
<1> QED
  BY <1>4, <1>5, OrdersSoundNext

LEMMA Initial == Init => IInv
<1> SUFFICES ASSUME Init PROVE IInv
  OBVIOUS
<1>1. config \in Configs
  BY LimitOrderAssumption DEF Init
<1>2. tok \in [Holders -> [Mints -> Nat]] /\ sol \in [Accounts -> Nat]
  BY LimitOrderAssumption DEF Init
<1>3. withheldRate \in [Mints -> 0..WITHHELD_DENOMINATOR] /\ withheldRate[Wsol] = 0
  BY LimitOrderAssumption DEF Init
<1>4. TypeOK
  BY <1>1, <1>2, <1>3 DEF Init, TypeOK, NoEscrow, Escrows
<1>5. ASSUME NEW k \in Keys PROVE OrderSound(k)
  BY DEF Init, OrderSound, NoOrder, NoEscrow
<1> QED
  BY <1>4, <1>5, OrdersSound

LEMMA Step == IInv /\ [Next]_vars => IInv'
<1> SUFFICES ASSUME IInv, [Next]_vars PROVE IInv'
  OBVIOUS
<1>1. CASE UNCHANGED vars
  <2>1. TypeOK /\ \A j \in Keys : OrderSound(j)
    BY OrdersSound
  <2>2. TypeOK'
    BY <1>1, <2>1 DEF TypeOK, vars, orderVars
  <2>3. \A k \in Keys : OrderSound(k)'
    BY <1>1, <2>1, SoundUnchanged DEF vars, orderVars
  <2> QED
    BY <2>2, <2>3, OrdersSoundNext
<1>2. ASSUME NEW k \in Keys, NEW p \in Placements, PlaceOrder(k, p) PROVE IInv'
  BY <1>2, PlaceStep
<1>3. ASSUME NEW k \in Keys, NEW u \in Updates, UpdateOrder(k, u) PROVE IInv'
  BY <1>3, UpdateStep
<1>4. ASSUME NEW payer \in Accounts, NEW refundTo \in Accounts, NEW k \in Keys,
             NEW m \in Mints, NEW asked \in AskedFees,
             CancelOrder(payer, k, m, refundTo, asked)
      PROVE  IInv'
  BY <1>4, CancelStep
<1>5. ASSUME NEW payer \in Accounts, NEW k \in Keys, NEW m \in Mints,
             NEW f \in Fills, NEW asked \in AskedFees, FillOrder(payer, k, m, f, asked)
      PROVE  IInv'
  BY <1>5, FillStep
<1>6. ASSUME NEW who \in Donors, NEW k \in Keys, NEW m \in Mints, Donate(who, k, m)
      PROVE  IInv'
  BY <1>6, DonateStep
<1> QED
  BY <1>1, <1>2, <1>3, <1>4, <1>5, <1>6, ClockStep, ConfigureStep DEF Next

(* OrderInvariance: whatever makers, resolvers, donors, mints and the      *)
(* admin do, no balance is negative, the escrow that is open is the        *)
(* order's, and it backs the order (place_order, update_order,             *)
(* cancel_order and both fills).                                           *)
THEOREM OrderInvariance == Spec => []IInv
  BY Initial, Step, PTL DEF Spec

-----------------------------------------------------------------------------
(* What orders leave behind.                                               *)

(* The order that a step closes is the one it names.                       *)
LEMMA ClosedByOne ==
  ASSUME IInv, NEW k \in Keys, NEW j \in Keys, order' = [order EXCEPT ![j] = NoOrder]
  PROVE  /\ Closes(k) => k = j
         /\ order[j].open => Closes(j)
BY DEF IInv, TypeOK, Closes, NoOrder

(* Only cancellations and fills close orders.                              *)
LEMMA OthersCloseNothing ==
  ASSUME IInv, NEW k \in Keys,
         \/ \E j \in Keys, p \in Placements : PlaceOrder(j, p)
         \/ \E j \in Keys, u \in Updates : UpdateOrder(j, u)
         \/ Configure
         \/ Tick
         \/ \E m \in Mints, rate \in WithheldRates : SetTransferFee(m, rate)
         \/ \E who \in Donors, j \in Keys, m \in Mints : Donate(who, j, m)
  PROVE  ~Closes(k)
<1>1. order \in [Keys -> OrderTerms \cup {NoOrder}]
  BY DEF IInv, TypeOK
<1>2. ASSUME NEW j \in Keys, NEW p \in Placements, PlaceOrder(j, p) PROVE ~Closes(k)
  <2> DEFINE o == [open |-> TRUE, making |-> RecordedAmount(p.inMint, p.making),
                   expect |-> p.expect, minReturn |-> p.minReturn,
                   created |-> now, deadline |-> now + p.wait,
                   inMint |-> p.inMint, outMint |-> p.outMint]
  <2>1. order' = [order EXCEPT ![j] = o]
    BY <1>2 DEF PlaceOrder
  <2>2. o.open
    OBVIOUS
  <2> HIDE DEF o
  <2> QED
    BY <1>1, <2>1, <2>2 DEF Closes
<1>3. ASSUME NEW j \in Keys, NEW u \in Updates, UpdateOrder(j, u) PROVE ~Closes(k)
  <2>1. order[j].open
    BY <1>3 DEF UpdateOrder
  <2>2. order[j] \in OrderTerms
    BY <1>1, <2>1 DEF NoOrder
  <2>3. order'[j].open /\ \A i \in Keys : i # j => order'[i] = order[i]
    BY <1>1, <1>3, <2>2 DEF UpdateOrder, OrderTerms
  <2> QED
    BY <2>3 DEF Closes
<1>4. CASE UNCHANGED order
  BY <1>4 DEF Closes
<1> QED
  BY <1>2, <1>3, <1>4 DEF Configure, Tick, SetTransferFee, Donate, orderVars

(* Steps that are no fill leave the vault alone.                           *)
LEMMA VaultUntouched ==
  ASSUME IInv,
         \/ \E k \in Keys, p \in Placements : PlaceOrder(k, p)
         \/ \E k \in Keys, u \in Updates : UpdateOrder(k, u)
         \/ \E payer, refundTo \in Accounts, k \in Keys, m \in Mints, asked \in AskedFees :
              CancelOrder(payer, k, m, refundTo, asked)
         \/ Configure
         \/ Tick
         \/ \E m \in Mints, rate \in WithheldRates : SetTransferFee(m, rate)
         \/ \E who \in Donors, k \in Keys, m \in Mints : Donate(who, k, m)
  PROVE  tok'[SaAuthority] = tok[SaAuthority]
<1>1. tok \in [Holders -> [Mints -> Nat]]
  BY DEF IInv, TypeOK
<1>2. ASSUME NEW who \in Accounts, NEW m, NEW x, tok' = Credit(tok, who, m, x)
      PROVE  tok'[SaAuthority] = tok[SaAuthority]
  <2>1. who # SaAuthority /\ SaAuthority \in Holders
    BY LimitOrderAssumption DEF Holders
  <2> QED
    BY <1>1, <1>2, <2>1 DEF Credit
<1>3. ASSUME NEW k \in Keys, NEW p \in Placements, PlaceOrder(k, p)
      PROVE  tok'[SaAuthority] = tok[SaAuthority]
  <2>1. tok' = Credit(tok, Maker(k), p.inMint, -p.making) /\ Maker(k) \in Accounts
    BY <1>3, MakerType DEF PlaceOrder
  <2> QED
    BY <1>2, <2>1
<1>4. ASSUME NEW who \in Donors, NEW k \in Keys, NEW m \in Mints, Donate(who, k, m)
      PROVE  tok'[SaAuthority] = tok[SaAuthority]
  <2>1. tok' = Credit(tok, who, m, -1) /\ who \in Accounts
    BY <1>4, LimitOrderAssumption DEF Donate
  <2> QED
    BY <1>2, <2>1
<1>5. ASSUME NEW k \in Keys, NEW u \in Updates, UpdateOrder(k, u)
      PROVE  tok'[SaAuthority] = tok[SaAuthority]
  BY <1>5 DEF UpdateOrder
<1>6. CASE UNCHANGED tok
  BY <1>6
<1> QED
  BY <1>3, <1>4, <1>5, <1>6, CancelEffect
  DEF Configure, Tick, SetTransferFee, orderVars

(* VaultNeverPays, as FillOrderSwapProcessor::before_swap and after_swap   *)
(* promise: no fill is paid out of other users' tokens.                    *)
THEOREM OrderVaultSafe == Spec => VaultNeverPays
<1> DEFINE Safe == \A m \in Mints :
             Gain(SaAuthority, m) < 0 =>
               \E k \in Keys :
                 Closes(k) /\ Gain(SaAuthority, m) >= -WithheldOnPull(k, m)
<1>1. ASSUME IInv, NEW payer \in Accounts, NEW k \in Keys, NEW m \in Mints,
             NEW f \in Fills, NEW asked \in AskedFees, FillOrder(payer, k, m, f, asked)
      PROVE  Safe
  <2>1. TypeOK /\ order[k].open /\ escrow[k][m].open
        /\ order' = [order EXCEPT ![k] = NoOrder]
        /\ event'.kind = "fill" /\ event'.fill = f
    BY <1>1 DEF FillOrder, CloseOrder, IInv
  <2>2. Closes(k) /\ order[k].inMint = m
    BY <1>1, <2>1, ClosedByOne, OrderShape
  <2>3. ASSUME NEW n \in Mints
        PROVE  WithheldOnPull(k, n)
                 = IF f.inSa /\ n = m
                   THEN TransferFee(m, SwapAmountIn(f, m, escrow[k][m])) ELSE 0
    BY <2>1, <2>2 DEF WithheldOnPull
  <2>4. TransferFee(m, SwapAmountIn(f, m, escrow[k][m])) \in Nat
    BY <1>1, <2>1, FillIn, WithheldPart
  <2>5. ASSUME NEW n \in Mints
        PROVE  Gain(SaAuthority, n) >= -WithheldOnPull(k, n)
    <3>1. tok'[SaAuthority][n] \in Nat /\ tok[SaAuthority][n] \in Nat
      BY <1>1, <2>1, FillTokens DEF TypeOK, Holders
    <3>2. tok'[SaAuthority][n] >= tok[SaAuthority][n] - WithheldOnPull(k, n)
      BY <1>1, <2>1, <2>3, FillTokens
    <3>3. WithheldOnPull(k, n) \in Nat
      BY <2>3, <2>4
    <3> QED
      BY <3>1, <3>2, <3>3 DEF Gain
  <2> QED
    BY <2>2, <2>5
<1>2. ASSUME IInv, tok'[SaAuthority] = tok[SaAuthority] PROVE Safe
  <2>1. \A m \in Mints : Gain(SaAuthority, m) = 0
    BY <1>2 DEF IInv, TypeOK, Gain, Holders
  <2> QED
    BY <2>1
<1>3. IInv /\ [Next]_vars => [Safe]_vars
  <2> SUFFICES ASSUME IInv, Next PROVE Safe
    OBVIOUS
  <2> HIDE DEF Safe
  <2> QED
    BY <1>1, <1>2, VaultUntouched DEF Next
<1>4. Spec => []IInv
  BY Initial, Step, PTL DEF Spec
<1> QED
  BY <1>3, <1>4, PTL DEF Spec, VaultNeverPays

(* What the maker's accounts get out of a fill.                            *)
LEMMA FillMaker ==
  ASSUME TypeOK, NEW payer \in Accounts, NEW k \in Keys, NEW m \in Mints,
         NEW f \in Fills, NEW asked \in AskedFees, FillOrder(payer, k, m, f, asked),
         order[k].outMint # m
  PROVE  LET out == order[k].outMint
             gain == TakingAmount(f, out) - LateFee(f, out)
         IN  /\ ~ToSol(f, out) => tok'[Maker(k)][out] >= tok[Maker(k)][out] + gain
             /\ ToSol(f, out) /\ payer # Maker(k)
                  => tok'[Maker(k)][out] >= tok[Maker(k)][out]
             /\ ToSol(f, out) => out = Wsol /\ tok'[payer][out] = 0
<1> DEFINE e == escrow[k][m]
           out == order[k].outMint
           owner == IF f.toPayer THEN payer ELSE Maker(k)
           t == AfterSwapIn(f, m, e, payer)
           s == AfterSwapOut(t, f, out, owner)
           gain == TakingAmount(f, out) - LateFee(f, out)
<1>1. /\ order[k].open /\ e.open
      /\ f.toPayer => out = Wsol
      /\ tok' = IF ToSol(f, out) THEN [s EXCEPT ![payer][Wsol] = 0] ELSE s
  BY DEF FillOrder
<1>2. /\ payer \in Holders /\ owner \in Holders /\ Maker(k) \in Holders
      /\ out \in Mints /\ Wsol \in Mints
  BY <1>1, MakerType, FillTypes, LimitOrderAssumption DEF Holders
<1>3. TakingAmount(f, out) \in Nat /\ LateFee(f, out) \in Nat /\ gain \in Nat
  BY FillOut
<1>4. /\ t \in [Holders -> [Mints -> Int]]
      /\ \A h \in Holders : t[h][out] >= tok[h][out]
  BY <1>2, SwapInEffect
<1> HIDE DEF t
<1>5. /\ s \in [Holders -> [Mints -> Int]]
      /\ \A h \in Holders, n \in Mints : s[h][n] >= t[h][n]
      /\ s[owner][out] >= t[owner][out] + TakingAmount(f, out) - LateFee(f, out)
  BY <1>2, <1>4, SwapOutEffect
<1>6. CASE ~ToSol(f, out)
  <2>1. tok' = s /\ owner = Maker(k)
    BY <1>1, <1>6 DEF ToSol
  <2>2. /\ t[owner][out] \in Int /\ tok[owner][out] \in Nat /\ s[owner][out] \in Int
        /\ t[owner][out] >= tok[owner][out]
    BY <1>2, <1>4, <1>5, BalancesAreIntegers
  <2> HIDE DEF s, owner
  <2>3. s[owner][out] >= tok[owner][out] + gain
    BY <1>3, <1>5, <2>2
  <2> QED
    BY <1>6, <2>1, <2>3
<1>7. CASE ToSol(f, out)
  <2>1. out = Wsol /\ tok' = [s EXCEPT ![payer][Wsol] = 0]
    BY <1>1, <1>7 DEF ToSol
  <2> HIDE DEF s
  <2>2. \A h \in Holders, n \in Mints :
          tok'[h][n] = IF h = payer /\ n = Wsol THEN 0 ELSE s[h][n]
    BY <1>2, <1>5, <2>1, EmptiedEffect
  <2>3. /\ t[Maker(k)][out] \in Int /\ tok[Maker(k)][out] \in Nat
        /\ s[Maker(k)][out] \in Int /\ s[Maker(k)][out] >= t[Maker(k)][out]
        /\ t[Maker(k)][out] >= tok[Maker(k)][out]
    BY <1>2, <1>4, <1>5, BalancesAreIntegers
  <2> QED
    BY <1>2, <1>7, <2>1, <2>2, <2>3
<1> QED
  BY <1>6, <1>7

(* A fill is made in time, by a resolver, and serves the maker.            *)
LEMMA FillServes ==
  ASSUME IInv, NEW payer \in Accounts, NEW k \in Keys, NEW m \in Mints,
         NEW f \in Fills, NEW asked \in AskedFees, FillOrder(payer, k, m, f, asked)
  PROVE  /\ SolGain(Maker(k)) >= TOKEN_ACCOUNT_RENT + ORDER_MIN_RENT
         /\ Filled(k, order[k].minReturn - LateFee(f, order[k].outMint))
<1> DEFINE out == order[k].outMint
           maker == Maker(k)
           gain == TakingAmount(f, out) - LateFee(f, out)
           rents == TOKEN_ACCOUNT_RENT + ORDER_MIN_RENT
<1>1. /\ TypeOK /\ order[k].open /\ escrow[k][m].open
      /\ event'.payer = payer /\ IsResolver(payer)
      /\ order[k].deadline >= now
      /\ TakingAmount(f, out) >= order[k].minReturn
  BY DEF FillOrder, IInv, InTime, MinReturnReached
<1>2. out \in Mints /\ out # m /\ order[k].minReturn \in Nat
      /\ order[k].deadline \in Nat /\ now \in Nat
  <2>1. order[k] \in OrderTerms
    BY <1>1, OrderShape
  <2>2. order[k].deadline \in Nat
    BY <2>1 DEF OrderTerms
  <2>3. now \in Nat
    BY <1>1 DEF TypeOK
  <2>4. out \in Mints /\ out # m /\ order[k].minReturn \in Nat
    BY <1>1, OrderShape
  <2> QED
    BY <2>2, <2>3, <2>4
<1>3. TakingAmount(f, out) \in Nat /\ LateFee(f, out) \in Nat /\ gain \in Nat
      /\ TOKEN_ACCOUNT_RENT \in Nat /\ ORDER_MIN_RENT \in Nat
  BY <1>1, FillOut, LimitOrderAssumption
<1>4. /\ sol[maker] \in Nat /\ sol'[maker] \in Nat
      /\ tok[maker][out] \in Nat /\ tok'[maker][out] \in Nat
  BY <1>1, <1>2, MakerType, FillSol, FillTokens DEF TypeOK
<1>5. /\ sol'[maker] >= sol[maker] + rents
      /\ ToSol(f, out) => sol'[maker] >= sol[maker] + gain + rents
      /\ ToSol(f, out) /\ payer = maker
           => sol'[maker] >= sol[maker] + tok[payer][Wsol] + gain + rents
  BY <1>1, <1>2, FillSol
<1>6. /\ ~ToSol(f, out) => tok'[maker][out] >= tok[maker][out] + gain
      /\ ToSol(f, out) /\ payer # maker => tok'[maker][out] >= tok[maker][out]
      /\ ToSol(f, out) => out = Wsol /\ tok'[payer][out] = 0
  BY <1>1, <1>2, FillMaker
<1> HIDE DEF out, maker, gain
<1>7. tok'[maker][out] - tok[maker][out]
        + (IF out = Wsol
           THEN sol'[maker] - sol[maker] - TOKEN_ACCOUNT_RENT - ORDER_MIN_RENT ELSE 0)
      >= gain
  <2>1. CASE ~ToSol(f, out)
    BY <1>3, <1>4, <1>5, <1>6, <2>1
  <2>2. CASE ToSol(f, out) /\ payer # maker
    BY <1>3, <1>4, <1>5, <1>6, <2>2
  <2>3. CASE ToSol(f, out) /\ payer = maker
    BY <1>3, <1>4, <1>5, <1>6, <2>3
  <2> QED
    BY <2>1, <2>2, <2>3
<1>8. GainInKind(k) >= gain /\ GainInKind(k) \in Int
  BY <1>3, <1>4, <1>7 DEF GainInKind, Gain, SolGain, out, maker
<1>9. GainInKind(k) >= order[k].minReturn - LateFee(f, out)
  BY <1>1, <1>2, <1>3, <1>8 DEF gain
<1>10. SolGain(maker) >= rents
  BY <1>3, <1>4, <1>5 DEF SolGain
<1>11. now <= order[k].deadline
  BY <1>1, <1>2
<1> QED
  BY <1>1, <1>9, <1>10, <1>11 DEF Filled, out, maker

(* A cancellation returns at least what the order is making.               *)
LEMMA CancelServes ==
  ASSUME IInv, NEW payer \in Accounts, NEW refundTo \in Accounts, NEW k \in Keys,
         NEW m \in Mints, NEW asked \in AskedFees,
         CancelOrder(payer, k, m, refundTo, asked)
  PROVE  /\ SolGain(Maker(k)) >= TOKEN_ACCOUNT_RENT + ORDER_MIN_RENT
         /\ Refunded(k)
<1>1. /\ TypeOK /\ order[k].open /\ escrow[k][m].open
      /\ event'.payer = payer
      /\ MayCancel(payer, k)
      /\ refundTo \in RefundOwner(payer, Maker(k), m)
  BY DEF CancelOrder, IInv
<1>2. /\ order[k].inMint = m /\ order[k].making \in Nat
      /\ escrow[k][m].amount \in Nat /\ escrow[k][m].amount >= order[k].making
  BY <1>1, OrderShape DEF TypeOK, Escrows
<1>3. /\ Net(m, order[k].making) \in Nat /\ Net(m, escrow[k][m].amount) \in Nat
      /\ Net(m, order[k].making) <= Net(m, escrow[k][m].amount)
  BY <1>1, <1>2, NetGrows, WithheldPart
<1>4. tok[refundTo][m] \in Nat
  BY <1>1 DEF TypeOK, Holders
<1>5. Gain(refundTo, m) >= Net(m, order[k].making)
  <2>1. tok'[refundTo][m] = tok[refundTo][m] + Net(m, escrow[k][m].amount)
    BY CancelEffect
  <2>2. Gain(refundTo, m) = Net(m, escrow[k][m].amount)
    BY <1>3, <1>4, <2>1 DEF Gain
  <2> QED
    BY <1>3, <2>2
<1>6. \/ refundTo = Maker(k)
      \/ m = Wsol /\ refundTo = payer /\ IsResolver(payer)
  <2>1. \/ refundTo = Maker(k)
        \/ m = Wsol /\ refundTo = payer /\ payer # Maker(k)
    BY <1>1 DEF RefundOwner
  <2>2. payer # Maker(k) => IsResolver(payer)
    BY <1>1, Zenon DEF MayCancel
  <2> QED
    BY <2>1, <2>2, Zenon
<1>7. Refunded(k)
  BY <1>1, <1>2, <1>5, <1>6 DEF Refunded
<1>8. sol[Maker(k)] \in Nat /\ sol'[Maker(k)] \in Nat
      /\ TOKEN_ACCOUNT_RENT \in Nat /\ ORDER_MIN_RENT \in Nat
  BY <1>1, MakerType, CancelEffect, LimitOrderAssumption DEF TypeOK
<1>9. SolGain(Maker(k)) >= TOKEN_ACCOUNT_RENT + ORDER_MIN_RENT
  BY <1>8, CancelEffect DEF SolGain
<1> QED
  BY <1>7, <1>9

(* MakerServed, as the checks of cancel_order_handler and the two fill     *)
(* handlers promise: an order ends with its maker refunded or paid, and    *)
(* with both rents returned.                                               *)
THEOREM OrderMakerServed == Spec => MakerServed
<1> DEFINE Served(k) ==
             /\ SolGain(Maker(k)) >= TOKEN_ACCOUNT_RENT + ORDER_MIN_RENT
             /\ \/ event'.kind = "cancel" /\ Refunded(k)
                \/ /\ event'.kind = "fill"
                   /\ Filled(k, order[k].minReturn
                                - LateFee(event'.fill, order[k].outMint))
<1>1. ASSUME IInv, NEW payer \in Accounts, NEW k \in Keys, NEW m \in Mints,
             NEW f \in Fills, NEW asked \in AskedFees, FillOrder(payer, k, m, f, asked)
      PROVE  \A j \in Keys : Closes(j) => Served(j)
  <2>1. /\ order' = [order EXCEPT ![k] = NoOrder]
        /\ event'.kind = "fill" /\ event'.fill = f
    BY <1>1 DEF FillOrder, CloseOrder
  <2>2. \A j \in Keys : Closes(j) => j = k
    BY <1>1, <2>1, ClosedByOne
  <2>3. Served(k)
    BY <1>1, <2>1, FillServes
  <2> HIDE DEF Served
  <2> QED
    BY <2>2, <2>3
<1>2. ASSUME IInv, NEW payer \in Accounts, NEW refundTo \in Accounts, NEW k \in Keys,
             NEW m \in Mints, NEW asked \in AskedFees,
             CancelOrder(payer, k, m, refundTo, asked)
      PROVE  \A j \in Keys : Closes(j) => Served(j)
  <2>1. /\ order' = [order EXCEPT ![k] = NoOrder]
        /\ event'.kind = "cancel"
    BY <1>2 DEF CancelOrder, CloseOrder
  <2>2. \A j \in Keys : Closes(j) => j = k
    BY <1>2, <2>1, ClosedByOne
  <2>3. Served(k)
    BY <1>2, <2>1, CancelServes
  <2> HIDE DEF Served
  <2> QED
    BY <2>2, <2>3
<1>3. IInv /\ [Next]_vars => [\A k \in Keys : Closes(k) => Served(k)]_vars
  <2> SUFFICES ASSUME IInv, Next PROVE \A k \in Keys : Closes(k) => Served(k)
    OBVIOUS
  <2> HIDE DEF Served
  <2> QED
    BY <1>1, <1>2, OthersCloseNothing DEF Next
<1>4. Spec => []IInv
  BY Initial, Step, PTL DEF Spec
<1> QED
  BY <1>3, <1>4, PTL DEF Spec, MakerServed

-----------------------------------------------------------------------------
(* What a resolver keeps.                                                  *)

(* Of the lamports of an order it closes, a resolver gets the fee.         *)
LEMMA PayerSol ==
  ASSUME TypeOK, NEW k \in Keys, NEW m \in Mints, NEW rest \in Nat,
         NEW payer \in Accounts, NEW fee \in Nat, NEW s \in [Accounts -> Nat],
         CloseOrder(k, m, rest, payer, fee, s), payer # Maker(k)
  PROVE  sol'[payer] = s[payer] + fee
<1> DEFINE r == CreditSol(s, payer, fee)
           x == TOKEN_ACCOUNT_RENT + rest + orderSol[k] - fee
<1>1. x \in Int /\ Maker(k) \in Accounts
  BY LimitOrderAssumption, MakerType DEF TypeOK
<1>2. sol' = CreditSol(r, Maker(k), x)
  BY DEF CloseOrder
<1> HIDE DEF r, x
<1>3. s \in [Accounts -> Int] /\ fee \in Int
  OBVIOUS
<1>4. CreditedSol(s, r, payer, fee)
  BY <1>3, CreditSolEffect DEF r
<1>5. r \in [Accounts -> Int] /\ r[payer] = s[payer] + fee
  BY <1>4 DEF CreditedSol
<1>6. CreditedSol(r, sol', Maker(k), x)
  BY <1>1, <1>2, <1>5, CreditSolEffect
<1> QED
  BY <1>5, <1>6 DEF CreditedSol

(* The fee is no more than the maker prepaid.                              *)
LEMMA FeePrepaid ==
  ASSUME IInv, NEW k \in Keys, order[k].open, NEW fee \in Nat, FeeCovered(k, fee)
  PROVE  fee <= prepaid[k]
<1>1. orderSol[k] = ORDER_MIN_RENT + prepaid[k]
  BY OrdersSound DEF OrderSound
<1>2. prepaid[k] \in Nat /\ ORDER_MIN_RENT \in Nat
  BY LimitOrderAssumption DEF IInv, TypeOK
<1> QED
  BY <1>1, <1>2 DEF FeeCovered

(* On the way in a payer gets at most a commission of its own: of what its *)
(* temporary account is filled with, the swap leaves none.                 *)
LEMMA PayerIn ==
  ASSUME TypeOK, NEW payer \in Accounts, NEW k \in Keys, NEW m \in Mints,
         NEW f \in Fills, NEW asked \in AskedFees, FillOrder(payer, k, m, f, asked)
  PROVE  LET e == escrow[k][m] IN
         \A n \in Mints :
           AfterSwapIn(f, m, e, payer)[payer][n] <=
             tok[payer][n] + (IF f.payee = payer /\ n = m
                              THEN Net(m, TempFee(f, m, e) + VaultFee(f, m, e)) ELSE 0)
<1> DEFINE e == escrow[k][m]
           temp == TempAmount(f, m, e)
           pull == Net(m, SwapAmountIn(f, m, e)) - f.taken
           net == Net(m, TempFee(f, m, e) + VaultFee(f, m, e))
           paid == Credit(tok, f.payee, m, net)
           t == AfterSwapIn(f, m, e, payer)
<1>1. /\ order[k].open /\ e.open
      /\ f.temp => f.taken >= temp
  BY DEF FillOrder, SourceChecked
<1>2. /\ f.taken \in Nat /\ f.payee \in Holders /\ f.temp \in BOOLEAN /\ f.inSa \in BOOLEAN
      /\ payer \in Holders /\ SaAuthority \in Holders /\ payer # SaAuthority
  BY <1>1, FillTypes, LimitOrderAssumption DEF Holders
<1>3. net \in Int /\ pull \in Int /\ temp \in Nat
  <2>1. /\ TempFee(f, m, e) \in Nat /\ VaultFee(f, m, e) \in Nat
        /\ temp \in Nat /\ SwapAmountIn(f, m, e) \in Nat
    BY FillIn
  <2>2. Net(m, SwapAmountIn(f, m, e)) \in Nat
    BY <2>1, WithheldPart
  <2>3. TempFee(f, m, e) + VaultFee(f, m, e) \in Nat
    BY <2>1
  <2>4. net \in Nat
    BY <2>3, WithheldPart
  <2> QED
    BY <1>2, <2>1, <2>2, <2>4
<1>4. t = IF f.temp THEN Credit(paid, payer, m, temp - f.taken)
          ELSE IF f.inSa THEN Credit(paid, SaAuthority, m, pull)
          ELSE paid
  BY DEF AfterSwapIn
<1> HIDE DEF e, temp, pull, net, paid, t
<1>5. Credited(tok, paid, f.payee, m, net)
  BY <1>2, <1>3, BalancesAreIntegers, CreditEffect DEF paid
<1>6. /\ paid \in [Holders -> [Mints -> Int]]
      /\ \A n \in Mints :
           /\ tok[payer][n] \in Nat
           /\ paid[payer][n] = tok[payer][n] + (IF f.payee = payer /\ n = m THEN net ELSE 0)
  BY <1>2, <1>3, <1>5, BalancesAreIntegers DEF Credited
<1>7. \A n \in Mints :
        t[payer][n] <= tok[payer][n] + (IF f.payee = payer /\ n = m THEN net ELSE 0)
  <2>1. CASE f.temp
    <3>1. temp - f.taken \in Int /\ temp - f.taken <= 0
      BY <1>1, <1>2, <1>3, <2>1
    <3>2. Credited(paid, t, payer, m, temp - f.taken)
      BY <1>2, <1>4, <1>6, <2>1, <3>1, CreditEffect
    <3>3. \A n \in Mints : paid[payer][n] \in Int /\ t[payer][n] <= paid[payer][n]
      BY <1>2, <1>6, <3>1, <3>2 DEF Credited
    <3> QED
      BY <1>6, <3>3
  <2>2. CASE ~f.temp /\ f.inSa
    <3>1. Credited(paid, t, SaAuthority, m, pull)
      BY <1>2, <1>3, <1>4, <1>6, <2>2, CreditEffect
    <3>2. \A n \in Mints : paid[payer][n] \in Int /\ t[payer][n] = paid[payer][n]
      BY <1>2, <1>6, <3>1 DEF Credited
    <3> QED
      BY <1>6, <3>2
  <2>3. CASE ~f.temp /\ ~f.inSa
    <3>1. \A n \in Mints : paid[payer][n] \in Int /\ t[payer][n] = paid[payer][n]
      BY <1>2, <1>4, <1>6, <2>3
    <3> QED
      BY <1>6, <3>1
  <2> QED
    BY <1>2, <2>1, <2>2, <2>3
<1> QED
  BY <1>7 DEF t, e, net

(* Likewise on the way out, unless the output account is its own too.      *)
LEMMA PayerOut ==
  ASSUME TypeOK, NEW payer \in Accounts, NEW k \in Keys, NEW m \in Mints,
         NEW f \in Fills, NEW asked \in AskedFees, FillOrder(payer, k, m, f, asked),
         NEW t \in [Holders -> [Mints -> Int]], NEW owner \in Holders
  PROVE  LET out == order[k].outMint IN
         \A n \in Mints :
           AfterSwapOut(t, f, out, owner)[payer][n] =
             t[payer][n]
             + (IF f.payee = payer /\ n = out
                THEN Net(out, OutFee(f) + LateFee(f, out)) ELSE 0)
             + (IF owner = payer /\ n = out
                THEN TakingAmount(f, out) - LateFee(f, out) ELSE 0)
<1> DEFINE out == order[k].outMint
           net == Net(out, OutFee(f) + LateFee(f, out))
           gain == TakingAmount(f, out) - LateFee(f, out)
           left == f.got - OutFee(f) - HandedOver(f)
           paid == Credit(t, f.payee, out, net)
           handed == IF f.outSa THEN Credit(paid, SaAuthority, out, left) ELSE paid
           s == AfterSwapOut(t, f, out, owner)
<1>1. out \in Mints /\ f.payee \in Holders /\ f.got \in Nat
      /\ payer \in Holders /\ SaAuthority \in Holders /\ payer # SaAuthority
  BY FillTypes, LimitOrderAssumption DEF FillOrder, Holders
<1>2. net \in Int /\ gain \in Int /\ left \in Int
  <2>1. /\ OutFee(f) \in Nat /\ HandedOver(f) \in Nat
        /\ TakingAmount(f, out) \in Nat /\ LateFee(f, out) \in Nat
    BY FillOut
  <2>2. OutFee(f) + LateFee(f, out) \in Nat
    BY <2>1
  <2>3. net \in Nat
    BY <1>1, <2>2, WithheldPart
  <2> QED
    BY <1>1, <2>1, <2>3
<1>3. s = Credit(handed, owner, out, gain)
  BY DEF AfterSwapOut
<1> HIDE DEF out, net, gain, left, paid, handed, s
<1>4. Credited(t, paid, f.payee, out, net)
  BY <1>1, <1>2, CreditEffect DEF paid
<1>5. /\ paid \in [Holders -> [Mints -> Int]]
      /\ \A n \in Mints :
           paid[payer][n] = t[payer][n] + (IF f.payee = payer /\ n = out THEN net ELSE 0)
  BY <1>1, <1>2, <1>4 DEF Credited
<1>6. /\ handed \in [Holders -> [Mints -> Int]]
      /\ \A n \in Mints : handed[payer][n] = paid[payer][n]
  <2>1. CASE f.outSa
    <3>1. Credited(paid, handed, SaAuthority, out, left)
      BY <1>1, <1>2, <1>5, <2>1, CreditEffect DEF handed
    <3> QED
      BY <1>1, <1>5, <3>1 DEF Credited
  <2>2. CASE ~f.outSa
    BY <1>5, <2>2 DEF handed
  <2> QED
    BY <2>1, <2>2
<1>7. Credited(handed, s, owner, out, gain)
  BY <1>1, <1>2, <1>3, <1>6, CreditEffect
<1>8. \A n \in Mints :
        /\ paid[payer][n] \in Int
        /\ s[payer][n] = paid[payer][n] + (IF owner = payer /\ n = out THEN gain ELSE 0)
  BY <1>1, <1>2, <1>5, <1>6, <1>7 DEF Credited
<1>9. \A n \in Mints :
        s[payer][n] = t[payer][n] + (IF f.payee = payer /\ n = out THEN net ELSE 0)
                      + (IF owner = payer /\ n = out THEN gain ELSE 0)
  BY <1>2, <1>5, <1>8
<1> QED
  BY <1>9 DEF s, out, gain, net

(* A fill leaves its payer no more tokens, and, what it held of wSOL       *)
(* included, no more lamports than before, the fee, the rent of its output *)
(* account and a commission of its own aside.                              *)
LEMMA FillPayer ==
  ASSUME IInv, NEW payer \in Accounts, NEW k \in Keys, NEW m \in Mints,
         NEW f \in Fills, NEW asked \in AskedFees, FillOrder(payer, k, m, f, asked),
         payer # Maker(k)
  PROVE  /\ SolGain(payer) + Gain(payer, Wsol)
              <= prepaid[k] + TOKEN_ACCOUNT_RENT + OwnCommission(f, k, payer, Wsol)
         /\ \A n \in Mints \ {Wsol} : Gain(payer, n) <= OwnCommission(f, k, payer, n)
<1> DEFINE e == escrow[k][m]
           out == order[k].outMint
           owner == IF f.toPayer THEN payer ELSE Maker(k)
           t == AfterSwapIn(f, m, e, payer)
           s == AfterSwapOut(t, f, out, owner)
           r == SolAfterSwap(f, k, payer, s)
           gain == TakingAmount(f, out) - LateFee(f, out)
           in == Net(m, TempFee(f, m, e) + VaultFee(f, m, e))
           late == Net(out, OutFee(f) + LateFee(f, out))
           own(n) == (IF f.payee = payer /\ n = m THEN in ELSE 0)
                     + (IF f.payee = payer /\ n = out THEN late ELSE 0)
           fee == CollectedFee(asked)
<1>1. /\ TypeOK /\ ~Paused /\ order[k].open /\ e.open /\ FeeCovered(k, fee)
      /\ f.toPayer => out = Wsol
      /\ tok' = IF ToSol(f, out) THEN [s EXCEPT ![payer][Wsol] = 0] ELSE s
      /\ CloseOrder(k, m, EscrowRest(f, m, e), payer, fee, r)
  BY DEF FillOrder, IInv
<1>2. /\ payer \in Holders /\ owner \in Holders /\ Maker(k) \in Accounts
      /\ out \in Mints /\ Wsol \in Mints /\ TOKEN_ACCOUNT_RENT \in Nat
      /\ fee \in Nat /\ EscrowRest(f, m, e) \in Nat
      /\ TakingAmount(f, out) \in Nat /\ LateFee(f, out) \in Nat /\ gain \in Int
      /\ prepaid[k] \in Nat
      /\ in \in Nat /\ late \in Nat
  <2>1. fee \in Nat
    BY <1>1, CollectedFeeType
  <2>2. EscrowRest(f, m, e) \in Nat
    BY <1>1, FillIn
  <2>3. TakingAmount(f, out) \in Nat /\ LateFee(f, out) \in Nat
    BY <1>1, FillOut
  <2>4. out \in Mints
    BY <1>1, FillTypes
  <2>5. prepaid[k] \in Nat
    BY <1>1 DEF TypeOK
  <2>6. in \in Nat
    <3>1. TempFee(f, m, e) \in Nat /\ VaultFee(f, m, e) \in Nat
      BY <1>1, FillIn
    <3>2. TempFee(f, m, e) + VaultFee(f, m, e) \in Nat
      BY <3>1
    <3> QED
      BY <1>1, <3>2, WithheldPart
  <2>7. late \in Nat
    <3>1. OutFee(f) \in Nat
      BY <1>1, FillOut
    <3>2. OutFee(f) + LateFee(f, out) \in Nat
      BY <2>3, <3>1
    <3> QED
      BY <1>1, <2>4, <3>2, WithheldPart
  <2> QED
    BY <2>1, <2>2, <2>3, <2>4, <2>5, <2>6, <2>7, MakerType, LimitOrderAssumption DEF Holders
<1>3. t \in [Holders -> [Mints -> Int]]
  BY <1>1, SwapInEffect
<1>4. \A n \in Mints :
        t[payer][n] <= tok[payer][n] + (IF f.payee = payer /\ n = m THEN in ELSE 0)
  BY <1>1, PayerIn
<1>5. r \in [Accounts -> Nat]
  BY <1>1, SolAfterSwapType
<1>6. fee <= prepaid[k]
  BY <1>1, <1>2, FeePrepaid
<1>7. sol'[payer] = r[payer] + fee
  BY <1>1, <1>2, <1>5, PayerSol
<1>8. ToSol(f, out) =>
        r = CreditSol(CreditSol(sol, payer, s[payer][Wsol] + TOKEN_ACCOUNT_RENT
                                              - TakingAmount(f, Wsol) + LateFee(f, Wsol)),
                      Maker(k), TakingAmount(f, Wsol) - LateFee(f, Wsol))
  BY DEF SolAfterSwap
<1>9. ~ToSol(f, out) => r = sol
  BY DEF SolAfterSwap
<1> HIDE DEF t, r
<1>10. \A n \in Mints :
         s[payer][n] = t[payer][n] + (IF f.payee = payer /\ n = out THEN late ELSE 0)
                       + (IF owner = payer /\ n = out THEN gain ELSE 0)
  BY <1>1, <1>2, <1>3, PayerOut
<1>11. s \in [Holders -> [Mints -> Int]]
  BY <1>1, <1>2, <1>3, SwapOutEffect
<1>12. \A n \in Mints : OwnCommission(f, k, payer, n) = own(n)
  <2>1. order[k].inMint = m
    BY <1>1, OrderShape
  <2> QED
    BY <1>2, <2>1 DEF OwnCommission
<1> HIDE DEF s, e, fee, in, late
<1>13. \A n \in Mints :
         /\ own(n) \in Int
         /\ s[payer][n] <= tok[payer][n] + own(n)
                            + (IF owner = payer /\ n = out THEN gain ELSE 0)
         /\ s[payer][n] \in Int
  <2>1. \A n \in Mints : tok[payer][n] \in Nat /\ t[payer][n] \in Int
    BY <1>1, <1>2, <1>3, BalancesAreIntegers
  <2> QED
    BY <1>2, <1>4, <1>10, <2>1
<1> HIDE DEF own
<1>14. /\ sol[payer] \in Nat
       /\ \A n \in Mints : t[payer][n] \in Int /\ tok[payer][n] \in Nat /\ s[payer][n] \in Int
  BY <1>1, <1>2, <1>3, <1>11, BalancesAreIntegers
<1>15. CASE ToSol(f, out)
  <2> DEFINE x == s[payer][Wsol] + TOKEN_ACCOUNT_RENT - TakingAmount(f, Wsol) + LateFee(f, Wsol)
             r1 == CreditSol(sol, payer, x)
  <2>1. out = Wsol /\ owner = payer
    BY <1>15 DEF ToSol
  <2>2. s[payer][Wsol] <= tok[payer][Wsol] + own(Wsol) + gain /\ gain \in Int
    BY <1>2, <1>13, <2>1
  <2>3. x = s[payer][Wsol] + TOKEN_ACCOUNT_RENT - gain /\ x \in Int
    BY <1>2, <1>14, <2>1, <2>2
  <2>4. r = CreditSol(r1, Maker(k), gain)
    BY <1>8, <1>15, <2>1
  <2> HIDE DEF x, r1, gain, owner
  <2>5. CreditedSol(sol, r1, payer, x)
    BY <1>1, <2>3, BalancesAreIntegers, CreditSolEffect DEF r1
  <2>6. r1 \in [Accounts -> Int] /\ r1[payer] = sol[payer] + x
    BY <2>5 DEF CreditedSol
  <2>7. CreditedSol(r1, r, Maker(k), gain)
    BY <1>2, <2>2, <2>4, <2>6, CreditSolEffect
  <2>8. r[payer] = sol[payer] + x
    BY <1>14, <2>3, <2>6, <2>7 DEF CreditedSol
  <2>9. \A h \in Holders, n \in Mints :
          tok'[h][n] = IF h = payer /\ n = Wsol THEN 0 ELSE s[h][n]
    BY <1>1, <1>2, <1>11, <1>15, EmptiedEffect
  <2>10. tok'[payer][Wsol] = 0
    BY <1>2, <2>9
  <2>11. /\ s[payer][Wsol] \in Int /\ tok[payer][Wsol] \in Nat
         /\ own(Wsol) \in Int
    BY <1>2, <1>14, <1>13
  <2>12. SolGain(payer) + Gain(payer, Wsol)
           = s[payer][Wsol] + TOKEN_ACCOUNT_RENT - gain + fee - tok[payer][Wsol]
    BY <1>2, <1>7, <1>14, <2>2, <2>3, <2>8, <2>10, <2>11 DEF SolGain, Gain
  <2>13. SolGain(payer) + Gain(payer, Wsol)
           <= prepaid[k] + TOKEN_ACCOUNT_RENT + own(Wsol)
    BY <1>2, <1>6, <2>2, <2>11, <2>12
  <2>14. ASSUME NEW n \in Mints \ {Wsol} PROVE Gain(payer, n) <= own(n)
    <3>1. tok'[payer][n] = s[payer][n] /\ s[payer][n] <= tok[payer][n] + own(n)
      BY <1>2, <1>14, <1>13, <2>1, <2>9
    <3> QED
      BY <1>14, <1>13, <3>1 DEF Gain
  <2> QED
    BY <1>2, <1>12, <2>13, <2>14
<1>16. CASE ~ToSol(f, out)
  <2>1. tok' = s /\ r = sol /\ owner = Maker(k)
    BY <1>1, <1>9, <1>16 DEF ToSol
  <2>2. \A n \in Mints : tok'[payer][n] = s[payer][n]
    BY <2>1
  <2>3. \A n \in Mints : s[payer][n] <= tok[payer][n] + own(n) /\ own(n) \in Int
    BY <1>14, <1>13, <2>1
  <2>4. \A n \in Mints : Gain(payer, n) <= own(n) /\ Gain(payer, n) \in Int
    BY <1>14, <2>2, <2>3 DEF Gain
  <2>5. SolGain(payer) = fee
    BY <1>2, <1>7, <1>14, <2>1 DEF SolGain
  <2>6. Gain(payer, Wsol) <= own(Wsol) /\ Gain(payer, Wsol) \in Int /\ own(Wsol) \in Int
    BY <1>2, <2>3, <2>4
  <2>7. SolGain(payer) + Gain(payer, Wsol)
          <= prepaid[k] + TOKEN_ACCOUNT_RENT + own(Wsol)
    BY <1>2, <1>6, <2>5, <2>6
  <2> QED
    BY <1>2, <1>12, <2>4, <2>7
<1> QED
  BY <1>15, <1>16

(* A cancellation leaves a resolver no more than a wSOL refund and the fee *)
(* it collects.                                                            *)
LEMMA CancelPayer ==
  ASSUME IInv, NEW payer \in Accounts, NEW refundTo \in Accounts, NEW k \in Keys,
         NEW m \in Mints, NEW asked \in AskedFees,
         CancelOrder(payer, k, m, refundTo, asked), payer # Maker(k)
  PROVE  LET refund == IF order[k].inMint = Wsol THEN escrow[k][Wsol].amount ELSE 0
         IN  /\ SolGain(payer) + Gain(payer, Wsol) <= prepaid[k] + refund
             /\ \A n \in Mints \ {Wsol} : Gain(payer, n) <= 0
<1> DEFINE fee == CancelFee(payer, k, asked)
           net == Net(m, escrow[k][m].amount)
           refund == IF order[k].inMint = Wsol THEN escrow[k][Wsol].amount ELSE 0
<1>1. /\ TypeOK /\ ~Paused /\ order[k].open /\ escrow[k][m].open
      /\ FeeCovered(k, fee)
      /\ refundTo \in RefundOwner(payer, Maker(k), m)
      /\ tok' = Credit(tok, refundTo, m, net)
      /\ CloseOrder(k, m, 0, payer, fee, sol)
  BY DEF CancelOrder, IInv
<1>2. order[k].inMint = m
  BY <1>1, OrderShape
<1>3. fee \in Nat
  BY <1>1, CollectedFeeType DEF CancelFee
<1>4. net \in Nat /\ net <= escrow[k][m].amount /\ escrow[k][m].amount \in Nat
  BY <1>1, WithheldPart DEF TypeOK, Escrows
<1>5. /\ payer \in Holders /\ refundTo \in Holders /\ Wsol \in Mints
      /\ sol[payer] \in Nat /\ sol \in [Accounts -> Nat]
      /\ \A n \in Mints : tok[payer][n] \in Nat
      /\ prepaid[k] \in Nat
  BY <1>1, LimitOrderAssumption DEF TypeOK, Holders
<1>6. fee <= prepaid[k]
  BY <1>1, <1>3, FeePrepaid
<1>7. sol'[payer] = sol[payer] + fee
  BY <1>1, <1>3, <1>5, PayerSol
<1>8. refundTo = payer => m = Wsol
  BY <1>1 DEF RefundOwner
<1> HIDE DEF fee, net
<1>9. Credited(tok, tok', refundTo, m, net)
  BY <1>1, <1>4, <1>5, BalancesAreIntegers, CreditEffect
<1>10. \A n \in Mints :
         tok'[payer][n] = tok[payer][n] + (IF payer = refundTo /\ n = m THEN net ELSE 0)
  BY <1>5, <1>9 DEF Credited
<1>11. ASSUME NEW n \in Mints \ {Wsol} PROVE Gain(payer, n) <= 0
  <2>1. tok'[payer][n] = tok[payer][n]
    BY <1>5, <1>8, <1>10
  <2> QED
    BY <1>5, <2>1 DEF Gain
<1>12. Gain(payer, Wsol) \in Int /\ Gain(payer, Wsol) <= refund /\ refund \in Nat
  <2>1. CASE payer = refundTo
    <3>1. m = Wsol /\ tok'[payer][Wsol] = tok[payer][Wsol] + net
      BY <1>5, <1>8, <1>10, <2>1
    <3>2. refund = escrow[k][m].amount
      BY <1>2, <3>1
    <3> QED
      BY <1>4, <1>5, <3>1, <3>2 DEF Gain
  <2>2. CASE payer # refundTo
    <3>1. tok'[payer][Wsol] = tok[payer][Wsol]
      BY <1>5, <1>10, <2>2
    <3>2. refund \in Nat
      BY <1>2, <1>4
    <3> QED
      BY <1>5, <3>1, <3>2 DEF Gain
  <2> QED
    BY <2>1, <2>2
<1>13. SolGain(payer) = fee
  BY <1>3, <1>5, <1>7 DEF SolGain
<1> HIDE DEF refund
<1>14. SolGain(payer) + Gain(payer, Wsol) <= prepaid[k] + refund
  BY <1>3, <1>5, <1>6, <1>12, <1>13
<1> QED
  BY <1>11, <1>14 DEF refund

(* ResolverGainsOnlyFees, as collect_fees and the checks on the source and *)
(* the output account of a fill promise: a resolver keeps no more of an    *)
(* order than its maker prepaid, however much it asks for, but for a       *)
(* commission it pays itself.                                              *)
THEOREM OrderResolverPaid == Spec => ResolverGainsOnlyFees
<1> DEFINE Paid(k) ==
             LET p == event'.payer
                 refund == IF event'.kind = "cancel" /\ order[k].inMint = Wsol
                           THEN escrow[k][Wsol].amount ELSE 0
                 rent == IF event'.kind = "fill" THEN TOKEN_ACCOUNT_RENT ELSE 0
                 commission(m) ==
                   IF event'.kind = "fill" THEN OwnCommission(event'.fill, k, p, m) ELSE 0
             IN  /\ SolGain(p) + Gain(p, Wsol) <= prepaid[k] + refund + rent + commission(Wsol)
                 /\ \A m \in Mints \ {Wsol} : Gain(p, m) <= commission(m)
           Bounded(k) == event'.payer # Maker(k) => Paid(k)
<1>1. ASSUME IInv, NEW payer \in Accounts, NEW k \in Keys, NEW m \in Mints,
             NEW f \in Fills, NEW asked \in AskedFees, FillOrder(payer, k, m, f, asked)
      PROVE  \A j \in Keys : Closes(j) => Bounded(j)
  <2>1. /\ order' = [order EXCEPT ![k] = NoOrder]
        /\ event'.kind = "fill" /\ event'.fill = f /\ event'.payer = payer
    BY <1>1 DEF FillOrder, CloseOrder
  <2>2. \A j \in Keys : Closes(j) => j = k
    BY <1>1, <2>1, ClosedByOne
  <2>3. prepaid[k] \in Nat /\ TOKEN_ACCOUNT_RENT \in Nat
    BY <1>1, LimitOrderAssumption DEF IInv, TypeOK
  <2>4. Bounded(k)
    <3> SUFFICES ASSUME payer # Maker(k)
                 PROVE  /\ SolGain(payer) + Gain(payer, Wsol)
                             <= prepaid[k] + 0 + TOKEN_ACCOUNT_RENT
                                + OwnCommission(f, k, payer, Wsol)
                        /\ \A n \in Mints \ {Wsol} :
                             Gain(payer, n) <= OwnCommission(f, k, payer, n)
      BY <2>1
    <3> QED
      BY <1>1, <2>3, FillPayer
  <2> HIDE DEF Bounded
  <2> QED
    BY <2>2, <2>4
<1>2. ASSUME IInv, NEW payer \in Accounts, NEW refundTo \in Accounts, NEW k \in Keys,
             NEW m \in Mints, NEW asked \in AskedFees,
             CancelOrder(payer, k, m, refundTo, asked)
      PROVE  \A j \in Keys : Closes(j) => Bounded(j)
  <2> DEFINE refund == IF order[k].inMint = Wsol THEN escrow[k][Wsol].amount ELSE 0
  <2>1. /\ order' = [order EXCEPT ![k] = NoOrder]
        /\ event'.kind = "cancel" /\ event'.payer = payer
        /\ order[k].open /\ escrow[k][m].open
    BY <1>2 DEF CancelOrder, CloseOrder
  <2>2. \A j \in Keys : Closes(j) => j = k
    BY <1>2, <2>1, ClosedByOne
  <2>3. prepaid[k] \in Nat /\ refund \in Nat
    BY <1>2, LimitOrderAssumption DEF IInv, TypeOK, Escrows
  <2>4. Bounded(k)
    <3> SUFFICES ASSUME payer # Maker(k)
                 PROVE  /\ SolGain(payer) + Gain(payer, Wsol) <= prepaid[k] + refund + 0 + 0
                        /\ \A n \in Mints \ {Wsol} : Gain(payer, n) <= 0
      BY <2>1
    <3> QED
      BY <1>2, <2>3, CancelPayer
  <2> HIDE DEF Bounded
  <2> QED
    BY <2>2, <2>4
<1>3. IInv /\ [Next]_vars => [\A k \in Keys : Closes(k) => Bounded(k)]_vars
  <2> SUFFICES ASSUME IInv, Next PROVE \A k \in Keys : Closes(k) => Bounded(k)
    OBVIOUS
  <2> HIDE DEF Bounded
  <2> QED
    BY <1>1, <1>2, OthersCloseNothing DEF Next
<1>4. Spec => []IInv
  BY Initial, Step, PTL DEF Spec
<1>5. (\A k \in Keys : Closes(k) => Bounded(k))
        => \A k \in Keys : Closes(k) /\ event'.payer # Maker(k) => Paid(k)
  OBVIOUS
<1> DEFINE A == \A k \in Keys : Closes(k) => Bounded(k)
           B == \A k \in Keys : Closes(k) /\ event'.payer # Maker(k) => Paid(k)
<1>6. [A]_vars => [B]_vars
  BY <1>5
<1>7. IInv /\ [Next]_vars => [B]_vars
  BY <1>3, <1>6
<1> HIDE DEF A, B
<1>8. Spec => [][B]_vars
  BY <1>4, <1>7, PTL DEF Spec
<1> QED
  BY <1>8 DEF B, ResolverGainsOnlyFees

=============================================================================
