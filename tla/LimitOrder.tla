----------------------------- MODULE LimitOrder -----------------------------
(***************************************************************************)
(* Limit orders: a maker locks tokens in an escrow account and prepays a   *)
(* fee; a resolver swaps the escrow for the maker before the deadline, or  *)
(* the order is cancelled.  Every instruction is one step, between which   *)
(* makers, resolvers, the admin, the clock and the mints take their turns. *)
(*                                                                         *)
(* The swap of a fill is bound by what SwapRouter shows of it.             *)
(***************************************************************************)
EXTENDS GlobalConfig

CONSTANTS
  Mints,
  Wsol,              \* the mint of wrapped SOL
  SaAuthority,       \* authority_pda, the owner of the vault
  OrderIds,
  Makers,            \* who places orders
  Placements,        \* arguments of place_order
  Updates,           \* arguments of update_order
  Fills,             \* arguments of the two fills
  Donors,            \* who sends tokens to an escrow
  AskedFees,         \* signature and priority fee and tips a resolver may ask for
  CheckDeadline,     \* the build feature "check-deadline"
  MIN_DEADLINE,
  ORDER_MIN_RENT,
  TOKEN_ACCOUNT_RENT,
  COMMISSION_DENOMINATOR,
  U64Max,            \* where a checked multiplication fails
  WITHHELD_DENOMINATOR,
  InitialConfigs, InitialTokens, InitialSol, InitialWithheldRates,
  WithheldRates,     \* what a 2022 mint may start to withhold of transfers
  MaxTime,           \* bound: where the clock stops
  MaxPlaced          \* bound: orders placed in a behaviour

Keys == OrderIds \X Makers
Maker(k) == k[2]
Holders == Accounts \cup {SaAuthority}
NoOrder == [open |-> FALSE]
NoEscrow == [amount |-> 0, withheld |-> 0, open |-> FALSE]

OrderTerms ==
  [open : {TRUE}, making : Nat, expect : Nat, minReturn : Nat, created : Nat,
   deadline : Nat, inMint : Mints, outMint : Mints]
Escrows == [amount : Nat, withheld : Nat, open : BOOLEAN]

ASSUME LimitOrderAssumption ==
  /\ Wsol \in Mints
  /\ SaAuthority \notin Accounts /\ Makers \subseteq Accounts
  /\ CheckDeadline \in BOOLEAN
  /\ Donors \subseteq Accounts
  /\ AskedFees \subseteq Nat \ {0} /\ WithheldRates \subseteq Nat
  /\ {MIN_DEADLINE, ORDER_MIN_RENT, TOKEN_ACCOUNT_RENT, U64Max, MaxTime, MaxPlaced}
       \subseteq Nat
  /\ {COMMISSION_DENOMINATOR, WITHHELD_DENOMINATOR} \subseteq Nat \ {0}
  /\ \A rate \in WithheldRates : rate <= WITHHELD_DENOMINATOR
  /\ \A rates \in InitialWithheldRates :
       /\ rates \in [Mints -> 0..WITHHELD_DENOMINATOR]
       /\ rates[Wsol] = 0
  /\ InitialConfigs \subseteq Configs
  /\ InitialTokens \subseteq [Holders -> [Mints -> Nat]]
  /\ InitialSol \subseteq [Accounts -> Nat]
  /\ Placements \subseteq [inMint : Mints, outMint : Mints, making : Nat, expect : Nat,
                           minReturn : Nat, wait : Nat, fee : Nat]
  /\ Updates \subseteq [expect : Nat, minReturn : Nat, wait : Nat, fee : Nat]
  /\ Fills \subseteq [commission : BOOLEAN, amountIn : Nat, temp : BOOLEAN,
                      inSa : BOOLEAN, outSa : BOOLEAN, toPayer : BOOLEAN,
                      rate : Nat, onFrom : BOOLEAN, payee : Holders,
                      taken : Nat, got : Nat]

VARIABLES
  now,          \* the clock
  order,        \* the order accounts
  escrow,       \* the escrow accounts, of an order and a mint
  orderSol,     \* lamports of the order accounts
  tok,          \* token accounts, one per owner and mint
  sol,          \* lamports of the wallets
  withheldRate, \* what every mint withholds now
  event,        \* the last event emitted
  prepaid,      \* history: the fees the maker prepaid for an open order
  placed        \* bound: how many orders were placed

orderVars == <<order, escrow, orderSol, tok, sol, event, prepaid, placed>>
vars == <<config, now, withheldRate, orderVars>>

NoEvent == [kind |-> "none"]

-----------------------------------------------------------------------------
(* What a mint withholds from the recipient of x, rounded up.              *)
TransferFee(m, x) ==
  (x * withheldRate[m] + WITHHELD_DENOMINATOR - 1) \div WITHHELD_DENOMINATOR
Net(m, x) == x - TransferFee(m, x)

Credit(t, who, m, x) == [t EXCEPT ![who][m] = @ + x]

CreditSol(s, who, x) == [s EXCEPT ![who] = @ + x]

Init ==
  /\ config \in InitialConfigs
  /\ now = 0
  /\ order = [k \in Keys |-> NoOrder]
  /\ escrow = [k \in Keys |-> [m \in Mints |-> NoEscrow]]
  /\ orderSol = [k \in Keys |-> 0]
  /\ tok \in InitialTokens
  /\ sol \in InitialSol
  /\ withheldRate \in InitialWithheldRates
  /\ event = NoEvent
  /\ prepaid = [k \in Keys |-> 0]
  /\ placed = 0

(* Mutant: the order records what was sent, not what arrived. *)
RecordedAmountSent(m, sent) == sent

(* actual_making_amount: what the mint lets arrive in the escrow.          *)
RecordedAmount(m, sent) == Net(m, sent)

PlaceOrder(k, p) ==
  LET cost == p.fee + ORDER_MIN_RENT + TOKEN_ACCOUNT_RENT
      maker == Maker(k)
  IN  /\ placed < MaxPlaced
      /\ ~Paused
      /\ ~order[k].open /\ ~escrow[k][p.inMint].open
      /\ p.wait >= MIN_DEADLINE
      /\ p.inMint # p.outMint
      /\ p.making > 0 /\ p.expect > 0
      /\ p.minReturn \in 1..p.expect
      /\ p.fee >= config.tradeFee
      /\ sol[maker] >= cost
      /\ tok[maker][p.inMint] >= p.making
      /\ Net(p.inMint, p.making) > 0
      /\ order' = [order EXCEPT ![k] =
           [open |-> TRUE, making |-> RecordedAmount(p.inMint, p.making),
            expect |-> p.expect, minReturn |-> p.minReturn,
            created |-> now, deadline |-> now + p.wait,
            inMint |-> p.inMint, outMint |-> p.outMint]]
      /\ escrow' = [escrow EXCEPT ![k][p.inMint] =
           [amount |-> Net(p.inMint, p.making), open |-> TRUE,
            withheld |-> TransferFee(p.inMint, p.making)]]
      /\ orderSol' = [orderSol EXCEPT ![k] = ORDER_MIN_RENT + p.fee]
      /\ tok' = Credit(tok, maker, p.inMint, -p.making)
      /\ sol' = CreditSol(sol, maker, -cost)
      /\ event' = [kind |-> "place", key |-> k]
      /\ prepaid' = [prepaid EXCEPT ![k] = p.fee]
      /\ placed' = placed + 1
      /\ UNCHANGED <<config, now, withheldRate>>

(* An argument of 0 leaves a term as it is.                                *)
Updated(old, new) == IF new > 0 THEN new ELSE old

UpdateSound(old, u) ==
  Updated(old.minReturn, u.minReturn) <= Updated(old.expect, u.expect)

UpdateOrder(k, u) ==
  /\ ~Paused
  /\ order[k].open
  /\ order[k].deadline >= now
  /\ u.expect > 0 \/ u.minReturn > 0 \/ u.wait > 0
  /\ UpdateSound(order[k], u)
  /\ u.wait > 0 => u.wait >= MIN_DEADLINE
  /\ sol[Maker(k)] >= u.fee
  /\ order' = [order EXCEPT
       ![k].expect = Updated(@, u.expect),
       ![k].minReturn = Updated(@, u.minReturn),
       ![k].deadline = IF u.wait > 0 THEN now + u.wait ELSE @]
  /\ orderSol' = [orderSol EXCEPT ![k] = @ + u.fee]
  /\ sol' = CreditSol(sol, Maker(k), -u.fee)
  /\ prepaid' = [prepaid EXCEPT ![k] = @ + u.fee]
  /\ event' = [kind |-> "update", key |-> k]
  /\ UNCHANGED <<config, now, withheldRate, escrow, tok, placed>>

-----------------------------------------------------------------------------
(* The end of an order: the escrow account is closed, its rent and what is *)
(* left of its wSOL go to the maker, the resolver collects fees from the   *)
(* order account, and the maker gets back the rest of that.                *)

(* A token account is closed when it holds nothing: neither tokens, unless *)
(* they are wSOL, nor what its mint withheld, unless that is harvested.    *)
Closable(e, m, rest, harvested) ==
  /\ m # Wsol => rest = 0
  /\ e.withheld > 0 => harvested

(* collect_fees: the multiplier counts tenths.                             *)
CollectedFee(asked) ==
  IF config.feeMultiplier > 10 THEN (asked * config.feeMultiplier) \div 10
  ELSE asked

(* Mutant: the rent of the order account counts as prepaid. *)
FeeCoveredByRent(k, fee) == orderSol[k] >= fee

FeeCovered(k, fee) == orderSol[k] >= fee + ORDER_MIN_RENT

(* Mutant: the escrow account is emptied, but not closed. *)
EscrowEmptied(k, m) == [escrow EXCEPT ![k][m].amount = 0]

EscrowClosed(k, m) == [escrow EXCEPT ![k][m] = NoEscrow]

(* The order closes; rest tokens are left in its escrow, and payer         *)
(* collects the fee.                                                       *)
CloseOrder(k, m, rest, payer, fee, s) ==
  /\ order' = [order EXCEPT ![k] = NoOrder]
  /\ escrow' = EscrowClosed(k, m)
  /\ orderSol' = [orderSol EXCEPT ![k] = 0]
  /\ sol' = CreditSol(CreditSol(s, payer, fee), Maker(k),
                      TOKEN_ACCOUNT_RENT + rest + orderSol[k] - fee)
  /\ prepaid' = [prepaid EXCEPT ![k] = 0]

(* Whose account the escrow may be returned to: a resolver may unwrap wSOL *)
(* for the maker in the instruction that follows.                          *)
RefundOwner(payer, maker, m) ==
  IF m = Wsol /\ payer # maker THEN {payer, maker} ELSE {maker}

(* Mutant: an order is not cancelled after its deadline. *)
MayCancelInTime(payer, k) ==
  (payer = Maker(k) \/ IsResolver(payer)) /\ now <= order[k].deadline

(* Only the maker and a resolver may cancel.                               *)
MayCancel(payer, k) ==
  \/ payer = Maker(k)
  \/ IsResolver(payer) /\ (CheckDeadline => now > order[k].deadline)

CancelHarvests(m, e) == TransferFee(m, e.amount) > 0

CancelFee(payer, k, asked) == IF payer = Maker(k) THEN 0 ELSE CollectedFee(asked)

CancelOrder(payer, k, m, refundTo, asked) ==
  LET e == escrow[k][m]
      fee == CancelFee(payer, k, asked)
  IN  /\ ~Paused
      /\ order[k].open /\ e.open
      /\ MayCancel(payer, k)
      /\ refundTo \in RefundOwner(payer, Maker(k), m)
      /\ Closable(e, m, 0, CancelHarvests(m, e))
      /\ payer # Maker(k) => FeeCovered(k, fee)
      /\ tok' = Credit(tok, refundTo, m, Net(m, e.amount))
      /\ CloseOrder(k, m, 0, payer, fee, sol)
      /\ event' = [kind |-> "cancel", key |-> k, payer |-> payer]
      /\ UNCHANGED <<config, now, withheldRate, placed>>

-----------------------------------------------------------------------------
(* A fill.  f.amountIn is the amount_in the resolver passes; f.temp says   *)
(* that a temporary account of the payer is given, which counts for wSOL   *)
(* only, f.inSa and f.outSa that the swap goes through the vault, and      *)
(* f.toPayer that the output account belongs to the payer.  f.payee owns   *)
(* the commission account, which is none of the other accounts of the      *)
(* fill; a payer's wSOL counts as one balance, closed with its output      *)
(* account.  f.taken and f.got are what the swap took and gave.            *)

Commission(f, x) == IF f.commission THEN (x * f.rate) \div COMMISSION_DENOMINATOR ELSE 0

(* commission_fill_order takes a fee before it fills a temporary account,  *)
(* FillOrderSwapProcessor before the vault is filled.                      *)
TempFee(f, m, e) == IF f.temp THEN Commission(f, e.amount) ELSE 0
RealAmountIn(f, m, e) == e.amount - TempFee(f, m, e)
VaultFee(f, m, e) ==
  IF f.inSa /\ f.onFrom THEN Commission(f, RealAmountIn(f, m, e)) ELSE 0

SwapAmountIn(f, m, e) == RealAmountIn(f, m, e) - VaultFee(f, m, e)

(* What goes to the temporary account: fill_order takes the caller's word. *)
TempAmount(f, m, e) == IF f.commission THEN RealAmountIn(f, m, e) ELSE f.amountIn

(* What is left in the escrow.                                             *)
EscrowRest(f, m, e) ==
  e.amount - TempFee(f, m, e) - VaultFee(f, m, e)
  - (IF f.temp THEN TempAmount(f, m, e)
     ELSE IF f.inSa THEN SwapAmountIn(f, m, e) ELSE f.taken)

(* after_swap takes the fee on the output out of what the vault got.       *)
OutFee(f) == IF f.outSa /\ ~f.onFrom THEN Commission(f, f.got) ELSE 0

(* Mutant: the vault hands over all, and pays the fee itself. *)
HandedOverGross(f) == f.got

(* real_amount_out: what the vault hands over.                             *)
HandedOver(f) == f.got - OutFee(f)

(* The change of the output account, which must reach min_return.          *)
TakingAmount(f, m) == IF f.outSa THEN Net(m, HandedOver(f)) ELSE f.got

(* handle_sol_output takes its fee after that.                             *)
ToSol(f, outMint) == outMint = Wsol /\ f.toPayer
LateFee(f, outMint) ==
  IF ToSol(f, outMint) /\ ~f.onFrom /\ ~f.outSa
  THEN Commission(f, TakingAmount(f, outMint)) ELSE 0

TakesOnOutput(f, outMint) == ~f.onFrom /\ (f.outSa \/ ToSol(f, outMint))

(* No fee exceeds what it is taken from, nor 64 bits on the way, and the   *)
(* one account that takes them is of one mint.                             *)
CommissionsPayable(f, m, outMint, e) ==
  f.commission =>
    /\ TempFee(f, m, e) <= e.amount
    /\ VaultFee(f, m, e) <= RealAmountIn(f, m, e)
    /\ OutFee(f) <= f.got
    /\ LateFee(f, outMint) <= TakingAmount(f, outMint)
    /\ TempFee(f, m, e) = 0 \/ OutFee(f) = 0
    /\ f.temp \/ (f.inSa /\ f.onFrom) => e.amount * f.rate <= U64Max
    /\ TakesOnOutput(f, outMint) => f.got * f.rate <= U64Max

(* The token accounts on the way in ...                                    *)
AfterSwapIn(f, m, e, payer) ==
  LET paid == Credit(tok, f.payee, m, Net(m, TempFee(f, m, e) + VaultFee(f, m, e)))
  IN  IF f.temp
      THEN Credit(paid, payer, m, TempAmount(f, m, e) - f.taken)
      ELSE IF f.inSa
      THEN Credit(paid, SaAuthority, m, Net(m, SwapAmountIn(f, m, e)) - f.taken)
      ELSE paid

(* ... and out.                                                            *)
AfterSwapOut(t, f, m, owner) ==
  LET paid == Credit(t, f.payee, m, Net(m, OutFee(f) + LateFee(f, m)))
      handed == IF f.outSa
                THEN Credit(paid, SaAuthority, m, f.got - OutFee(f) - HandedOver(f))
                ELSE paid
  IN  Credit(handed, owner, m, TakingAmount(f, m) - LateFee(f, m))

(* Mutant: whatever the swap gives is enough. *)
MinReturnReachedAny(f, k) == f.got > 0

MinReturnReached(f, k) == TakingAmount(f, order[k].outMint) >= order[k].minReturn

(* What may become of the source account: DEXes take at most what they are *)
(* offered, and of a temporary account, whose balance was read before it   *)
(* was filled, at least what it was filled with.                           *)
SourceChecked(f, m, e, payer) ==
  /\ f.taken <= SwapAmountIn(f, m, e)
  /\ f.temp =>
       /\ ~f.inSa
       /\ TempAmount(f, m, e) <= e.amount
       /\ f.taken >= TempAmount(f, m, e)
       /\ tok[payer][m] + TempAmount(f, m, e) >= f.taken
  /\ ~f.temp /\ f.inSa =>
       tok[SaAuthority][m] + Net(m, SwapAmountIn(f, m, e)) >= f.taken

Harvests(f, m, e) ==
  TransferFee(m, IF f.commission THEN RealAmountIn(f, m, e) ELSE f.amountIn) > 0

(* The payer's wSOL account is closed, and the maker paid in SOL.          *)
SolAfterSwap(f, k, payer, t) ==
  IF ToSol(f, order[k].outMint)
  THEN CreditSol(CreditSol(sol, payer, t[payer][Wsol] + TOKEN_ACCOUNT_RENT
                                       - TakingAmount(f, Wsol) + LateFee(f, Wsol)),
                 Maker(k), TakingAmount(f, Wsol) - LateFee(f, Wsol))
  ELSE sol

InTime(k) == order[k].deadline >= now

FillOrder(payer, k, m, f, asked) ==
  LET e == escrow[k][m]
      out == order[k].outMint
      owner == IF f.toPayer THEN payer ELSE Maker(k)
      swapped == AfterSwapOut(AfterSwapIn(f, m, e, payer), f, out, owner)
      fee == CollectedFee(asked)
  IN  /\ ~Paused /\ IsResolver(payer)
      /\ order[k].open /\ e.open
      /\ InTime(k)
      /\ f.temp => m = Wsol
      /\ f.toPayer => out = Wsol
      /\ payer = Maker(k) /\ out = Wsol => f.toPayer
      /\ CommissionsPayable(f, m, out, e)
      /\ SwapAmountIn(f, m, e) > 0
      /\ SourceChecked(f, m, e, payer)
      /\ MinReturnReached(f, k)
      /\ Closable(e, m, EscrowRest(f, m, e), Harvests(f, m, e))
      /\ FeeCovered(k, fee)
      /\ tok' = IF ToSol(f, out)
                THEN [swapped EXCEPT ![payer][Wsol] = 0] ELSE swapped
      /\ CloseOrder(k, m, EscrowRest(f, m, e), payer, fee,
                    SolAfterSwap(f, k, payer, swapped))
      /\ event' = [kind |-> "fill", key |-> k, payer |-> payer, fill |-> f]
      /\ UNCHANGED <<config, now, withheldRate, placed>>

-----------------------------------------------------------------------------
(* The surroundings: the clock, the authority of a mint, and anybody who   *)
(* sends tokens to an escrow account.                                      *)
Tick ==
  /\ now < MaxTime
  /\ now' = now + 1
  /\ UNCHANGED <<config, withheldRate, orderVars>>

SetTransferFee(m, rate) ==
  /\ m # Wsol
  /\ withheldRate' = [withheldRate EXCEPT ![m] = rate]
  /\ UNCHANGED <<config, now, orderVars>>

Donate(who, k, m) ==
  /\ escrow[k][m].open
  /\ tok[who][m] > 0
  /\ tok' = Credit(tok, who, m, -1)
  /\ escrow' = [escrow EXCEPT
       ![k][m].amount = @ + Net(m, 1), ![k][m].withheld = @ + TransferFee(m, 1)]
  /\ event' = NoEvent
  /\ UNCHANGED <<config, now, withheldRate, order, orderSol, sol, prepaid, placed>>

Configure == ConfigNext /\ UNCHANGED <<now, withheldRate, orderVars>>

Next ==
  \/ \E k \in Keys, p \in Placements : PlaceOrder(k, p)
  \/ \E k \in Keys, u \in Updates : UpdateOrder(k, u)
  \/ \E payer, refundTo \in Accounts, k \in Keys, m \in Mints, asked \in AskedFees :
       CancelOrder(payer, k, m, refundTo, asked)
  \/ \E payer \in Accounts, k \in Keys, m \in Mints, f \in Fills, asked \in AskedFees :
       FillOrder(payer, k, m, f, asked)
  \/ Configure
  \/ Tick
  \/ \E m \in Mints, rate \in WithheldRates : SetTransferFee(m, rate)
  \/ \E who \in Donors, k \in Keys, m \in Mints : Donate(who, k, m)

Spec == Init /\ [][Next]_vars

(* A maker who wants an order back submits its cancellation until it goes  *)
(* through; nobody else needs to act.                                      *)
MakerCancels(k) ==
  \E m \in Mints, refundTo \in Accounts, asked \in AskedFees :
    CancelOrder(Maker(k), k, m, refundTo, asked)

FairSpec == Spec /\ \A k \in Keys : SF_vars(MakerCancels(k))

-----------------------------------------------------------------------------
OpenOrders == {k \in Keys : order[k].open}

(* TypeOK: what every variable ranges over; no balance is ever negative.   *)
TypeOK ==
  /\ config = NoConfig \/ config \in Configs
  /\ now \in Nat /\ placed \in Nat
  /\ order \in [Keys -> OrderTerms \cup {NoOrder}]
  /\ escrow \in [Keys -> [Mints -> Escrows]]
  /\ orderSol \in [Keys -> Nat] /\ prepaid \in [Keys -> Nat]
  /\ tok \in [Holders -> [Mints -> Nat]]
  /\ sol \in [Accounts -> Nat]
  /\ withheldRate \in [Mints -> 0..WITHHELD_DENOMINATOR]
  /\ withheldRate[Wsol] = 0

(* EscrowMatchesOrder: fills and cancellations name the input mint and are *)
(* not held to the order's: they are right because an escrow of any other  *)
(* mint never exists, an order account reused for a new order included.    *)
EscrowMatchesOrder ==
  \A k \in Keys, m \in Mints :
    escrow[k][m].open <=> order[k].open /\ order[k].inMint = m

(* OrderBacked: as long as an order is open, whatever was updated, donated *)
(* or withheld, its escrow holds the amount it is making, its account the  *)
(* prepaid fee and its rent, and its terms are those a maker may ask for.  *)
OrderBacked ==
  \A k \in OpenOrders :
    /\ escrow[k][order[k].inMint].amount >= order[k].making
    /\ orderSol[k] = ORDER_MIN_RENT + prepaid[k]
    /\ order[k].making > 0
    /\ order[k].inMint # order[k].outMint
    /\ order[k].minReturn \in 1..order[k].expect
    /\ order[k].deadline >= order[k].created + MIN_DEADLINE

(* An update measures the deadline from its own time, which is no earlier  *)
(* than the order's.                                                       *)
CreatedBefore == \A k \in OpenOrders : order[k].created <= now

(* IInv: the types, and that whatever makers, resolvers, donors, mints and *)
(* the admin do, the escrow that is open is the order's and backs it.      *)
IInv == TypeOK /\ EscrowMatchesOrder /\ OrderBacked /\ CreatedBefore

Closes(k) == order[k].open /\ ~order'[k].open
Gain(who, m) == tok'[who][m] - tok[who][m]
SolGain(who) == sol'[who] - sol[who]

(* What the maker of an order is owed when it closes, besides two rents:   *)
(* the escrow if it is cancelled, min_return if it is filled.              *)
Refunded(k) ==
  LET in == order[k].inMint
      refund == Net(in, order[k].making)
  IN  \/ Gain(Maker(k), in) >= refund
      \/ in = Wsol /\ IsResolver(event'.payer) /\ Gain(event'.payer, in) >= refund

GainInKind(k) ==
  LET out == order[k].outMint IN
  Gain(Maker(k), out)
  + (IF out = Wsol THEN SolGain(Maker(k)) - TOKEN_ACCOUNT_RENT - ORDER_MIN_RENT ELSE 0)

Filled(k, least) ==
  /\ IsResolver(event'.payer)
  /\ now <= order[k].deadline
  /\ GainInKind(k) >= least

(* MakerServed: an order ends in one of two ways, both of which return the *)
(* rents: the making amount comes back to the maker (or, for wSOL, to the  *)
(* resolver who unwraps it), or, in time and by a resolver, the maker gets *)
(* min_return less the commission that is taken after the swap's check.    *)
MakerServed ==
  [][\A k \in Keys : Closes(k) =>
       /\ SolGain(Maker(k)) >= TOKEN_ACCOUNT_RENT + ORDER_MIN_RENT
       /\ \/ event'.kind = "cancel" /\ Refunded(k)
          \/ /\ event'.kind = "fill"
             /\ Filled(k, order[k].minReturn - LateFee(event'.fill, order[k].outMint))]_vars

(* MakerGetsMinReturn: "The min return amount of the order."               *)
(* (state/order.rs:21): a filled order gives its maker that much.          *)
MakerGetsMinReturn ==
  [][\A k \in Keys : Closes(k) /\ event'.kind = "fill" =>
       Filled(k, order[k].minReturn)]_vars

(* What of the commission of a fill reaches an account of p: the resolver  *)
(* chooses the account and the rate.                                       *)
OwnCommission(f, k, p, m) ==
  IF f.payee # p THEN 0
  ELSE (IF m = order[k].inMint
        THEN Net(m, TempFee(f, m, escrow[k][m]) + VaultFee(f, m, escrow[k][m])) ELSE 0)
       + (IF m = order[k].outMint THEN Net(m, OutFee(f) + LateFee(f, m)) ELSE 0)

(* ResolverGainsOnlyFees: what a resolver keeps of an order it closes is   *)
(* at most the fees its maker prepaid, and the rent of its own output      *)
(* account; a wSOL refund it receives for the maker aside, and the         *)
(* commission if it names an account of its own for that.                  *)
ResolverGainsOnlyFees ==
  [][\A k \in Keys : Closes(k) /\ event'.payer # Maker(k) =>
       LET p == event'.payer
           refund == IF event'.kind = "cancel" /\ order[k].inMint = Wsol
                     THEN escrow[k][Wsol].amount ELSE 0
           rent == IF event'.kind = "fill" THEN TOKEN_ACCOUNT_RENT ELSE 0
           commission(m) ==
             IF event'.kind = "fill" THEN OwnCommission(event'.fill, k, p, m) ELSE 0
       IN  /\ SolGain(p) + Gain(p, Wsol) <= prepaid[k] + refund + rent + commission(Wsol)
           /\ \A m \in Mints \ {Wsol} : Gain(p, m) <= commission(m)]_vars

(* What the mint withholds from the pull of a fill into the vault.         *)
WithheldOnPull(k, m) ==
  IF event'.kind = "fill" /\ event'.fill.inSa /\ m = order[k].inMint
  THEN TransferFee(m, SwapAmountIn(event'.fill, m, escrow[k][m])) ELSE 0

(* VaultNeverPays: no fill, with fees on either side or none, takes from   *)
(* the shared vault more than the mint withholds from the pull.            *)
VaultNeverPays ==
  [][\A m \in Mints :
       Gain(SaAuthority, m) < 0 =>
         \E k \in Keys :
           Closes(k) /\ Gain(SaAuthority, m) >= -WithheldOnPull(k, m)]_vars

(* EscrowComesBack: the pause flag stops cancellations too, so escrows are *)
(* the admin's to hold; but as long as trading is resumed again, however   *)
(* shortly, and the maker keeps asking, every order ends: expired, updated *)
(* to any terms, donated to or with withheld tokens in its escrow.         *)
EscrowComesBack ==
  \A k \in Keys : []<>(~Paused) => (order[k].open ~> ~order[k].open)

=============================================================================
