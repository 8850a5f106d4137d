# Verification of the Solana DEX router

This directory specifies, model-checks and proves properties of the on-chain
program in `src/programs/dex-solana/src` (written `P/` below): a router that
takes a user's tokens, splits them over routes, hops and forks, calls a foreign
DEX program for every fork, takes fees, and pays the user at least `min_return`
or reverts.

## 1. Inventory

### 1.1 What the program is

A Solana program is a set of instructions. An instruction runs alone on the
accounts it names, calls other programs synchronously, and either commits all
its effects or none. There are no threads, no callbacks after the instruction
ends and no state in the program itself; what outlives an instruction is in
accounts. The interleaving that matters is the interleaving of whole
instructions of different users on the same accounts, and, inside one
instruction, the foreign programs that run between two checks of the router.

The shared state is the **vault**: token accounts (and lamports) whose authority
is `authority_pda` ("SA"). Every proxy swap passes through it, every fork after
the first hop is signed by it, and it also keeps what fees and roundings leave
there until the claim authority collects it. A mistake in any one swap is paid
for out of that pot, so "the vault never loses" is the property most of this
project is about.

### 1.2 Components

| Component | Code | State it keeps | Operations |
|---|---|---|---|
| Swap router core | `P/instructions/common_swap.rs`, `P/adapters/common.rs`, `P/processor/*`, `P/instructions/{swap,proxy_swap}.rs` | none of its own; moves balances of user and vault token accounts | `swap`, `proxy_swap`; inside: `before_swap`, routes x hops x forks, `after_swap`, final checks |
| DEX adapters | `P/adapters/*.rs` (47) | a cursor into `remaining_accounts`, `HopAccounts` | parse accounts, `before_check`, build a foreign instruction, `invoke_process` |
| Lamport hooks | `pumpfun`, `pumpfunamm`, `moonit`, `boopfun`, `sugar_money` | lamports of SA, a source account that is closed | `before_invoke`, `after_invoke` |
| Fee arithmetic and transfers | `P/utils/fee.rs`, `P/processor/platform_fee_processor.rs` | none | commission, platform fee, trim, charge |
| V3 swaps | `P/instructions/swap_v3.rs`, `P/processor/swap_to{b,c}_processor.rs` | vault balances, SA lamports, fee accounts | `swap_v3`, `swap_tob_v3`, `swap_tob_v3_with_receiver`, `swap_tob_v3_enhanced` |
| V1, V2 commission swaps | `P/instructions/commission_*.rs`, `common_commission*.rs`, `platform_fee_*_v2.rs` | fee accounts, the vault | four instructions of version 1, two of version 2 |
| Wrap and unwrap | `P/instructions/*wrap_unwrap*.rs` | wSOL account, temporary account, lamports, the vault | three dispatched instructions |
| Limit orders | `P/limitorder/*`, `P/state/order.rs`, `P/utils/{swap,fee}.rs` | order and escrow accounts | place, update, cancel, fill, commission fill (public, **not dispatched** by `lib.rs` at this commit) |
| Global configuration | `P/state/config.rs`, `P/global_config/*` | admin, five resolver slots, trade fee, pause flag, fee multiplier | init, set_admin, add/remove resolver, ... (not dispatched) |
| Claim, account creation | `P/instructions/claim.rs`, `create_token_account*.rs` | vault | claim, create |
| Bridge entries | `P/instructions/*from_swap.rs` | none | not dispatched |
| Allocator | `P/allocator.rs` | the heap cursor | alloc |

### 1.3 How the components interact

- An entry point of `lib.rs` hands its accounts and arguments to one handler.
  The handler runs a **processor** (`SwapProcessor`, `ProxySwapProcessor`,
  `FillOrderSwapProcessor`, `SwapToBProcessor`, `SwapToCProcessor`) before and
  after `execute_swap`.
- `execute_swap` runs routes, in a route hops, in a hop forks. Every fork calls
  one adapter; adapters share `before_check`, `invoke_process` and
  `post_swap_check`, and keep state from fork to fork only in `HopAccounts`.
- A fork calls a **foreign DEX program**, with the vault's signature from the
  second hop on and for proxy swaps from the first. It is the only code that is
  not the repository's and not the runtime's.
- Fees, trim, unwrapping and payment run after the swap, on the accounts the swap
  just used.
- Limit orders run the same `common_swap` on an escrow account signed by the
  order's account, read the global configuration, and are closed by whoever
  spends the escrow first.

### 1.4 What is hard here

| Behaviour | Where | Properties aimed at it |
|---|---|---|
| Amounts and accounts handed from fork to fork, hop to hop, route to route | `common_swap.rs:485-570` | `SwapRouter!IInv`, `ImplementsAtomicSwap`, `AdapterInv` |
| A foreign program between two readings of a balance, with the vault's signature | `adapters/common.rs:80-245` | `VaultPaysOnlyUnserved`, `OnlyRouteAccountsMove` |
| Optional accounts of one proxy side, tested in different subsets before, in and after the swap | `token.rs:199`, `proxy_swap_processor.rs:81`, `114` | `VaultPaysOnlyUnserved`, `VaultKeepsItsOwn` |
| 72 ways of telling a DEX which of two accounts pays: an order of accounts, a flag, a side index, each decided by its own comparison | `adapters/*.rs` | `RightSides`, theorem `CallsRight` |
| A cursor into one account list that every adapter moves by what it says it read | `adapters/common.rs:248` | `AdapterInv` |
| Lamports: source accounts closed in the middle of a swap, refunds, sales wrapped on a prediction | `pumpfun.rs`, `pumpfunamm.rs`, `boopfun.rs`, `moonit.rs`, `sugar_money.rs` | `AuthorityKeepsLamports`, `AdapterInv` |
| Checks at the end of an instruction that has already moved money | `common_swap.rs:253-290`, `431-456` | the commits of `AtomicSwap`, `UserGetsMinReturn` |
| Fees, trim, unwrapping and closing in one order on one account | `swap_tob_processor.rs:479-770`, `common_commission.rs`, `platform_fee_proxy_swap_v2.rs` | `VaultPaysOnlyUnserved`, `UserGetsMinReturn`, `UserGetsTheRest`, `NothingStranded` |
| A temporary account that keeps what other instructions and strangers left in it | `*wrap_unwrap*.rs` | `PayerLosesOnlyFees`, `ConvertsAmount` |
| Rounding of rates, mints that withhold | `utils/fee.rs`, `utils/token.rs:244` | `FeesExact`, `CommissionInv`, `TrimLeavesExpected`, `OrderBacked` |
| Instructions of makers, resolvers and the admin in any order, a clock, mints that change their fee | `limitorder/` | `LimitOrder!IInv`, `MakerServed`, `EscrowComesBack` |
| Two builds: `check-deadline` | `cancel_order.rs:95` | `limit_order` and `limit_order_reuse` run one each |
| An address anybody can fund, an account its owner can hand over | `create_token_account*.rs` | `CreationInv` |
| Sums that saturate near the width of an address | `allocator.rs` | `HeapSound`, `ProbeHitsNoBlock` |

What does **not** occur: threads, asynchronous messages, retries or restarts. An
instruction that fails has no effect, so partial failure is one action, `Fail`,
enabled at every point of every instruction that is modelled in steps.

`PROJECT.json` lists the hazards line by line, with those no property covers yet.

### 1.5 What correct means

- *Router*: an instruction commits only if the source account lost at most
  `amount_in`, the destination gained `min_return`, no third party lost anything, and no
  vault account did but for what `after_swap` hands over of an output that the swap gave to
  the user's account (section 7).
- *V3*: the same with fees: the payer pays amount and fees, the user gets
  `min_return` in whatever form, the output alone pays fees, trim and user, with the same
  exception.
- *Fees*: each the largest amount within its rate's share; parts never exceed the
  whole.
- *Commission swaps*: the payer is left with what the swap gave less commission,
  platform fee, trim and what the bridge took; each of them arrives.
- *Adapters*: a call means the trade it was asked for, whichever way round the
  pool is; the vault's authority never pays for a hook, but into the destination of a Boop
  sale and where a Moonit buy is told to unwrap another account; forks read their own
  accounts.
- *Wrap and unwrap*: over SOL, wSOL and rent together, the payer loses the fees.
- *Limit orders*: escrow and order exist together and match; an order ends by a
  fill in time at its terms or by a refund; resolver and vault gain or lose
  nothing else; a maker who keeps asking gets the escrow back.
- *Configuration*: the slots are a set; a removed resolver is out.
- *Claim, creation, heap*: what leaves the vault arrives with the receiver; a
  creation that succeeds made the owner's account; blocks are disjoint.

## 2. Plan

A module that is proved about uses no RECURSIVE operator, takes its parameters as
CONSTANTS with named assumptions, and has one action per operation.

| # | Modules | Composes | Status |
|---|---|---|---|
| 1 | `SwapRouter`, abstract `AtomicSwap`, `MCSwapRouter`, `SwapRouterProofs` | `SwapRouter` implements `AtomicSwap` | checked, proved |
| 2 | `FeeMath` | used by 3 | its lemmas proved in `SwapV3Proofs`; checked through 3 |
| 3 | `SwapV3`, `MCSwapV3`, `SwapV3Proofs` | extends `FeeMath`; rests on 1 for `execute_swap` | checked, proved |
| 4 | `GlobalConfig`, `LimitOrder` and their MC modules, `LimitOrderProofs` (the configuration's theorems too) | `LimitOrder` extends `GlobalConfig`; rests on 1 for the swap of a fill | checked, proved but for the liveness |
| 5 | `Ledger`, `CommissionSwap`, `MCCommissionSwap`, `CommissionSwapProofs` | `Ledger` is the accounts of 5 to 8; rests on 1 for `execute_swap` | checked, proved |
| 6 | `WrapUnwrap`, `MCWrapUnwrap`, `WrapUnwrapProofs` | `Ledger` | checked, proved |
| 7 | `VaultClaim`, `TokenAccountCreation` and their MC modules, `ClaimAndCreationProofs` for both | `VaultClaim` extends `Ledger` | checked, proved |
| 8 | `DexAdapters`, `AdapterHop`, `MCAdapterHop`, `AdapterHopProofs` | `AdapterHop` runs the calls of `DexAdapters` through one route; `SwapRouter` has the rest of the loops | checked, proved |
| 9 | `BumpAllocator`, `MCBumpAllocator`, `BumpAllocatorProofs` | none | checked, proved |

`ForksRefine` ties 8 to 1: the forks of `AdapterHop` are the `DexCall` of `SwapRouter`.

What a next step would add: a `DexCall` in `SwapRouter` that closes its source account, so
that `ForksRefine` covers the buys with lamports.

## 3. Modules and the code

`map` in `PROJECT.json` gives the lines behind every definition. In short:

### SwapRouter, AtomicSwap

One swap instruction at a time. `bal` holds the balances while it runs, `ledger`
the committed ones. `Begin` is `common_swap` up to the loops (`before_swap`
included), `StartRoute`, `DexCall` and `EndHop` are the three loops of
`execute_swap`, `Finish` is its end with `after_swap` and `common_swap`'s checks,
and `Fail` is any error. The variables `route`, `hop`, `fork`, `amountIn`,
`accForkIn`, `amountOut`, `lastTo`, `hopFrom`, `hopTo` are the locals of
`execute_swap` and the fields of `HopAccounts`.

`DexCall(from, to)` is one fork: the payer picks the accounts (they are all in
`remaining_accounts`), `BeforeCheck` and `AllowListed` are the checks before the
foreign call, the foreign program then moves **any** amounts on the accounts it can
sign for, one more of the list included, and `PostSwapCheck` is what the router verifies
of it; `Trade` is the call with the checks around it. Weights, and the u64
product behind a fork's share, are kept: a product that overflows fails.

The optional accounts a caller leaves out are part of the request (`given`), and three
places test them, each as its code does: `ThroughSource` and `ThroughDestination`
(`create_sa_if_needed`), `PullsIn` (`proxy_handle_before`), `HandsOver`
(`proxy_handle_after`). `Unserved` is the side for which the last two disagree.

`AtomicSwap` is what callers see: `Submit`, then `Settle` or `Reject`. Its `Loss` is what an
account of the vault may lose by one order: what the mint withholds from the pull, and the
payment of an `Unserved` side. `ImplementsAtomicSwap` maps `ledger` to `ledger` and `req` to
`order`.

### FeeMath, SwapV3

`FeeMath` has the integer arithmetic of `calculate_fee_amounts` and
`calculate_trim_amount`; a rate left out is a rate of 0.

`SwapV3` runs one V3 instruction in the parts of its handler, `pc` naming the next
one: `Begin` (accounts, fee on the input, pull into the vault), `ExecuteSwap`, one of
`AfterSwapWithoutFee`, `TransferToFees`, `AfterSwapToC`, then `TransferTrim` or
`NoTrim`, `TransferToUser`, and `Finish` (the change of the destination account,
`min_return`, the receiver). `book` holds tokens, lamports and which accounts are
closed; `unwrapped` is `is_unwrap_wsol_to_sa`. `SourceSa` and `DestinationSa` are the
vault's accounts as named, `ThroughSource` and `ThroughDestination` say whether the swap
uses them, and `Advanced` is what the vault pays ahead for an `Unserved` side. `ExecuteSwap`
is one step bounded by what the proofs about `SwapRouter` establish.

### GlobalConfig, LimitOrder

One action per handler, each atomic as an instruction is: `PlaceOrder`,
`UpdateOrder`, `CancelOrder`, `FillOrder` (both fills; `f.commission` tells them
apart), and the seven handlers of the configuration in `Configure`. `Tick`,
`SetTransferFee` and `Donate` are the surroundings. `Keys` are the seeds of an order
account (id and maker), `escrow[k][m]` the escrow account whose seeds are order and
mint: the handlers check only those seeds, which is why `EscrowMatchesOrder` has
to be an invariant. `prepaid` is a history variable.

`CommissionsPayable` contains the commission's `checked_sub` and `checked_mul` as
guards; no other rate limit exists in these handlers, so the runs also use a rate
of 150%.

### Ledger

The accounts of the chain as the helpers of `utils/token.rs` treat them: tokens,
lamports, which accounts are open, and `excess`, lamports that were sent to a wSOL
account and not synced (`sync_wsol_account` turns them into tokens, closing pays them
out). Every helper is an operator from book to book with its guard beside it
(`PayTokens` and `TokenPayable`, `Closed` and `Closable`, ...). Mints that withhold are
left to the modules that need them.

### CommissionSwap

The instructions before V3: `version` 1 or 2 is that of the commission, and 0 stands for
the handlers without one: `swap`, `proxy_swap` and `from_swap_log`. `Begin`, `ExecuteSwap` and `FinishSwap` are `common_swap`; then `pc` names the
part of the handler: `CommissionSol` or `CommissionToken`, `Trim`, `BridgeToLog`, `Finish`.
Each optional account and program of the proxy variants is a field of the request
that may be left out, and the four places that test them do so as the code does:
`ThroughSource` and `ThroughDestination` (`create_sa_if_needed`), `PullsIn`
(`proxy_handle_before`), `HandsOver` (`proxy_handle_after`). Those tests disagree for a
partly supplied side, and `VaultKeepsItsOwn` says exactly what the vault is then left with;
no property excludes a subset. An account named for the vault is anybody's until
`create_sa_if_needed` has looked at it, so the requests also name accounts of others there.

### WrapUnwrap

One record for the three versions: `Begin` creates the temporary account, `Wrap` or
`Unwrap` converts, `FeesV1`, `FeesV2`, `FeesV3` or `FeesV3ToB` charge, `Finish` reads the
payer's account again; on a book that earlier instructions and donations left in any state, the
temporary account included.

### VaultClaim, TokenAccountCreation

`VaultClaim` interleaves claims with the fees that swaps leave in the vault, in
either form, and anybody's `sync_native`. `TokenAccountCreation` has both
instructions as one creation at an address derived from owner and seed, amid funding,
handing over and closing by others. `CreationInv` says what an answer means: success, that
the account is its owner's now; failure, that the rent was missing or the account handed
over (`RefusedForCause`) or that the `bump` argument is not the address's, so lamports sent
beforehand block nothing.

### BumpAllocator

`alloc` (`Alloc`, or `Abort` where the probing write leaves the mapped heap) and `dealloc`;
`SaturatingAdd` is the code's, and the position is stored in the first word of the heap.

### DexAdapters, AdapterHop

`DexAdapters` is a table with one operator per adapter: from a **block** (the accounts
laid out for the adapter, the mints of its pool, the token programs) and the amount
offered to the set of calls it makes, empty if it refuses. A call names the account to
debit, the account to credit, the side of the pool that takes, the most the DEX may
take, how many accounts were read, and the positions its hooks read. Adapters fall into
families: `Flagged` ones order the user's accounts by the pool's mints and add a
direction, `PoolSided` ones order the pool's vaults, `Positional` ones give source and
destination and leave the direction to the DEX, `OneWay` ones encode one direction
whatever they are given. `CallsOf` covers every variant of the `Dex` enum: 72 that
trade (two share one adapter) and the 14 that `distribute_swap` refuses (`Aborted`).

`CallRight` says what a right call is, `Tradable` when a pool trades the two mints. Boop's
sale and Moonit's calls have slots that nothing ties to the swap (`SlotDexes`): the seller,
the recipient and the seller's account, the sender and its account, and the account that
Moonit's hook unwraps. They are fields of the block, filled by the caller (`Slots`);
`OwnSlots` is the caller who fills them with the accounts of the swap. What a hook wraps on
a prediction is any amount (`Promises`), whatever arrived.

`AdapterHop` runs one route over it. `Parse` reads the block at the cursor and does the
adapter's checks, `BeforeInvoke`, `DexCall`, `AfterInvoke` and `PostSwapCheck` are the parts of
`invoke_process`, `EndHop` and `Finish` the end of the loops. The DEX trades any amounts
in its pool's mints on accounts that sign, one unit more than it was told, and may take
from any other listed account whose owner signs.

The account list of a route is a sequence of blocks, one per fork, each with the position
`at` where it lies and a `size`. `RouteAssumption` says what a caller who wants the route
to succeed provides: blocks that do not overlap, in the order of the plan, each at least
as long as its adapter reads. `offset` is the cursor of the code, which the adapters move
by what *they* count; that it stands at the right block when a fork begins is proved, not
assumed (`CursorInv`, `OwnBlock`), and rests on the lemma that what an adapter reads
depends on the accounts and not on the amount (`LengthOfAmount`).

`AdapterInv` is a conjunction: `CursorInv` and `OwnBlock` for the cursor, `HopInv` for
`HopAccounts`, `Backed` and `ForkBacked` for what a hop offers, `ForkKept` for what a fork
may have done to the vault at each of its stages (`LamportsOfVault` for its lamports).
`Backed` is about the `Accountable` routes, see section 7, that start at the account they
name: one that does not is refused only when its first hop ends.

## 4. Runs

Amounts are single tokens; denominators are 2 to 5, so that every rounding occurs.

| Run | Question | Bounds and why they are enough |
|---|---|---|
| `swap_router` | Does any step of a swap lose track of tokens, and is the whole one atomic trade? | a route with a split, two hops, two split hops, two routes, an empty route, three refused argument lists, a source mint that withholds; for every argument both sides whole or absent, and for single routes sides without the associated token program, without the authority, and with the source program alone; every account may be picked for every fork, a DEX takes and gives 0 to 2 tokens |
| `swap_v3` | Who pays for the settlement, and are fees exact? | a wSOL output with every subset of commission, platform fee, trim, charge, closing and receiver, fee accounts in SOL or tokens, poor and rich; fees on the input or the output, by both processors, on both mints and round trips, with a mint that withholds half; optional accounts left out on either side |
| `global_config` | Are the slots a set? | three keys, two slots: full, empty and with holes all occur; deployer distinct, the two others symmetric |
| `limit_order` | What is everybody left with when an order ends, and does it end? | one order, wSOL to T and T to wSOL, three updates, two ticks, two fees on three accounts, every combination of temporary account, vault accounts and payee, donations, pause and resume; a resolver may name itself as the commission's payee |
| `limit_order_reuse` | Do orders see each other's escrow? | two ids, three placements (so an id is reused, for the other mint), `check-deadline`, a mint that changes its fee |
| `limit_order_commission` | **violation**, see section 7 | the instance of `limit_order` |
| `commission` | Do the older swaps charge the right account, once, and leave the vault alone? | both mints on both sides and a round trip, commission on either side in SOL or tokens at three rates, platform fee and trim to a wallet or an account, bridges, a full proxy swap and one with each optional account left out in turn, `swap` and `proxy_swap` themselves with every subset of the optional accounts, accounts that are not the vault's named in its place, platform fees past the vault; a vault with and without tokens; `U64_MAX` of 11 so that the products of version 1 overflow and those of version 2 do not |
| `wrap_unwrap` | What does a conversion cost, and whom? | two instructions or donations in a row of three versions, amounts 0, 2, 3, accounts that start closed, open, with unsynced SOL, poor and rich payees, the vault's accounts among them, one account for both fees |
| `vault_claim` | Does a claim arrive, and is anything left that must be? | two wSOL accounts of the vault and one of another mint, receivers with, without and creating an account, the vault itself as receiver, four steps |
| `token_account_creation` | Does success mean that it is the owner's account? | two owners, two seeds, up to a lamport more than the rent |
| `bump_allocator` | Are blocks apart, whatever the sizes? | a heap of 12 bytes, addresses of 5 bits, sizes up to half of the address range, three alignments: saturation and overrun both occur |
| `adapters` | Does every adapter ask for the trade it was asked for, and do the hooks keep the vault's lamports? | every `Dex` variant, both directions, both layouts of the pool, the user's and the vault's accounts; pools of other mints; two forks and two hops around each adapter that touches lamports, reports something else than what arrived, or withdraws, a second withdrawal in one hop included; first hops that start at another account than the route's; amounts 1 and 3 with everything a caller can put into the slots of Boop and Moonit; an authority with and without lamports |

The largest, `commission`, has about 237,000 states.

`MaxCommits` is 1 in the swap runs: a behaviour starts from any of the initial
ledgers and instructions leave nothing behind but balances, so a second one adds
nothing that a different initial ledger does not. It is 2 in `wrap_unwrap`, where the
temporary account carries state over. The proofs have no such bound.
`CHECK_DEADLOCK FALSE` appears where the program idles once a bound is reached;
no instruction ever waits for anything.

**Fairness.** The loops of a handler are bounded by its arguments, failure is always
possible, and nobody is obliged to submit an instruction: in general the code
justifies no fairness. The one liveness property, `EscrowComesBack`, is about a maker
who wants an order back: `FairSpec` is strong fairness of that maker's own
cancellations (`MakerCancels`), which is what "keeps submitting until one goes
through" means on a chain that does not censor. It has to be strong because the pause
flag disables cancellations on and off; and it assumes, in the property, that trading
is resumed again and again (`[]<>(~Paused)`): with a pause that stays the property
does not hold, and is not claimed. Its run leaves the mints' fees fixed, see section 7.

Every property has a mutant in `PROJECT.json`, a plausible slip in one definition
(named with a suffix next to the definition, with the comment "Mutant"), under which
its run fails.

## 5. Proofs

Assumptions are the named `ASSUME`s: payer, vault authority and null address are
different, amounts are naturals, a mint withholds at most what is sent, wSOL
withholds nothing, denominators are positive. TLC evaluates each on the instances.

| Theorem | Says | Argument |
|---|---|---|
| `SwapRouterProofs!Invariance` | `IInv`: types, `LoopInv`, `VaultCovered`, `PayerCovered`, `NothingLeft` always hold | `VaultCovered` alone is not inductive: a fork may only be charged to what the vault holds *for the instruction*, which depends on the account the hop before ended in, which `LoopInv` ties to the loop variables |
| `VaultSafe`, `PayerSafe` | `VaultPaysOnlyUnserved`, `PayerSpendsAtMostAmountIn`, for every subset of the optional accounts | from `IInv` at the commit; `HeldFor` counts what the vault holds only for a side the swap goes through, so what it pays for another is its own |
| `VaultLeftNothing` | `NothingStranded` | `NothingLeft` bounds the vault from above by the same amounts that `VaultCovered` bounds it from below by: what it owned and what it holds for the instruction. A hop without forks, or one that does not start at the source account, breaks the bound for a moment and can then only fail, which the invariant says too |
| `Refinement` | `Spec => ImplementsAtomicSwap` | every step but `Begin`, `Finish`, `Fail` stutters; `Finish` is `Settle` by the two accounting invariants |
| `SwapV3Proofs` (lemmas on `FeeMath`) | what each fee is bounded by | Euclid's division, from `Division` on |
| `SwapV3Proofs!V3Invariance` | `IInv`: `TypeOK`, `HandlerInv`, `VaultCovered`, `PayerCovered` | each settling step pays its price out of the *output purse* (the vault's output account and the authority's SOL together); `SettlingStep` states that once and every action instantiates it |
| `V3FeesExact`, `V3VaultSafe`, `V3PayerSafe` | `FeesExact`: on either side, each fee is the largest amount within its share; `VaultPaysOnlyUnserved`, `PayerSpendsAtMost` | from the invariant and the lemmas on fees |
| `V3Settlement`, `V3UserGetsMinReturn`, `V3TrimLeavesExpected`, `V3NothingStranded` | `SettlementInv` and the three properties about the end of an instruction | four measures, each with what every settling step does to it: the tokens of the destination account, the user's wallets (SOL and wSOL), the output purse, the tokens of the vault's source account. `UserCovered` says what the user has got so far, `NothingLeft` what the vault has kept so far; both are void for instructions that can only fail (`Doomed`) |
| `LimitOrderProofs!ConfigInvariance`, `RemovalIsFinal` | `ConfigInv`: the slots are a set; one cleared slot removes a resolver | an addition is refused if the key is in any slot, hence clearing the first match clears them all |
| `LimitOrderProofs!OrderInvariance` | `IInv`: `TypeOK`, `EscrowMatchesOrder`, `OrderBacked`, `CreatedBefore` | an update measures the new deadline from its own time, so that the order was created no later is what keeps the deadline far enough from its creation. `OrderSound` states the invariant for one order, so a step answers for the one it touches |
| `OrderVaultSafe`, `OrderMakerServed` | `VaultNeverPays`, `MakerServed` | `FillIn`, `FillOut`: every part of escrow and output that is sent somewhere is there; `SwapInEffect`, `SwapOutEffect`, `CloseSol`: whose balances a fill changes. `MakerServed` needs `EscrowMatchesOrder`: the mints on the two sides of a fill differ only because the mint it names is the order's |
| `OrderResolverPaid` | `ResolverGainsOnlyFees` | `PayerIn`, `PayerOut` bound what each half of a fill leaves with the one who pays for it; `FeePrepaid`: the fee that is charged was prepaid. A resolver that names itself for the commission keeps it on top, and no more (`OwnCommission`) |
| `CommissionSwapProofs!Invariance` | `CommissionInv`: types, exact shares, what the handlers rely on, and four running accounts: vault, payer, output, commission | every step has one lemma about the ledger and one per account. `HeldFor` says what the vault holds for the swap at each point, and the platform's fee with it; what the vault is named for stays open because `create_sa_if_needed` looked at it (`Loaded`); for an account it did not look at nothing is assumed |
| `VaultKept`, `PayerSpends`, `UserGetsExactly`, `FeesReach`, `TrimLeaves` | `VaultKeepsItsOwn`, `PayerSpendsAtMost`, `UserGetsTheRest`, `FeesArrive`, `TrimLeavesExpected` | the running accounts at `Finish`, the only step that commits |
| `BumpAllocatorProofs!HeapSoundness`, `HeapProbeHitsNoBlock` | blocks are disjoint, aligned, mapped, and apart from the stored position and the probing byte | `HeapInv` adds that every block ends at or before the position, which alone is what the next allocation knows of them. Uses that aligning a position of the heap cannot saturate (`HeapEnd + align <= USIZE_MAX`: heap addresses are near 3 * 2^32, alignments at most 2^63). A block whose *end* saturates is not excluded by that; it aborts |
| `WrapUnwrapProofs!WrapInvariance` | `WrapInv`, inductive, of one part per stage: `RunningInv`, `BegunInv`, `ConvertedInv`, `PaidInv` | the properties speak of the commit and say nothing of the stages before it, so each part says what its stage has made of the books at the start: `BegunInv` that the payer's purse has not changed, `ConvertedInv` that the amount has moved within the payer's own accounts, `PaidInv` that the fees have left them and arrived. A conversion closes or syncs whatever it finds, which is harmless because an account that is not there holds nothing (`EmptyUnlessOpen`). The four fee handlers are shown to come to one payment of commission and platform fee (`FeesTaken`), on which every part of `PaidInv` is proved once |
| `ConversionCostsFees`, `ConversionPaysFees`, `ConversionIsExact`, `ConversionLeavesVault` | `PayerLosesOnlyFees`, `FeesArrive` (every fee account gains exactly its parts, the vault's too), `ConvertsAmount`, `VaultKeepsItsOwn` | `PaidInv` at `Finish`; every other step leaves the committed book, and a donation takes nothing from anybody |
| `ClaimAndCreationProofs!ClaimKeepsRent`, `ClaimArrives` | `AuthorityKeepsRent`, `ReceiverGetsTheClaim` | `BookInv`: balances stay natural; each step's effect is a lemma on the ledger's operators (`PayTokensEffect`, `PaySolEffect`, `OpenedEffect`), the two theorems are arithmetic on them |
| `CreationInvariance` | `CreationInv` | inductive with `RentHeld`: handing over, funding and closing keep an account's rent in it, so that "initialised" (lamports and an owner) and "holds the rent" never part |
| `AdapterHopProofs!CallsRight` | each call of any adapter is, for all mints, accounts, pools and amounts, one that its DEX understands as a trade from source to destination of at most what was offered, or is refused by the DEX, and its hooks find the accounts they mean, if a caller's slots hold the swap's own accounts (`OwnSlots`) | one lemma per family (`BothWays`, `OneWayOnly`, `FlaggedRight`, `BothMintsRight`, `OneMintRight`, `NamedRight`, `FromSourceSide`, `LamportSide`), then each adapter is shown to be of its family; positions that hooks read are looked up in the list of the call (`ListedAt`, `LastPosition`) |
| `SidesAreRight` | `RightSides`, of calls with `OwnSlots` | `CallsRight`, and `NoneRefused`: a trading adapter refuses no pool that trades the two mints |
| `AdapterInvariance` | `AdapterInv` | the cursor: only the next fork's block starts where it stands, since blocks have a size and do not overlap. The money: what the hooks and the DEX do to every account and to lamports (`BeforeInvokeEffect`, `DexCallEffect`, `AfterInvokeEffect`); `post_swap_check` turns that into what the next fork, or hop, is offered |
| `ForksRefine` | `ForksAreDexCalls`: while a route goes on, `SwapRouter`'s variables, as `AdapterHopProofs` reads them off the state, do not change, or a hop ends as `SwapRouter` has it, or a fork settles and that is `SwapRouter`'s `DexCall` (`BeforeCheck` and `Trade`) on the block's accounts and the amount offered. Left out (`Plain`): buys with lamports, which close their source account, forks whose slots hold others' accounts, and the withdrawals of Perpetuals and Saber (section 7) | `PlainFork` follows the fork: the checks of `Parse` are `before_check` because no other adapter buys (`BuysBuy`), the call changes the tokens of source, destination and at most one account of the payer (`PlainTrade`, `TakenFromPayer`), and the hook after it only adds to the destination (`PlainSettles`), so the sum is one `AfterCall`. `RouterBal`, the balances `SwapRouter` sees, are those the fork found until it settles. Assumes the code's lower bound, 95 of 100, which `SwapRouter` has as numbers |
| `AuthorityKept`, `OthersStay` | `AuthorityKeepsLamports`, `OnlyRouteAccountsMove` | from `ForkKept` at the last stage; a buy cannot cost the authority more than it unwrapped because `ForkBacked` says that what is offered was in the account. The exceptions are part of the statements: a Moonit buy told to unwrap another account closes that one and costs up to the amount offered less what it freed; what a Boop sale costs has gone into the destination |

Only model-checked: the liveness `EscrowComesBack`, and the mutants and the violation, which
are TLC's by nature. Every invariant and every action property of a passing run is a
theorem. Out of the prover's reach: liveness and induction over data. The fold that totals
the routes' amounts is therefore given by its steps (`sums`), and the lengths of the blocks
before a fork by their positions (`at`), so that no proof needs induction. No property uses
`ENABLED`: that a failed creation had a cause is stated of the answer.

Stating the invariants so that they could be proved brought up what the runs had not:
`NothingStranded` of V3 fails for a fee account that is the destination account when that
is unwrapped into the vault, and `TrimLeavesExpected` for a destination in the vault (section
6); and a second withdrawal of liquidity from Perpetuals in one hop hides that the first
turned it round (section 7); the run `adapters` now has such routes.

## 6. Assumptions of the models, and what is left out

The swap:

- The definitions and the proofs have every subset of the optional accounts of a proxy side
  (`SwapRouter`, `SwapV3`, `CommissionSwap`); the runs have those that section 4 lists. Anchor's
  constraint `token::token_program = source_token_program` may already refuse a list without
  that program; the models let it be left out, which only adds behaviours. The two fills of
  `LimitOrder` have a side's accounts together or not at all.
- The payer is the only signer. DEX programs are external and unconstrained but by
  the signatures they hold. A token program moves what it is told, less what the
  mint withholds.
- A vault account exists when it is named; its creation is reduced to its result.
- The chain of hops that `SwapRouter` shows (each hop starts where the last ended) is
  that of adapters that pass `before_check` their source and destination in this order:
  all but the withdrawal of Perpetuals, see section 7. That adapters with their hooks come
  to such a fork is `ForksRefine`; buys with lamports close the source account, which is in
  `AdapterHop` only.
- A round trip through one vault account leaves the principal there, and an empty
  route leaves its amount in the vault: both are what the code does, and
  `NothingStranded` excludes them by name.
- In `SwapV3`, `NothingStranded` also leaves out fee accounts, payees and destinations in
  the vault, and a fee account that is the destination account: what is paid into the
  account before it is closed goes to the vault with it. `TrimLeavesExpected` leaves out a
  destination in the vault, whose account the payments come out of.
- A mint that withholds makes the vault lose the fee of the pull (`PullFee`): the
  routes still spend `amount_in`.
- ToC lifts poor fee accounts to the rent minimum at the payer's cost, which
  `UserGetsMinReturn` allows for.
- The runtime's check that accounts stay rent exempt is not modelled.

Limit orders: one token account per owner and mint; `ORDER_MIN_RENT` is the rent of the
order account; the signature fee, priority fee and tips are one input, `AskedFees`; a
resolver may receive a wSOL refund in its own account, which the code's comment says it
then unwraps for the maker. No instruction of `lib.rs` reaches these handlers, the global
configuration's, or the bridge's at this commit.

Wrap and unwrap: an account that is not open holds nothing at the start, and donations go
to open accounts. Lamports at the temporary account's address before it is created are left
out: `init_if_needed` would count them towards the rent, to the payer's advantage.

Claims: mints that withhold are left out.

Adapters:

- What is modelled is the router's side. That a DEX trades only the mints of its pool,
  in the direction it understands (`Accepts`), is assumed of it; how much it takes and
  gives is not, beyond one unit more than it was told (enough for every comparison).
- A purchase costs at most `amount_in`, plus the rent of an account for Pump.fun, Boop and
  Sugar, whose hooks expect it; a sale to the Pump AMM may cost the authority one rent; an
  RFQ program sends exactly its quote; a DEX opens no account.
- The slots of Boop's sale and of Moonit are the caller's. Of the other slots that nothing
  ties to the swap it is assumed that they hold the swap's own accounts: the DEX's own input
  and output slots of Byreal, Dooar, Heaven, Saber and DAMM v2, Byreal's payer, the mints of
  Sanctum.
- The mints of a pool differ. Pools that trade one way or whose sides are named are laid
  out accordingly: VIRTUAL first; wSOL first for Vertigo; the token first for Heaven, the
  vaults and the liquidity adapters; the underlying token first for Saber; from, then to,
  for Sanctum's router; wSOL at index 1 of Sanctum's list, as the code has it.
- `owner_seeds` is absent: no dispatched instruction passes it. Hops are numbered from 1
  in the model, from 0 in the code.

Not modelled: the layout of a pool's own accounts and of those that the sub-programs of
Sanctum take, which only reach the DEX; the bonding curves and fee tiers behind the
predicted proceeds of Pump.fun and Boop (the prediction is any amount); `Commission` of V3, a
trait without a user; dispatch, logging, events' contents, and the components that
`PROJECT.json` marks so, with the reason.

## 7. Where code and documentation disagree

- **`limit_order_commission`** (a run): `state/order.rs:21` calls `min_return_amount` the min
  return of the order; a commission fill that pays the maker in SOL takes its
  commission after that check.

Met while modelling, without a run of their own:

- The optional accounts of a proxy side are tested in different subsets.
  `create_sa_if_needed` (`token.rs:199-206`) wants five of them, `proxy_handle_after`
  (`proxy_swap_processor.rs:114-130`) three, and the V3 payments
  (`swap_toc_processor.rs:360`, `swap_tob_processor.rs:131-142`, `508`, `693`) the vault's
  account alone. With some of the five left out, `execute_swap` gives the output to the user's
  own account, and `after_swap` still pays `amount_out` (in V3: what is left of it after fees and
  trim, and the fees too) from the vault's account: the user is paid by the vault in addition to
  the DEX. In V3 this does not happen where the output is unwrapped. `VaultPaysOnlyUnserved` and
  `VaultKeepsItsOwn` state that payment exactly (`Unserved`), and that nothing else an
  instruction does is paid for by the vault; without that term TLC refutes each of them. The
  same mismatch is in `FillOrderSwapProcessor` (`utils/swap.rs:137-190`), whose handlers are
  not dispatched. Testing one predicate in all of these places would make the term
  unnecessary.
- `boopfun.rs:511-512`, `577-590`: a Boop sale sends its proceeds to the recipient that the
  account list names, and the hook then wraps what the adapter's formula predicted out of the
  authority's lamports, whether it arrived there or not. `AuthorityKeepsLamports` therefore
  bounds what the authority is short of by what has gone into the destination.
- `moonit.rs:81-103`, `228`: the hook of Moonit's buy unwraps whatever account its last slot
  names, which nothing compares with the fork's source. `OnlyRouteAccountsMove` and
  `AuthorityKeepsLamports` name that account and its lamports as the exception.

- `swap_tob_processor.rs:492` says "Transfer remaining SOL & token account rent to payer";
  what the destination account held before the swap stays with the vault's authority.
- `cancel_order.rs:137` says "Harvest the transfer fee if it exists"; the code harvests if
  the mint withholds *now*. If the mint dropped its fee after the order was placed, the
  escrow cannot be closed until somebody harvests it separately; `limit_order`, where
  `EscrowComesBack` is checked, keeps the mints' fees fixed.
- `common_commission.rs:123`: versions 1 and 2 take a commission on the output after
  `min_return` was compared, so the payer may be left with less than it.
- `platform_fee_wrap_unwrap_v2.rs:180-184` unwraps the optional vault account of the charged side
  whatever the fee, where line 82 asks for the account of either side, and only for a fee.
- `perpetuals.rs:334-342`: the withdrawal of liquidity passes `before_check` its destination
  as the source, so the comparison with the account the last hop ended in
  (`adapters/common.rs:53-59`) is made of the wrong one. As a later fork of its hop it turns
  the hop round, from destination to source, and a second one turns it back, so that the end
  of the hop shows nothing. `AdapterInv` leaves that adapter out of its clause about what a
  hop offers, but as the very first fork (`Accountable`); without that exemption TLC refutes
  it.
- `saber_decimal_wrapper.rs:218` reports the amount offered as the amount received, of two
  tokens that may have different decimals: the same exemption, for the same reason. A buy
  with lamports on the next hop may then cost more than the account it unwraps holds, at
  the vault authority's expense: `AuthorityKeepsLamports` is about the other routes, and
  the run, which has these too, refutes it without `Accountable`.
- `sanctum.rs:1463-1554` takes wSOL to be at index 1 of the pool's list of tokens.
- `sanctum_router.rs:1455` uses the low 32 bits of the order id as the seed of a bridge
  account.
