----------------------------- MODULE SwapRouter -----------------------------
(***************************************************************************)
(* One swap instruction of the router at a time: common_swap, the plain    *)
(* and the proxy processor, execute_swap's three nested loops (routes,     *)
(* hops, forks) and the checks that every adapter runs around its call of  *)
(* a DEX program (before_check, invoke_process, post_swap_check).          *)
(*                                                                         *)
(* The payer chooses every account of remaining_accounts, so the accounts  *)
(* of a fork are chosen when the fork is reached.  The DEX program is      *)
(* external: it takes and gives any amounts, and only the router's own     *)
(* checks bound them.  An instruction that fails restores every balance.   *)
(***************************************************************************)
EXTENDS Integers, Sequences, Functions

CONSTANTS
  Accounts,          \* token accounts
  Mints,
  MintOf,            \* the mint of every token account
  OwnerOf,           \* the authority of every token account
  Payer,             \* the signer of the instruction
  SaAuthority,       \* authority_pda, the owner of the shared vault accounts
  ZeroAddress,       \* ZERO_ADDRESS, and an optional account left out
  Requests,          \* the instructions a payer may submit
  InitialBalances,   \* the balances the first instruction may find
  TransferFee(_, _), \* what the mint withholds from a transfer
  U64Max,            \* where a checked multiplication fails
  MaxBal,            \* bound: the largest balance (the supply of a mint)
  MaxOut,            \* bound: the most one DEX call gives
  MaxCommits         \* bound: instructions that commit in a behaviour

TOTAL_WEIGHT == 100
MAX_HOPS == 3

(* The optional accounts of a proxy swap besides the vault accounts.         *)
OptionalAccounts ==
  {"saAuthority", "sourceProgram", "destinationProgram",
   "associatedTokenProgram", "systemProgram"}

SaAccounts == {a \in Accounts : OwnerOf[a] = SaAuthority}
PayerAccounts == {a \in Accounts : OwnerOf[a] = Payer}

(* amounts and routes are sequences of the same nature as in the code; a   *)
(* Route is the sequence of its weights.  sums[i] is the value of the fold *)
(* that totals the amounts after its i-th step.                            *)
IsArgs(a) ==
  /\ a.amountIn \in Nat /\ a.expectOut \in Nat /\ a.minReturn \in Nat
  /\ a.amounts \in Seq(Nat)
  /\ a.routes \in Seq(Seq(Seq(Nat)))
  /\ a.sums \in [0..Len(a.amounts) -> Nat]
  /\ a.sums[0] = 0
  /\ \A i \in 1..Len(a.amounts) : a.sums[i] = a.sums[i - 1] + a.amounts[i]

(* A vault account of the right mint, or none: the handlers verify what    *)
(* they pull into or pay from, and use no other account a payer names.     *)
VaultAccountFor(sa, user) ==
  sa \in SaAccounts \cup {ZeroAddress} /\ (sa # ZeroAddress => MintOf[sa] = MintOf[user])

IsRequest(r) ==
  /\ r.src \in PayerAccounts
  /\ r.dst \in Accounts
  /\ VaultAccountFor(r.srcSa, r.src)
  /\ VaultAccountFor(r.dstSa, r.dst)
  /\ r.given \subseteq OptionalAccounts
  /\ IsArgs(r.args)

ASSUME AccountsAssumption ==
  /\ MintOf \in [Accounts -> Mints]
  /\ DOMAIN OwnerOf = Accounts
  /\ Payer # SaAuthority
  /\ ZeroAddress \notin Accounts

ASSUME BoundsAssumption ==
  /\ U64Max \in Nat /\ MaxBal \in Nat /\ MaxOut \in Nat /\ MaxCommits \in Nat
  /\ InitialBalances \subseteq [Accounts -> 0..MaxBal]

ASSUME RequestsAssumption == \A r \in Requests : IsRequest(r)

ASSUME TransferFeeAssumption ==
  \A m \in Mints, x \in 0..MaxBal : TransferFee(m, x) \in 0..x

VARIABLES
  bal,        \* balance of every token account
  ledger,     \* the committed balances, what a failure restores
  phase,      \* "idle" between instructions, "swap" inside one
  req,        \* the running instruction: its accounts and arguments
  outBefore,  \* execute_swap's before_destination_balance
  route,      \* index of the current route, 0 before the first
  hop,        \* index of the current hop
  fork,       \* index of the next fork of the hop
  amountIn,   \* amount_in of the current hop
  accForkIn,  \* acc_fork_in
  amountOut,  \* amount_out of the current hop so far
  lastTo,     \* hop_accounts.last_to_account
  hopFrom,    \* hop_accounts.from_account
  hopTo,      \* hop_accounts.to_account
  underspent, \* history: some DEX call took less than it was offered
  commits     \* bound: how many instructions have committed

loopVars == <<route, hop, fork, amountIn, accForkIn, amountOut,
              lastTo, hopFrom, hopTo>>
vars == <<bal, ledger, phase, req, outBefore, loopVars, underspent, commits>>

NoRequest == [src |-> ZeroAddress]

-----------------------------------------------------------------------------
(* create_sa_if_needed wants five of the optional accounts before the swap *)
(* runs on a vault account; proxy_handle_before wants two and              *)
(* proxy_handle_after three before they move tokens.                       *)
CREATES_SA == {"saAuthority", "associatedTokenProgram", "systemProgram"}

ThroughSource(r) ==
  r.srcSa # ZeroAddress /\ CREATES_SA \cup {"sourceProgram"} \subseteq r.given
ThroughDestination(r) ==
  r.dstSa # ZeroAddress /\ CREATES_SA \cup {"destinationProgram"} \subseteq r.given
PullsIn(r) == r.srcSa # ZeroAddress /\ "sourceProgram" \in r.given
HandsOver(r) ==
  r.dstSa # ZeroAddress /\ {"saAuthority", "destinationProgram"} \subseteq r.given

(* The accounts execute_swap works on.                                     *)
SourceAccount(r) == IF ThroughSource(r) THEN r.srcSa ELSE r.src
DestinationAccount(r) == IF ThroughDestination(r) THEN r.dstSa ELSE r.dst
ProxyFrom == req.srcSa # ZeroAddress

(* The balances after `out` left one account and `in` reached another.      *)
Move(b, from, to, out, in) ==
  [a \in Accounts |-> b[a] - (IF a = from THEN out ELSE 0)
                           + (IF a = to THEN in ELSE 0)]

(* A token transfer: the mint may withhold a part from the recipient.      *)
Transfer(b, from, to, x) == Move(b, from, to, x, x - TransferFee(MintOf[to], x))

BeforeSwap(r) ==
  IF PullsIn(r) THEN Transfer(bal, r.src, r.srcSa, r.args.amountIn) ELSE bal

(* Mutant: the amounts need not total amount_in. *)
ArgsCheckedNoTotal(a) ==
  /\ a.amountIn > 0
  /\ a.minReturn > 0
  /\ a.expectOut >= a.minReturn
  /\ Len(a.amounts) = Len(a.routes)

ArgsChecked(a) ==
  /\ a.amountIn > 0
  /\ a.minReturn > 0
  /\ a.expectOut >= a.minReturn
  /\ Len(a.amounts) = Len(a.routes)
  /\ a.sums[Len(a.amounts)] = a.amountIn

ResetHop ==
  /\ fork' = 1
  /\ accForkIn' = 0
  /\ amountOut' = 0
  /\ hopFrom' = ZeroAddress
  /\ hopTo' = ZeroAddress

RequestAfter == NoRequest

Quiet ==
  /\ phase' = "idle"
  /\ req' = RequestAfter
  /\ outBefore' = 0
  /\ route' = 0
  /\ hop' = 1
  /\ amountIn' = 0
  /\ lastTo' = ZeroAddress
  /\ underspent' = FALSE
  /\ ResetHop

-----------------------------------------------------------------------------
Init ==
  /\ bal \in InitialBalances
  /\ ledger = bal
  /\ phase = "idle"
  /\ req = NoRequest
  /\ outBefore = 0
  /\ route = 0 /\ hop = 1 /\ fork = 1
  /\ amountIn = 0 /\ accForkIn = 0 /\ amountOut = 0
  /\ lastTo = ZeroAddress /\ hopFrom = ZeroAddress /\ hopTo = ZeroAddress
  /\ underspent = FALSE
  /\ commits = 0

(* The handler up to execute_swap's argument checks: account constraints,  *)
(* before_swap (which moves amount_in into the vault for a proxy swap).    *)
Begin(r) ==
  /\ phase = "idle"
  /\ commits < MaxCommits
  /\ PullsIn(r) =>
       /\ bal[r.src] >= r.args.amountIn
       /\ bal[r.srcSa] + r.args.amountIn <= MaxBal
  /\ ArgsChecked(r.args)
  /\ bal' = BeforeSwap(r)
  /\ outBefore' = bal'[DestinationAccount(r)]
  /\ phase' = "swap"
  /\ req' = r
  /\ UNCHANGED <<ledger, loopVars, underspent, commits>>

Hops == IF route = 0 THEN <<>> ELSE req.args.routes[route]
Weights == Hops[hop]
RouteDone == hop > Len(Hops)

(* Level 1: the next route takes its amount from the source account.       *)
StartRoute ==
  /\ phase = "swap"
  /\ RouteDone
  /\ route < Len(req.args.routes)
  /\ Len(req.args.routes[route + 1]) <= MAX_HOPS
  /\ route' = route + 1
  /\ hop' = 1
  /\ amountIn' = req.args.amounts[route + 1]
  /\ lastTo' = ZeroAddress
  /\ ResetHop
  /\ UNCHANGED <<bal, ledger, phase, req, outBefore, underspent, commits>>

LastFork == fork = Len(Weights)

(* The weights of the hop; a hop without forks totals 0.                   *)
WeightsSumTo100 == Weights # <<>> /\ SumFunction(Weights) = TOTAL_WEIGHT

(* Mutant: every fork takes its share, rounded down. *)
ForkAmountInShare == (amountIn * Weights[fork]) \div TOTAL_WEIGHT

(* Level 2: the amount offered to a fork, the last one taking what is left. *)
ForkAmountIn ==
  IF LastFork THEN amountIn - accForkIn
  ELSE (amountIn * Weights[fork]) \div TOTAL_WEIGHT

ForkAmountChecked ==
  IF LastFork THEN amountIn >= accForkIn
  ELSE amountIn * Weights[fork] <= U64Max

(* The authority of a fork: the payer on a first hop that starts at the    *)
(* user's account, the program's own authority otherwise.                  *)
SignedBySa == ProxyFrom \/ hop > 1
Signer == IF SignedBySa THEN SaAuthority ELSE Payer

(* Mutant: a hop may start anywhere. *)
BeforeCheckNoChain(from, to) ==
  /\ hopFrom # ZeroAddress => from = hopFrom /\ to = hopTo
  /\ OwnerOf[from] = Signer

BeforeCheck(from, to) ==
  /\ hopFrom # ZeroAddress => from = hopFrom /\ to = hopTo
  /\ lastTo # ZeroAddress => from = lastTo
  /\ OwnerOf[from] = Signer

(* No other vault account may be in the list of a call the vault signs.    *)
AllowListed(extra, from, to) ==
  SignedBySa /\ extra \in SaAccounts => extra \in {from, to}

(* ACTUAL_IN_LOWER_BOUND: a DEX takes at least 95% of what it is offered.  *)
PostSwapCheck(offered, before, after, from, to) ==
  LET actualIn == before[from] - after[from]
      actualOut == after[to] - before[to]
  IN  /\ actualIn <= offered
      /\ actualIn >= (offered * 95) \div 100
      /\ actualOut > 0

(* What a DEX may take from a third account in its list: something only if *)
(* the signature that it was called with allows that.                      *)
Takes(extra, from, to) ==
  IF extra \notin {from, to} /\ OwnerOf[extra] = Signer THEN 0..bal[extra] ELSE {0}

(* What a DEX call does to the balances: it takes from one account, gives  *)
(* to another, and takes from the third.                                   *)
AfterCall(from, to, extra, took, spent, got) ==
  LET moved == Move(bal, from, to, spent, got)
  IN  [a \in Accounts |-> moved[a] - (IF a = extra THEN took ELSE 0)]

(* The call and the checks around it, with what the router counts of it.   *)
Trade(from, to, offered, extra, took, spent, got) ==
  LET after == AfterCall(from, to, extra, took, spent, got)
  IN  /\ AllowListed(extra, from, to)
      /\ PostSwapCheck(offered, bal, after, from, to)
      /\ bal' = after
      /\ amountOut' = amountOut + after[to] - bal[to]

(* distribute_swap for one fork, on accounts the payer chose.              *)
DexCall(from, to) ==
  /\ phase = "swap"
  /\ ~RouteDone
  /\ fork <= Len(Weights)
  /\ BeforeCheck(from, to)
  /\ WeightsSumTo100
  /\ ForkAmountChecked
  /\ \E extra \in Accounts :
       \E took \in Takes(extra, from, to), spent \in 0..bal[from], got \in 0..MaxOut :
         /\ Trade(from, to, ForkAmountIn, extra, took, spent, got)
         /\ bal'[to] <= MaxBal
         /\ underspent' = (underspent \/ spent < ForkAmountIn)
  /\ accForkIn' = IF LastFork THEN accForkIn ELSE accForkIn + ForkAmountIn
  /\ hopFrom' = from
  /\ hopTo' = to
  /\ fork' = fork + 1
  /\ UNCHANGED <<ledger, phase, req, outBefore, route, hop, amountIn, lastTo,
                 commits>>

(* The first hop must have started at the source account, the last must    *)
(* have ended at the destination account.                                  *)
EndsChecked ==
  /\ hop = 1 => hopFrom = SourceAccount(req)
  /\ hop = Len(Hops) => hopTo = DestinationAccount(req)

(* Mutant: the next hop is offered the input of this one again. *)
NextAmountInSame == amountIn

(* The next hop is offered what this one gave.                             *)
NextAmountIn == amountOut

EndHop ==
  /\ phase = "swap"
  /\ ~RouteDone
  /\ fork > Len(Weights)
  /\ WeightsSumTo100
  /\ EndsChecked
  /\ amountIn' = NextAmountIn
  /\ lastTo' = hopTo
  /\ hop' = hop + 1
  /\ ResetHop
  /\ UNCHANGED <<bal, ledger, phase, req, outBefore, route, underspent, commits>>

AmountOut == bal[DestinationAccount(req)] - outBefore

(* after_swap pays what the destination account gained, from the vault's   *)
(* account.                                                                *)
AfterSwap ==
  IF HandsOver(req) THEN Transfer(bal, req.dstSa, req.dst, AmountOut) ELSE bal

(* Mutant: min_return is compared with the balance, not with its change. *)
MinReturnReachedByBalance(after) == after[req.dst] >= req.args.minReturn

MinReturnReached(after) ==
  after[req.dst] - ledger[req.dst] >= req.args.minReturn

(* The end of execute_swap, after_swap, and common_swap's final checks.    *)
Finish ==
  /\ phase = "swap"
  /\ RouteDone
  /\ route = Len(req.args.routes)
  /\ AmountOut >= 0
  /\ HandsOver(req) => bal[req.dstSa] >= AmountOut
  /\ AfterSwap[req.dst] <= MaxBal
  /\ AfterSwap[req.src] <= ledger[req.src]
  /\ MinReturnReached(AfterSwap)
  /\ bal' = AfterSwap
  /\ ledger' = bal'
  /\ commits' = commits + 1
  /\ Quiet

(* Any check or call that fails fails the instruction, which then has no   *)
(* effect.                                                                 *)
Fail ==
  /\ phase = "swap"
  /\ bal' = ledger
  /\ UNCHANGED <<ledger, commits>>
  /\ Quiet

Next ==
  \/ \E r \in Requests : Begin(r)
  \/ StartRoute
  \/ \E from, to \in Accounts : DexCall(from, to)
  \/ EndHop
  \/ Finish
  \/ Fail

Spec == Init /\ [][Next]_vars

-----------------------------------------------------------------------------
(* TypeOK: what every variable ranges over.                                *)
TypeOK ==
  /\ bal \in [Accounts -> 0..MaxBal]
  /\ ledger \in [Accounts -> 0..MaxBal]
  /\ phase \in {"idle", "swap"}
  /\ IF phase = "idle" THEN req = NoRequest ELSE req \in Requests
  /\ outBefore \in 0..MaxBal
  /\ route \in Nat /\ hop \in Nat \ {0} /\ fork \in Nat \ {0}
  /\ phase = "swap" => route <= Len(req.args.routes)
  /\ amountIn \in Nat /\ accForkIn \in Nat /\ amountOut \in Nat
  /\ {lastTo, hopFrom, hopTo} \subseteq Accounts \cup {ZeroAddress}
  /\ underspent \in BOOLEAN
  /\ commits \in Nat

(* What the mint withholds when amount_in is pulled into the vault.        *)
PullFee(r) ==
  IF PullsIn(r) THEN TransferFee(MintOf[r.srcSa], r.args.amountIn) ELSE 0

(* The part of the hop's input that no fork was offered yet.               *)
Remaining ==
  IF RouteDone \/ fork > Len(Weights) THEN 0 ELSE amountIn - accForkIn

(* A first hop that started elsewhere than at the source account: EndHop   *)
(* refuses it, so the instruction can only fail.                           *)
OffSource ==
  /\ hop = 1
  /\ hopFrom \notin {ZeroAddress, SourceAccount(req)}

(* What account a of the vault holds on behalf of the running instruction: *)
(* amounts no route took yet, the rest of the hop's input, and what the    *)
(* hop gave so far.                                                        *)
HeldFor(a) ==
  (IF a = req.srcSa /\ PullsIn(req)
   THEN req.args.amountIn - req.args.sums[route] - PullFee(req) ELSE 0)
  + (IF SignedBySa /\ a = (IF hop = 1 THEN SourceAccount(req) ELSE lastTo)
     THEN Remaining ELSE 0)
  + (IF a = hopTo THEN amountOut ELSE 0)

(* What the payer's source account may have been charged so far.           *)
ChargedSoFar ==
  IF ProxyFrom THEN req.args.amountIn
  ELSE req.args.sums[route] - (IF hop = 1 THEN Remaining ELSE 0)

(* LoopInv: what the loops of execute_swap keep: the arguments were        *)
(* checked, a hop that reached no DEX gave nothing, a later hop continues  *)
(* from an account, a finished route left its hop accounts cleared, and    *)
(* between instructions nothing is pending.                                *)
LoopInv ==
  /\ phase = "idle" =>
       /\ bal = ledger
       /\ route = 0 /\ hop = 1 /\ fork = 1
       /\ hopFrom = ZeroAddress
  /\ phase = "swap" =>
       /\ ArgsChecked(req.args)
       /\ PullFee(req) \in 0..MaxBal
       /\ hop > 1 => lastTo \in Accounts
       /\ fork > 1 => hopTo \in Accounts /\ OwnerOf[hopFrom] = Signer
       /\ RouteDone => hopFrom = ZeroAddress
  /\ hopFrom = ZeroAddress => amountOut = 0

(* VaultCovered: at every point of an instruction the vault has, beyond    *)
(* what it owned before, all that it holds for the instruction, so no fork *)
(* of execute_swap can be paid from the vault's own tokens.                *)
VaultCovered ==
  phase = "swap" /\ ~OffSource =>
    /\ \A a \in SaAccounts : bal[a] >= ledger[a] + HeldFor(a)
    /\ DestinationAccount(req) # req.src =>
         outBefore >= ledger[DestinationAccount(req)]

(* The accounts outside the vault that the router's checks protect: those  *)
(* of third parties, and the source account.  The payer's other accounts   *)
(* are at the mercy of a DEX called with the payer's own signature.        *)
Shielded(r) == (Accounts \ (PayerAccounts \cup SaAccounts)) \cup {r.src}

(* PayerCovered: at every point of an instruction a third party holds at   *)
(* least what it held before, and the source account is charged only for   *)
(* the routes and forks reached so far.                                    *)
PayerCovered ==
  phase = "swap" /\ ~OffSource =>
    \A a \in Shielded(req) :
      bal[a] >= ledger[a] - (IF a = req.src THEN ChargedSoFar ELSE 0)

(* The swaps that leave nothing behind: every DEX took all it was offered, *)
(* no route is empty, the mint withholds nothing from the pull, the payee  *)
(* is not in the vault, and the swap does not end where it started in it.  *)
LeavesNothing ==
  /\ ~underspent
  /\ \A i \in 1..Len(req.args.routes) : req.args.routes[i] # <<>>
  /\ PullFee(req) = 0
  /\ req.dst \notin SaAccounts
  /\ ProxyFrom => req.srcSa # req.dstSa

(* A hop the instruction cannot leave: one without forks, and a first hop  *)
(* that the vault signs for although it starts at the payer's account.     *)
StuckHop ==
  /\ ~RouteDone
  /\ Weights = <<>> \/ (hop = 1 /\ ProxyFrom /\ ~ThroughSource(req))

(* NothingLeft: at every point of such an instruction the vault has        *)
(* nothing beyond what it owned and what it holds for the instruction; its *)
(* destination account, which is handed over, had no more when it began.   *)
NothingLeft ==
  phase = "swap" /\ LeavesNothing /\ ~OffSource /\ ~StuckHop =>
    /\ \A a \in SaAccounts \ {DestinationAccount(req)} :
         bal[a] <= ledger[a] + HeldFor(a)
    /\ DestinationAccount(req) \in SaAccounts =>
         outBefore <= ledger[DestinationAccount(req)]

(* IInv: the types, the bookkeeping of the loops, that the vault, the      *)
(* payer and third parties are covered, and that the vault is left         *)
(* nothing, at every point of an instruction.                              *)
IInv == TypeOK /\ LoopInv /\ VaultCovered /\ PayerCovered /\ NothingLeft

(* The destination side is not the vault's for the swap and the vault's    *)
(* for after_swap: create_sa_if_needed did not have all that it wants, the *)
(* swap gave its output to the user's account, and proxy_handle_after,     *)
(* with all that it wants, pays amount_out from the vault's account.       *)
Unserved(r) == HandsOver(r) /\ ~ThroughDestination(r)

(* VaultPaysOnlyUnserved: whatever of the optional accounts, amounts and   *)
(* routes the payer gives, and whatever the DEXes do, a shared vault       *)
(* account loses only what a mint withholds from the pull of amount_in     *)
(* and, for a destination side that the swap did not go through, the       *)
(* amount_out that after_swap pays on top of it; nothing else an           *)
(* instruction does reaches the vault's own tokens.                        *)
VaultPaysOnlyUnserved ==
  [][ledger' # ledger =>
       \A a \in SaAccounts :
         ledger'[a] >= ledger[a]
                       - (IF a = req.srcSa THEN PullFee(req) ELSE 0)
                       - (IF a = req.dstSa /\ Unserved(req) THEN AmountOut ELSE 0)]_vars

(* PayerSpendsAtMostAmountIn: a committed swap charges the source account  *)
(* at most args.amount_in, and no third party at all, whatever the DEXes   *)
(* take and give.                                                          *)
PayerSpendsAtMostAmountIn ==
  [][phase = "swap" =>
       \A a \in Shielded(req) :
         ledger'[a] >= ledger[a] - (IF a = req.src THEN req.args.amountIn ELSE 0)]_vars

(* NothingStranded: when every DEX took all it was offered and no route is *)
(* empty, the forks of every hop use up its whole input: a committed swap  *)
(* leaves the vault exactly as it was.  Excluded: a mint that withholds, a *)
(* payee that is itself in the vault, and a swap that starts and ends at   *)
(* the same vault account (whose amount_in then stays there).              *)
NothingStranded ==
  [][phase = "swap" /\ LeavesNothing => \A a \in SaAccounts : ledger'[a] <= ledger[a]]_vars

(* ImplementsAtomicSwap: an instruction is a single step of the ledger     *)
(* that either does nothing or gives at least min_return for at most       *)
(* amount_in.                                                              *)
Atomic == INSTANCE AtomicSwap WITH order <- req, NoOrder <- NoRequest,
                                   Vault <- SaAccounts
ImplementsAtomicSwap == Atomic!Spec

=============================================================================
