--------------------------- MODULE CommissionSwap ---------------------------
(***************************************************************************)
(* The swaps with a commission that came before V3: commission_sol_swap,   *)
(* commission_spl_swap and their proxy variants (version 1), the platform  *)
(* fee swaps (version 2), and the handlers that swap and then hand the     *)
(* proceeds to a bridge (version 1, or 0 without a commission); also swap  *)
(* and proxy_swap themselves (0), with any of proxy_swap's optional        *)
(* accounts left out.                                                      *)
(*                                                                         *)
(* common_swap runs first, the commission is taken afterwards from the     *)
(* payer.  execute_swap is one step, bound by what SwapRouter shows of it. *)
(***************************************************************************)
EXTENDS Ledger

CONSTANTS
  Payer,             \* the signer of the instruction
  SaAuthority,       \* authority_pda, the owner of the vault
  None,              \* an optional account left out
  Requests,          \* the instructions the payer may submit
  InitialBooks,      \* the balances the first instruction may find
  Denominator,       \* by version: COMMISSION_DENOMINATOR and its V2
  RateLimit,         \* by version: COMMISSION_RATE_LIMIT and its V2
  PLATFORM_FEE_DENOMINATOR, \* PLATFORM_FEE_DENOMINATOR_V2, also the limit
  TRIM_DENOMINATOR,         \* TRIM_DENOMINATOR_V2
  TRIM_RATE_LIMIT,          \* TRIM_RATE_LIMIT_V2
  U64_MAX,
  MaxOut,            \* bound: the most execute_swap gives
  MaxCommits         \* bound: instructions that commit in a behaviour

SaAccounts == {a \in TokenAccounts : OwnerOf[a] = SaAuthority}

(* The accounts of the vault and the programs that a proxy swap may name,  *)
(* each of which it may leave out, and a swap on the user's accounts has   *)
(* not.  An account named for the vault's may be any account until it is   *)
(* verified.                                                               *)
NoVault(r) ==
  /\ ~r.srcProgram /\ ~r.dstProgram /\ ~r.authority /\ ~r.creators
  /\ r.srcSa = None /\ r.dstSa = None

VaultNamed(r) ==
  /\ {r.srcProgram, r.dstProgram, r.authority, r.creators} \subseteq BOOLEAN
  /\ {r.srcSa, r.dstSa} \subseteq TokenAccounts \cup SolAccounts \cup {None}

NoPlatformFee(r) == r.platformRate = 0 /\ r.trimRate = 0

(* commission_sol_swap and commission_spl_swap.                            *)
DirectSwap(r) == r.version = 1 /\ ~r.bridge /\ NoVault(r) /\ NoPlatformFee(r)

(* commission_sol_proxy_swap and commission_spl_proxy_swap.                *)
ProxySwap(r) == r.version = 1 /\ ~r.bridge /\ VaultNamed(r) /\ NoPlatformFee(r)

(* platform_fee_sol_proxy_swap_v2 and platform_fee_spl_proxy_swap_v2.      *)
PlatformFeeSwap(r) == r.version = 2 /\ ~r.bridge /\ VaultNamed(r)

(* swap and proxy_swap.                                                    *)
PlainSwap(r) == /\ r.version = 0 /\ ~r.bridge /\ r.rate = 0 /\ NoPlatformFee(r)
                /\ IF r.proxy THEN VaultNamed(r) ELSE NoVault(r)

(* from_swap_log, and the same after a commission on the input.            *)
FromSwap(r) == r.version = 0 /\ r.bridge /\ r.rate = 0
               /\ NoVault(r) /\ NoPlatformFee(r)
CommissionSolFromSwap(r) == r.version = 1 /\ r.inSol /\ r.bridge /\ r.onFrom
                            /\ NoVault(r) /\ NoPlatformFee(r)
CommissionSplFromSwap(r) == r.version = 1 /\ ~r.inSol /\ r.bridge /\ r.onFrom
                            /\ NoVault(r) /\ NoPlatformFee(r)

IsRequest(r) ==
  /\ {r.inSol, r.onFrom, r.bridge, r.proxy} \subseteq BOOLEAN
  /\ r.src \in TokenAccounts /\ OwnerOf[r.src] = Payer
  /\ r.dst \in TokenAccounts
  /\ r.commissionAccount \in TokenAccounts \cup (IF r.inSol THEN SolAccounts ELSE {})
  /\ r.trimAccount \in TokenAccounts \cup SolAccounts \cup {None}
  /\ {r.amountIn, r.expectOut, r.minReturn, r.rate, r.platformRate, r.trimRate}
       \subseteq Nat
  /\ IF r.proxy THEN PlainSwap(r) \/ ProxySwap(r) \/ PlatformFeeSwap(r)
     ELSE \/ PlainSwap(r) \/ DirectSwap(r) \/ FromSwap(r)
          \/ CommissionSolFromSwap(r) \/ CommissionSplFromSwap(r)

ASSUME CommissionAccountsAssumption ==
  /\ Payer \in SolAccounts /\ SaAuthority \in SolAccounts /\ Payer # SaAuthority
  /\ None \notin TokenAccounts \cup SolAccounts
  /\ InitialBooks \subseteq Books

ASSUME CommissionRatesAssumption ==
  /\ Denominator \in [1..2 -> Nat] /\ RateLimit \in [1..2 -> Nat]
  /\ \A v \in 1..2 : RateLimit[v] < Denominator[v]
  /\ PLATFORM_FEE_DENOMINATOR \in Nat \ {0}
  /\ TRIM_DENOMINATOR \in Nat \ {0} /\ TRIM_RATE_LIMIT \in Nat
  /\ U64_MAX \in Nat /\ MaxOut \in Nat /\ MaxCommits \in Nat

ASSUME CommissionRequestsAssumption == \A r \in Requests : IsRequest(r)

VARIABLES
  book,      \* what every account holds
  committed, \* the same before the running instruction
  pc,        \* the part of the handler that runs next
  req,       \* the running instruction
  spent,     \* history: what execute_swap took from its source
  swapped,   \* history: what execute_swap gave to its destination
  out,       \* amount_out, of execute_swap and then of common_swap
  commits    \* bound: how many instructions have committed

vars == <<book, committed, pc, req, spent, swapped, out, commits>>

-----------------------------------------------------------------------------
(* The accounts that execute_swap is given.  A side goes through the vault *)
(* when its account, its program, the authority and the programs that      *)
(* could create the account are all there (create_sa_if_needed).           *)
ThroughSource(r) == r.srcSa # None /\ r.srcProgram /\ r.authority /\ r.creators
ThroughDestination(r) == r.dstSa # None /\ r.dstProgram /\ r.authority /\ r.creators

(* Mutant: the swap starts from the account that the amount was pulled from. *)
SwapSourcePulled(r) == r.src

SwapSource(r) == IF ThroughSource(r) THEN r.srcSa ELSE r.src
SwapDestination(r) == IF ThroughDestination(r) THEN r.dstSa ELSE r.dst

(* proxy_handle_before and proxy_handle_after each look at fewer of them.  *)
PullsIn(r) == r.srcSa # None /\ r.srcProgram
HandsOver(r) == r.dstSa # None /\ r.dstProgram /\ r.authority

(* unpack_token_owner_and_mint: an account of the vault, of the right mint. *)
IsVaultAccount(b, sa, user) ==
  sa \in SaAccounts \cap b.open /\ MintOf[sa] = MintOf[user]

(* The swap ended at the user's account, and the vault hands over the same *)
(* amount once more.                                                       *)
Unserved(r) == HandsOver(r) /\ ~ThroughDestination(r)

(* Mutant: the whole vault account is handed over. *)
HandedOverAll(b) == b.tok[req.dstSa]

HandedOver(b) == out

-----------------------------------------------------------------------------
(* The amounts.                                                            *)

(* On the input the commission comes on top, as the rate's share of the    *)
(* sum; on the output it is the rate's share of the amount.                *)
Commission(amount, r) ==
  CASE r.version = 0 -> 0
    [] r.version > 0 /\ r.onFrom ->
         (amount * r.rate) \div (Denominator[r.version] - r.rate)
    [] OTHER -> (amount * r.rate) \div Denominator[r.version]

Amount(r) == Commission(IF r.onFrom THEN r.amountIn ELSE out, r)
PlatformPart(r) == (Amount(r) * r.platformRate) \div PLATFORM_FEE_DENOMINATOR

(* Mutant: the commission on the output is forgotten by the trim. *)
SurplusBeforeCommission(r) == IF out > r.expectOut THEN out - r.expectOut ELSE 0

Surplus(r) ==
  LET kept == out - (IF r.onFrom THEN 0 ELSE Amount(r))
  IN  IF kept > r.expectOut THEN kept - r.expectOut ELSE 0

(* The trim account may be the program's own key, which stands for none.   *)
TrimAmount(r) ==
  LET limit == (out * r.trimRate) \div TRIM_DENOMINATOR
  IN  IF r.trimAccount = None THEN 0
      ELSE IF Surplus(r) < limit THEN Surplus(r) ELSE limit

(* Version 1 wants a rate and multiplies in 64 bits; version 2 needs an    *)
(* account of the vault and a commission for a platform fee.               *)
RatesAllowed(r) ==
  /\ r.version > 0 => r.rate <= RateLimit[r.version]
  /\ r.version = 1 =>
       r.rate > 0 /\ (IF r.onFrom THEN r.amountIn ELSE out) * r.rate <= U64_MAX
  /\ r.platformRate > 0 => r.rate > 0 /\ {r.srcSa, r.dstSa} # {None}
  /\ r.platformRate <= PLATFORM_FEE_DENOMINATOR
  /\ r.trimAccount # None /\ r.trimRate > 0 => r.trimRate <= TRIM_RATE_LIMIT

-----------------------------------------------------------------------------
Init ==
  /\ book \in InitialBooks
  /\ committed = book
  /\ pc = "idle"
  /\ req = None
  /\ spent = 0 /\ swapped = 0 /\ out = 0 /\ commits = 0

(* The token accounts that the instruction loads are there: those of the   *)
(* vault since create_sa_if_needed, of this instruction or an earlier one. *)
Loaded(r) ==
  {r.src, r.dst} \cup (IF ThroughDestination(r) THEN {r.dstSa} ELSE {})

(* A handler up to execute_swap: before_swap pulls the amount into an      *)
(* account of the vault.  The token variants of a proxy swap unwrap the    *)
(* program of the side that is charged.                                    *)
Begin(r) ==
  /\ pc = "idle"
  /\ commits < MaxCommits
  /\ Loaded(r) \subseteq book.open
  /\ r.proxy /\ r.version > 0 /\ ~r.inSol => IF r.onFrom THEN r.srcProgram ELSE r.dstProgram
  /\ PullsIn(r) => /\ IsVaultAccount(book, r.srcSa, r.src)
                   /\ TokenPayable(book, r.src, r.srcSa, r.amountIn)
  /\ book' = IF PullsIn(r) THEN PayTokens(book, r.src, r.srcSa, r.amountIn) ELSE book
  /\ pc' = "swap"
  /\ req' = r
  /\ UNCHANGED <<committed, spent, swapped, out, commits>>

(* execute_swap.  With source_token_sa it runs with the vault's signature, *)
(* which an account of the payer does not accept.                          *)
ExecuteSwap ==
  /\ pc = "swap"
  /\ req.amountIn > 0 /\ req.minReturn > 0 /\ req.expectOut >= req.minReturn
  /\ req.srcSa # None => ThroughSource(req)
  /\ \E taken \in 0..req.amountIn, got \in 0..MaxOut :
       LET from == SwapSource(req)
           to == SwapDestination(req)
           after == [book.tok EXCEPT ![from] = @ - taken]
       IN  /\ taken <= book.tok[from]
           /\ after[to] + got >= book.tok[to]
           /\ book' = [book EXCEPT !.tok = [after EXCEPT ![to] = @ + got]]
           /\ spent' = taken
           /\ swapped' = after[to] + got - book.tok[to]
           /\ out' = swapped'
  /\ pc' = "after"
  /\ UNCHANGED <<committed, req, commits>>

AfterSwap == CASE req.version > 0 -> "commission"
               [] req.version = 0 /\ req.bridge -> "bridge"
               [] OTHER -> "done"

(* The rest of common_swap: the vault hands the output over, from an       *)
(* account that is verified only now, and the change of the destination    *)
(* account is compared with min_return.                                    *)
FinishSwap ==
  /\ pc = "after"
  /\ HandsOver(req) => /\ IsVaultAccount(book, req.dstSa, req.dst)
                       /\ TokenPayable(book, req.dstSa, req.dst, HandedOver(book))
  /\ book' = IF HandsOver(req) THEN PayTokens(book, req.dstSa, req.dst, HandedOver(book))
             ELSE book
  /\ book'.tok[req.src] <= committed.tok[req.src]
  /\ book'.tok[req.dst] >= committed.tok[req.dst] + req.minReturn
  /\ out' = book'.tok[req.dst] - committed.tok[req.dst]
  /\ pc' = AfterSwap
  /\ UNCHANGED <<committed, req, spent, swapped, commits>>

AfterCommission == IF req.bridge THEN "bridge" ELSE "trim"

(* The account named for the vault's on the side that is charged, which    *)
(* nothing verifies where the swap did not use it.                         *)
PlatformAccount(r) == IF r.onFrom THEN r.srcSa ELSE r.dstSa

(* A commission on the output in SOL unwraps the destination account.      *)
ClosesDestination(r) == r.inSol /\ ~r.onFrom /\ r.dstProgram

Unwrapped(b) == IF ClosesDestination(req) THEN Closed(b, req.dst, Payer) ELSE b

(* Mutant: the source account is charged on either direction. *)
ChargedAccountSource(r) == r.src

ChargedAccount(r) == IF r.onFrom THEN r.src ELSE r.dst

(* The payer pays in SOL, or in tokens of the side that is charged.        *)
Paid(b, to, x) ==
  IF req.inSol THEN PaySol(b, Payer, to, x)
  ELSE PayTokens(b, ChargedAccount(req), to, x)

Payable(b, to, x) ==
  IF req.inSol THEN SolPayable(b, Payer, to, x)
  ELSE TokenPayable(b, ChargedAccount(req), to, x)

PlatformPaid(b) ==
  IF PlatformPart(req) = 0 THEN b ELSE Paid(b, PlatformAccount(req), PlatformPart(req))

(* Mutant: the commission account also gets the platform's part. *)
SplitGross(b) == Paid(PlatformPaid(b), req.commissionAccount, Amount(req))

(* The platform's part goes to the vault's account first, the rest to the  *)
(* account of the commission.                                              *)
Split(b) ==
  Paid(PlatformPaid(b), req.commissionAccount, Amount(req) - PlatformPart(req))

CanSplit(b) ==
  /\ PlatformPart(req) > 0 =>
       PlatformAccount(req) # None /\ Payable(b, PlatformAccount(req), PlatformPart(req))
  /\ Payable(PlatformPaid(b), req.commissionAccount, Amount(req) - PlatformPart(req))

(* commission_sol_process and its V2: in SOL.                              *)
CommissionSol ==
  /\ pc = "commission"
  /\ req.inSol
  /\ RatesAllowed(req)
  /\ MintOf[IF req.onFrom THEN req.src ELSE req.dst] = Wsol
  /\ ClosesDestination(req) => OwnerOf[req.dst] = Payer
  /\ req.platformRate > 0 => PlatformAccount(req) # None
  /\ CanSplit(Unwrapped(book))
  /\ book' = Split(Unwrapped(book))
  /\ pc' = AfterCommission
  /\ UNCHANGED <<committed, req, spent, swapped, out, commits>>

(* commission_token_process and its V2: in tokens.                         *)
CommissionToken ==
  /\ pc = "commission"
  /\ ~req.inSol
  /\ RatesAllowed(req)
  /\ Amount(req) > 0 => OwnerOf[ChargedAccount(req)] = Payer
  /\ MintOf[req.commissionAccount] = MintOf[ChargedAccount(req)]
  /\ req.commissionAccount \in book.open
  /\ CanSplit(book)
  /\ book' = Split(book)
  /\ pc' = AfterCommission
  /\ UNCHANGED <<committed, req, spent, swapped, out, commits>>

(* Trim of version 2.  The SOL variant takes wSOL out of the payer's SOL.  *)
TrimInSol(r) == r.inSol /\ MintOf[r.dst] = Wsol

Trim ==
  /\ pc = "trim"
  /\ LET x == TrimAmount(req)
     IN  IF TrimInSol(req)
         THEN /\ SolPayable(book, Payer, req.trimAccount, x)
              /\ book' = PaySol(book, Payer, req.trimAccount, x)
         ELSE /\ x > 0 => /\ req.inSol => req.dstProgram
                          /\ OwnerOf[req.dst] = Payer
                          /\ req.trimAccount \in TokenAccounts
                          /\ TokenPayable(book, req.dst, req.trimAccount, x)
              /\ book' = PayTokens(book, req.dst, req.trimAccount, x)
  /\ pc' = "done"
  /\ UNCHANGED <<committed, req, spent, swapped, out, commits>>

(* Mutant: the bridge is told the amount that was swapped. *)
BridgedAmountIn == req.amountIn

(* The amount in the caller's arguments is overwritten.                    *)
BridgedAmount == out

(* cpi_bridge_to_log: the bridge takes the amount it is told out of the    *)
(* destination account.                                                    *)
BridgeToLog ==
  /\ pc = "bridge"
  /\ OwnerOf[req.dst] = Payer
  /\ book.tok[req.dst] >= BridgedAmount
  /\ book' = [book EXCEPT !.tok[req.dst] = @ - BridgedAmount]
  /\ pc' = "done"
  /\ UNCHANGED <<committed, req, spent, swapped, out, commits>>

Forgotten == req' = None /\ spent' = 0 /\ swapped' = 0 /\ out' = 0

Finish ==
  /\ pc = "done"
  /\ committed' = book
  /\ pc' = "idle"
  /\ Forgotten
  /\ commits' = commits + 1
  /\ UNCHANGED book

(* Any check or call that fails undoes the instruction.                    *)
Fail ==
  /\ pc # "idle"
  /\ book' = committed
  /\ pc' = "idle"
  /\ Forgotten
  /\ UNCHANGED <<committed, commits>>

Next ==
  \/ \E r \in Requests : Begin(r)
  \/ ExecuteSwap
  \/ FinishSwap
  \/ CommissionSol
  \/ CommissionToken
  \/ Trim
  \/ BridgeToLog
  \/ Finish
  \/ Fail

Spec == Init /\ [][Next]_vars

-----------------------------------------------------------------------------
(* TypeOK: what every variable ranges over; no balance is ever negative.   *)
TypeOK ==
  /\ book \in Books /\ committed \in Books
  /\ pc \in {"idle", "swap", "after", "commission", "trim", "bridge", "done"}
  /\ IF pc = "idle" THEN req = None ELSE IsRequest(req)
  /\ {spent, swapped, out, commits} \subseteq Nat

Commits == commits' > commits

(* Nothing that explains a gain of the vault: everything was spent, the    *)
(* swap is no round trip, and no payee is an account of the vault.         *)
NoGain ==
  /\ spent = req.amountIn
  /\ req.srcSa # None => req.srcSa # req.dstSa
  /\ {req.commissionAccount, req.trimAccount, req.dst} \cap SaAccounts = {}

(* VaultKeepsItsOwn: whichever of its optional accounts a proxy swap       *)
(* names, an account of the vault is left with what it had, with the       *)
(* platform's fee on top if it is named for the charged side, in tokens or *)
(* in SOL not yet synced; less only what execute_swap gave to the user's   *)
(* account and the vault's account then hands over all the same; and with  *)
(* no more than that when all was spent.                                   *)
VaultKeepsItsOwn ==
  [][Commits =>
       /\ \A a \in SaAccounts :
            LET due == Worth(committed, a)
                       + (IF a = PlatformAccount(req) THEN PlatformPart(req) ELSE 0)
                       - (IF a = req.dstSa /\ Unserved(req) THEN swapped ELSE 0)
            IN  /\ Worth(committed', a) >= due
                /\ NoGain => Worth(committed', a) = due
       /\ committed'.sol[SaAuthority] >= committed.sol[SaAuthority]]_vars

(* PayerSpendsAtMost: the payer's source account is charged the amount and *)
(* a commission in tokens on it, the payer's SOL the commission and the    *)
(* trim in SOL, and nobody else's account anything.                        *)
PayerSpendsAtMost ==
  [][Commits =>
       /\ \A a \in TokenAccounts \ {req.dst} :
            /\ OwnerOf[a] \notin {Payer, SaAuthority}
                 => Worth(committed', a) >= Worth(committed, a)
            /\ OwnerOf[a] = Payer
                 => committed'.tok[a] >= committed.tok[a]
                      - (IF a = req.src
                         THEN req.amountIn
                              + (IF req.onFrom /\ ~req.inSol THEN Amount(req) ELSE 0)
                         ELSE 0)
       /\ committed'.sol[Payer] >= committed.sol[Payer]
            - (IF req.inSol THEN Amount(req) ELSE 0)
            - (IF TrimInSol(req) THEN TrimAmount(req) ELSE 0)
       /\ \A a \in SolAccounts \ {Payer, SaAuthority} :
            committed'.sol[a] >= committed.sol[a]]_vars

(* What the payer holds of the output: with wSOL, the SOL as well.         *)
OutputPurse(b) ==
  IF MintOf[req.dst] = Wsol THEN b.sol[Payer] + Worth(b, req.dst) ELSE b.tok[req.dst]

(* What an instruction takes out of that purse.                            *)
TakenFromOutput ==
  (IF ~req.onFrom \/ (req.inSol /\ MintOf[req.dst] = Wsol) THEN Amount(req) ELSE 0)
  + TrimAmount(req) + (IF req.bridge THEN out ELSE 0)

(* The accounts that fees are paid to.                                     *)
FeeAccounts ==
  {req.commissionAccount, req.trimAccount}
    \cup (IF req.platformRate > 0 THEN {PlatformAccount(req)} ELSE {})

(* No account of the instruction doubles as another one's.                 *)
ThirdParties ==
  /\ req.src # req.dst /\ OwnerOf[req.dst] = Payer
  /\ FeeAccounts \cap {Payer, req.src, req.dst} = {}

(* UserGetsTheRest: through unwrapping, commission, platform fee, trim and *)
(* bridge, the payer is left with exactly what the swap gave less these:   *)
(* a bridge takes what the swap gave and nothing that was there before.    *)
UserGetsTheRest ==
  [][Commits /\ ThirdParties =>
       OutputPurse(committed') = OutputPurse(committed) + out - TakenFromOutput]_vars

Holding(b, a) == IF a \in SolAccounts THEN b.sol[a] ELSE b.tok[a] + b.excess[a]

(* What the instruction owes an account: the commission less the           *)
(* platform's part, that part, and the trim.                               *)
FeesOf(a) ==
  (IF a = req.commissionAccount THEN Amount(req) - PlatformPart(req) ELSE 0)
  + (IF a = PlatformAccount(req) THEN PlatformPart(req) ELSE 0)
  + (IF a = req.trimAccount THEN TrimAmount(req) ELSE 0)

(* FeesArrive: what the payer is charged reaches the accounts it is meant  *)
(* for, to the last unit: each gains its commission, platform's part and   *)
(* trim and no more, one account named for several of them their sum.  The *)
(* accounts of the vault are VaultKeepsItsOwn's.                           *)
FeesArrive ==
  [][Commits /\ ThirdParties =>
       \A a \in FeeAccounts \ (SaAccounts \cup {None}) :
         Holding(committed', a) = Holding(committed, a) + FeesOf(a)]_vars

(* CommissionExact: the commission is the largest amount within the rate's *)
(* share of what it is taken from, the platform's part within it.          *)
CommissionExact ==
  pc = "done" /\ req.version > 0 =>
    LET base == IF req.onFrom THEN req.amountIn + Amount(req) ELSE out
        D == Denominator[req.version]
    IN  /\ Amount(req) * D <= req.rate * base
        /\ req.rate * base < (Amount(req) + 1) * D
        /\ PlatformPart(req) <= Amount(req)

-----------------------------------------------------------------------------
(* Between the steps of a handler.                                         *)

(* The commission, if there is one, has been taken.                        *)
Settled == pc \in {"trim", "bridge", "done"}

ClosedSoFar ==
  IF Settled /\ req.version > 0 /\ ClosesDestination(req) THEN {req.dst} ELSE {}

(* HandlerInv: no account but an unwrapped destination closes, no SOL      *)
(* moves before the commission, and what was allowed stays allowed.        *)
HandlerInv ==
  /\ pc = "idle" => book = committed
  /\ pc \in {"idle", "swap"} => spent = 0 /\ swapped = 0 /\ out = 0
  /\ pc = "after" => out = swapped
  /\ pc # "idle" =>
       /\ spent <= req.amountIn
       /\ Loaded(req) \subseteq committed.open
       /\ PullsIn(req) => req.srcSa \in SaAccounts
       /\ pc \notin {"swap", "after"} /\ HandsOver(req) =>
            req.dstSa \in SaAccounts \cap committed.open
       /\ book.open = committed.open \ ClosedSoFar
       /\ pc # "swap" /\ req.srcSa # None => ThroughSource(req)
       /\ ~Settled => book.sol = committed.sol /\ book.excess = committed.excess
       /\ Settled => RatesAllowed(req)
       /\ Settled /\ PlatformPart(req) > 0 =>
            PlatformAccount(req) \in SolAccounts \cup committed.open
       /\ ClosedSoFar # {} => OwnerOf[req.dst] = Payer
  /\ pc = "commission" => req.version > 0
  /\ pc = "trim" => ~req.bridge
  /\ pc = "bridge" => req.bridge

Have(b, a) == b.tok[a] + b.excess[a]

(* What an account of the vault holds for the instruction, or has paid for *)
(* it.                                                                     *)
HeldFor(a) ==
  IF pc \in {"swap", "after"}
  THEN (IF PullsIn(req) /\ a = req.srcSa
        THEN req.amountIn - (IF a = SwapDestination(req) THEN 0 ELSE spent) ELSE 0)
       + (IF ThroughDestination(req) /\ a = req.dstSa THEN out ELSE 0)
  ELSE (IF Settled /\ a = PlatformAccount(req) THEN PlatformPart(req) ELSE 0)
       - (IF a = req.dstSa /\ Unserved(req) THEN swapped ELSE 0)

(* VaultCovered: at every step an account of the vault has what it had and *)
(* what it holds for the instruction, and no more when nothing explains    *)
(* it.                                                                     *)
VaultCovered ==
  pc # "idle" =>
    /\ \A a \in SaAccounts :
         /\ Have(book, a) >= Have(committed, a) + HeldFor(a)
         /\ pc = "swap" \/ NoGain => Have(book, a) = Have(committed, a) + HeldFor(a)
    /\ book.sol[SaAuthority] >= committed.sol[SaAuthority]

(* What the steps so far took from the payer's source and from the SOL.    *)
SourcePaid ==
  (IF PullsIn(req) THEN req.amountIn ELSE spent)
  + (IF Settled /\ req.onFrom /\ ~req.inSol THEN Amount(req) ELSE 0)
SolPaid ==
  (IF Settled /\ req.inSol THEN Amount(req) ELSE 0)
  + (IF pc = "done" /\ TrimInSol(req) THEN TrimAmount(req) ELSE 0)

(* PayerCovered: nobody but the payer and the vault ever pays, the payer   *)
(* no more than the steps so far explain.                                  *)
PayerCovered ==
  pc # "idle" =>
    /\ \A a \in TokenAccounts \ {req.dst} :
         /\ OwnerOf[a] \notin {Payer, SaAuthority} => Have(book, a) >= Have(committed, a)
         /\ OwnerOf[a] = Payer =>
              book.tok[a] >= committed.tok[a] - (IF a = req.src THEN SourcePaid ELSE 0)
    /\ book.sol[Payer] >= committed.sol[Payer] - SolPaid
    /\ \A a \in SolAccounts \ {Payer, SaAuthority} : book.sol[a] >= committed.sol[a]

(* What the steps so far took from the output.                             *)
TakenSoFar ==
  (IF Settled /\ (~req.onFrom \/ (req.inSol /\ MintOf[req.dst] = Wsol))
   THEN Amount(req) ELSE 0)
  + (IF pc = "done" THEN TrimAmount(req) + (IF req.bridge THEN out ELSE 0) ELSE 0)

(* OutputKept: what the payer holds of the output since the swap.          *)
OutputKept ==
  (pc = "commission" \/ Settled) /\ ThirdParties =>
    OutputPurse(book) = OutputPurse(committed) + out - TakenSoFar

(* What an account that fees are paid to is due so far.                    *)
FeesDue(a) ==
  (IF Settled /\ a = req.commissionAccount THEN Amount(req) - PlatformPart(req) ELSE 0)
  + (IF Settled /\ a = PlatformAccount(req) THEN PlatformPart(req) ELSE 0)
  + (IF pc = "done" /\ a = req.trimAccount THEN TrimAmount(req) ELSE 0)

(* FeesSoFar: what has reached the accounts of the fees.  A swap that ends *)
(* at an account the vault turns out not to own is undone.                 *)
FeesSoFar ==
  pc # "idle" /\ ThirdParties
    /\ (ThroughDestination(req) => req.dstSa \in SaAccounts) =>
      \A a \in FeeAccounts \ (SaAccounts \cup {None}) :
        Holding(book, a) = Holding(committed, a) + FeesDue(a)

(* CommissionInv: no balance is ever negative or out of its type, the      *)
(* commission is exact, and the money is accounted for at every step.      *)
CommissionInv ==
  /\ TypeOK /\ CommissionExact /\ HandlerInv
  /\ VaultCovered /\ PayerCovered /\ OutputKept /\ FeesSoFar

-----------------------------------------------------------------------------
(* TrimLeavesExpected: a trim leaves the payer the expected amount, after  *)
(* the commission on the output.                                           *)
TrimLeavesExpected ==
  [][Commits /\ TrimAmount(req) > 0 =>
       out - TakenFromOutput + (IF req.onFrom /\ req.inSol /\ MintOf[req.dst] = Wsol
                                THEN Amount(req) ELSE 0) >= req.expectOut]_vars

=============================================================================
