------------------------------- MODULE SwapV3 -------------------------------
(***************************************************************************)
(* The swaps of V3: swap_v3 (processor ToC), swap_tob_v3, its variant with *)
(* a receiver and its enhanced variant (processor ToB).  They take fees in *)
(* tokens or in SOL on the way in or out, trim what the swap gave beyond   *)
(* the expected amount, unwrap wSOL, and pay the user.                     *)
(*                                                                         *)
(* execute_swap is one step here, bound by what SwapRouter shows of it: it *)
(* takes at most amount_in from the source account, gives to the           *)
(* destination account, and leaves the other vault accounts no poorer.     *)
(***************************************************************************)
EXTENDS FeeMath, FiniteSets

CONSTANTS
  TokenAccounts,
  SolAccounts,       \* system accounts: wallets, and the vault's authority
  MintOf,            \* the mint of every token account
  OwnerOf,           \* the system account that owns every token account
  Wsol,              \* the mint of wrapped SOL
  Payer,             \* the signer of the instruction
  SaAuthority,       \* authority_pda, the owner of the vault
  None,              \* an optional account left out
  Requests,          \* the instructions the payer may submit
  InitialBooks,      \* the balances the first instruction may find
  WithheldRate,      \* what the mint of every account withholds of transfers
  WITHHELD_DENOMINATOR,
  TOKEN_ACCOUNT_RENT,
  MIN_SOL_ACCOUNT_RENT,
  MaxOut,            \* bound: the most execute_swap gives
  MaxCommits         \* bound: instructions that commit in a behaviour

SaAccounts == {a \in TokenAccounts : OwnerOf[a] = SaAuthority}

(* What the accounts hold; a closed token account no longer exists.        *)
Books == [tok : [TokenAccounts -> Nat], sol : [SolAccounts -> Nat],
          closed : SUBSET TokenAccounts]

(* An instruction: the accounts and arguments of the handlers.  The vault  *)
(* accounts and, of the other optional ones, the two token programs, the   *)
(* authority and the pair that creates accounts may each be left out; the  *)
(* vault accounts that are used are verified, or signed for by their       *)
(* owner. ToC has no trim, no flag and no receiver, the plain ToB no       *)
(* charge, the enhanced ToB both rates and no receiver.                    *)
IsRequest(r) ==
  /\ r.toB \in BOOLEAN /\ r.onFrom \in BOOLEAN /\ r.close \in BOOLEAN
  /\ r.src \in TokenAccounts /\ OwnerOf[r.src] = Payer
  /\ r.dst \in TokenAccounts
  /\ r.srcSa # None => r.srcSa \in SaAccounts /\ MintOf[r.srcSa] = MintOf[r.src]
  /\ r.dstSa # None => r.dstSa \in SaAccounts /\ MintOf[r.dstSa] = MintOf[r.dst]
  /\ {r.srcProgram, r.dstProgram, r.authority, r.creators} \subseteq BOOLEAN
  /\ {r.commissionAccount, r.platformAccount, r.trimAccount, r.chargeAccount}
       \subseteq TokenAccounts \cup SolAccounts \cup {None}
  /\ {r.amountIn, r.expectOut, r.minReturn, r.rate, r.platformRate, r.trimRate,
      r.chargeRate} \subseteq Nat
  /\ r.receiver \in SolAccounts \cup {None}
  /\ ~r.toB => r.trimRate = 0 /\ ~r.close /\ r.receiver = None
  /\ r.chargeRate > 0 => r.trimRate > 0 /\ r.receiver = None

ASSUME V3AccountsAssumption ==
  /\ TokenAccounts \cap SolAccounts = {}
  /\ None \notin TokenAccounts \cup SolAccounts
  /\ DOMAIN MintOf = TokenAccounts
  /\ OwnerOf \in [TokenAccounts -> SolAccounts]
  /\ Payer \in SolAccounts /\ SaAuthority \in SolAccounts /\ Payer # SaAuthority

ASSUME V3BoundsAssumption ==
  /\ TOKEN_ACCOUNT_RENT \in Nat /\ MIN_SOL_ACCOUNT_RENT \in Nat
  /\ MaxOut \in Nat /\ MaxCommits \in Nat
  /\ InitialBooks \subseteq Books

ASSUME V3RequestsAssumption == \A r \in Requests : IsRequest(r)

(* Only a mint of the 2022 token program withholds; wSOL is not one.       *)
ASSUME WithheldAssumption ==
  /\ WITHHELD_DENOMINATOR \in Nat \ {0}
  /\ WithheldRate \in [TokenAccounts -> 0..WITHHELD_DENOMINATOR]
  /\ \A a \in TokenAccounts : MintOf[a] = Wsol => WithheldRate[a] = 0

VARIABLES
  book,      \* what every account holds
  committed, \* the same before the running instruction
  pc,        \* the part of the handler that runs next
  req,       \* the running instruction
  spent,     \* history: what execute_swap took from the source account
  out,       \* amount_out, what execute_swap gave
  unwrapped, \* is_unwrap_wsol_to_sa
  commits    \* bound: how many instructions have committed

vars == <<book, committed, pc, req, spent, out, unwrapped, commits>>

-----------------------------------------------------------------------------
(* Money moves between two token accounts or two system accounts.          *)

TokenPayable(b, from, to, x) ==
  x > 0 => /\ to \in TokenAccounts
           /\ {from, to} \cap b.closed = {}
           /\ MintOf[from] = MintOf[to]
           /\ b.tok[from] >= x

(* What the mint withholds from the recipient, rounded up.                 *)
Withheld(a, x) ==
  (x * WithheldRate[a] + WITHHELD_DENOMINATOR - 1) \div WITHHELD_DENOMINATOR

PayTokens(b, from, to, x) ==
  [b EXCEPT !.tok = [a \in TokenAccounts |->
     b.tok[a] - (IF a = from THEN x ELSE 0)
              + (IF a = to THEN x - Withheld(a, x) ELSE 0)]]

PaySol(b, from, to, x) ==
  [b EXCEPT !.sol = [a \in SolAccounts |->
     b.sol[a] - (IF a = from THEN x ELSE 0) + (IF a = to THEN x ELSE 0)]]

(* Mutant: the vault's authority also lifts a poor account. *)
SolFeeAlwaysLifted(b, from, to, x) ==
  IF x > 0 /\ b.sol[to] + x < MIN_SOL_ACCOUNT_RENT
  THEN MIN_SOL_ACCOUNT_RENT - b.sol[to]
  ELSE x

(* A fee in SOL lifts a poor account to the rent minimum, unless the vault *)
(* pays it.                                                                *)
SolFee(b, from, to, x) ==
  IF x > 0 /\ from # SaAuthority /\ b.sol[to] + x < MIN_SOL_ACCOUNT_RENT
  THEN MIN_SOL_ACCOUNT_RENT - b.sol[to]
  ELSE x

(* A fee is paid in the kind of the account that pays it.                  *)
FeePayable(b, from, to, x) ==
  IF from \in SolAccounts
  THEN x > 0 => to \in SolAccounts /\ b.sol[from] >= SolFee(b, from, to, x)
  ELSE x > 0 => from \in TokenAccounts /\ TokenPayable(b, from, to, x)

PayFee(b, from, to, x) ==
  IF x = 0 THEN b
  ELSE IF from \in SolAccounts THEN PaySol(b, from, to, SolFee(b, from, to, x))
  ELSE PayTokens(b, from, to, x)

FeesPayable(b, from, to1, x1, to2, x2) ==
  /\ FeePayable(b, from, to1, x1)
  /\ FeePayable(PayFee(b, from, to1, x1), from, to2, x2)

PayFees(b, from, to1, x1, to2, x2) ==
  PayFee(PayFee(b, from, to1, x1), from, to2, x2)

(* Closing a wSOL account pays its tokens out in SOL, and its rent back.    *)
CloseAccount(b, a, to) ==
  [tok |-> [b.tok EXCEPT ![a] = 0],
   sol |-> [b.sol EXCEPT ![to] = @ + b.tok[a] + TOKEN_ACCOUNT_RENT],
   closed |-> b.closed \cup {a}]

Close(b, a, to) == IF a \in b.closed THEN b ELSE CloseAccount(b, a, to)

(* is_charge_sol: the fees of a wSOL amount are paid in SOL when one of    *)
(* the two fee accounts is a system account.                               *)
IsChargeSol(account1, account2, a) ==
  MintOf[a] = Wsol /\ (account1 \in SolAccounts \/ account2 \in SolAccounts)

-----------------------------------------------------------------------------
(* The amounts of the fees, of the running instruction.                    *)

FromFee(r) == IF r.onFrom /\ r.rate > 0 THEN TotalFee(r.amountIn, r.rate, TRUE) ELSE 0
FromPlatformFee(r) == PlatformFee(FromFee(r), r.platformRate)
FromCommission(r) == FromFee(r) - FromPlatformFee(r)

ToFee == IF ~req.onFrom /\ req.rate > 0 THEN TotalFee(out, req.rate, FALSE) ELSE 0
ToPlatformFee == PlatformFee(ToFee, req.platformRate)
ToCommission == ToFee - ToPlatformFee

TrimAndCharge ==
  IF req.trimRate = 0 THEN 0
  ELSE TotalTrim(out, req.expectOut, ToFee, req.trimRate)
ChargeAmount == Charge(TrimAndCharge, req.chargeRate)
TrimAmount == TrimAndCharge - ChargeAmount

ActualOut == out - ToFee - TrimAndCharge

(* The vault account that before_swap pulls into and the one that          *)
(* after_swap pays from: None when one of the accounts they ask for is     *)
(* left out.                                                               *)
SourceSa(r) == IF r.srcProgram THEN r.srcSa ELSE None
DestinationSa(r) == IF r.dstProgram /\ r.authority THEN r.dstSa ELSE None

(* create_sa_if_needed asks for more before the swap runs on them.         *)
ThroughSource(r) == SourceSa(r) # None /\ r.authority /\ r.creators
ThroughDestination(r) == DestinationSa(r) # None /\ r.creators

(* Mutant: the swap starts at the user's account, pulled or not. *)
SourceAccountOfUser(r) == r.src

SourceAccount(r) == IF ThroughSource(r) THEN SourceSa(r) ELSE r.src
DestinationAccount(r) == IF ThroughDestination(r) THEN DestinationSa(r) ELSE r.dst

(* The destination side is the vault's for after_swap, but not for the     *)
(* swap, which gave its output to the user's account.                      *)
Unserved(r) == DestinationSa(r) # None /\ ~ThroughDestination(r)

-----------------------------------------------------------------------------
Init ==
  /\ book \in InitialBooks
  /\ committed = book
  /\ pc = "idle"
  /\ req = None
  /\ spent = 0 /\ out = 0
  /\ unwrapped = FALSE
  /\ commits = 0

(* Mutant: the fees are not pulled. *)
PulledAmountOnly(r) == IF SourceSa(r) = None THEN 0 ELSE r.amountIn

(* before_swap pulls the amount, and for ToB the fees on it when they are  *)
(* paid in tokens, into the vault.                                         *)
Pulled(r) ==
  IF SourceSa(r) = None THEN 0
  ELSE IF r.toB /\ ~IsChargeSol(r.commissionAccount, r.platformAccount, r.src)
  THEN r.amountIn + FromFee(r)
  ELSE r.amountIn

AfterPull(r) ==
  IF Pulled(r) = 0 THEN book ELSE PayTokens(book, r.src, SourceSa(r), Pulled(r))

(* Fees on the input that ToB pays in SOL pass through the vault.          *)
FeesOfPayer(r) ==
  IF r.toB /\ IsChargeSol(r.commissionAccount, r.platformAccount, r.src)
  THEN FromFee(r) ELSE 0

Funded(r) == PaySol(AfterPull(r), Payer, SaAuthority, FeesOfPayer(r))

(* Who pays the fees on the input: the vault for ToB, the user for ToC.    *)
FromFeesPaidBy(r) ==
  IF IsChargeSol(r.commissionAccount, r.platformAccount, r.src)
  THEN IF r.toB THEN SaAuthority ELSE Payer
  ELSE IF r.toB THEN SourceSa(r) ELSE r.src

(* The account or program without which fees on the input are refused.     *)
FromFeesAllowed(r) ==
  FromFee(r) > 0 =>
    IF r.toB THEN r.authority
    ELSE r.srcProgram \/ IsChargeSol(r.commissionAccount, r.platformAccount, r.src)

(* The receiver's variant wants the flag, and wSOL as the destination.     *)
ReceiverAllowed(r) ==
  r.receiver # None => r.close /\ MintOf[r.dst] = Wsol

(* A handler up to execute_swap.                                           *)
Begin(r) ==
  /\ pc = "idle"
  /\ commits < MaxCommits
  /\ {r.src, r.dst} \cap book.closed = {}
  /\ ReceiverAllowed(r)
  /\ r.onFrom => FeeRatesAllowed(r.rate, r.platformRate)
  /\ SourceSa(r) # None => TokenPayable(book, r.src, SourceSa(r), Pulled(r))
  /\ FromFeesAllowed(r)
  /\ book.sol[Payer] >= FeesOfPayer(r)
  /\ FeesPayable(Funded(r), FromFeesPaidBy(r), r.commissionAccount,
                 FromCommission(r), r.platformAccount, FromPlatformFee(r))
  /\ book' = PayFees(Funded(r), FromFeesPaidBy(r), r.commissionAccount,
                     FromCommission(r), r.platformAccount, FromPlatformFee(r))
  /\ pc' = "swap"
  /\ req' = r
  /\ UNCHANGED <<committed, spent, out, unwrapped, commits>>

(* With source_token_sa the swap runs with the vault's signature, which an *)
(* account of the payer does not accept: only routes without hops pass.    *)
Unsigned(r) == r.srcSa # None /\ ~ThroughSource(r)

(* execute_swap, after its checks of the arguments.                        *)
ExecuteSwap ==
  /\ pc = "swap"
  /\ req.amountIn > 0 /\ req.minReturn > 0
  /\ req.expectOut >= req.minReturn
  /\ \E taken \in 0..req.amountIn, got \in 0..MaxOut :
       LET from == SourceAccount(req)
           to == DestinationAccount(req)
           after == [book.tok EXCEPT ![from] = @ - taken]
       IN  /\ Unsigned(req) => taken = 0 /\ got = 0
           /\ taken <= book.tok[from]
           /\ after[to] + got >= book.tok[to]
           /\ book' = [book EXCEPT !.tok = [after EXCEPT ![to] = @ + got]]
           /\ spent' = taken
           /\ out' = after[to] + got - book.tok[to]
  /\ pc' = "after"
  /\ UNCHANGED <<committed, req, unwrapped, commits>>

(* What the fees on the output and the trim refuse in after_swap.          *)
RatesAllowed ==
  /\ ~req.onFrom => FeeRatesAllowed(req.rate, req.platformRate)
  /\ TrimRatesAllowed(req.trimRate, req.chargeRate)

(* proxy_handle_after: the vault hands over x.                             *)
HandOverPayable(x) ==
  DestinationSa(req) # None => TokenPayable(book, DestinationSa(req), req.dst, x)
HandOver(x) ==
  IF DestinationSa(req) = None \/ x = 0 THEN book
  ELSE PayTokens(book, DestinationSa(req), req.dst, x)

(* acc_close_flag turns the user's wSOL into SOL.                          *)
ClosesForUser == req.close /\ MintOf[req.dst] = Wsol
CloseForUser(b) == IF ClosesForUser THEN Close(b, req.dst, Payer) ELSE b

(* after_swap of ToB without any fee.                                      *)
AfterSwapWithoutFee ==
  /\ pc = "after"
  /\ req.toB
  /\ RatesAllowed
  /\ ToFee = 0 /\ TrimAndCharge = 0
  /\ HandOverPayable(out)
  /\ ClosesForUser => OwnerOf[req.dst] = Payer /\ req.dstProgram
  /\ book' = CloseForUser(HandOver(out))
  /\ pc' = "check"
  /\ UNCHANGED <<committed, req, spent, out, unwrapped, commits>>

(* unwrap_wsol_to_sa: all of amount_out goes to the user's wSOL account,   *)
(* which is closed in favour of the vault's authority.                     *)
Unwrappable ==
  /\ MintOf[req.dst] = Wsol
  /\ OwnerOf[req.dst] = Payer
  /\ req.dstProgram
  /\ HandOverPayable(out)
Unwrap == Close(HandOver(out), req.dst, SaAuthority)

(* With the flag set, fees on the output go to system accounts only.       *)
FlagAllows(account, x) == x > 0 /\ req.close => account \in SolAccounts

ToFeesInSol == IsChargeSol(req.commissionAccount, req.platformAccount, req.dst)

(* transfer_to_fees_and_log of ToB: unwraps when the fees are paid in SOL. *)
TransferToFees ==
  /\ pc = "after"
  /\ req.toB
  /\ RatesAllowed
  /\ ToFee + TrimAndCharge > 0
  /\ req.authority
  /\ FlagAllows(req.commissionAccount, ToCommission)
  /\ FlagAllows(req.platformAccount, ToPlatformFee)
  /\ unwrapped' = (ToFee > 0 /\ ToFeesInSol)
  /\ unwrapped' => Unwrappable
  /\ LET b == IF unwrapped' THEN Unwrap ELSE book
         from == IF unwrapped' THEN SaAuthority ELSE DestinationSa(req)
     IN  /\ FeesPayable(b, from, req.commissionAccount, ToCommission,
                        req.platformAccount, ToPlatformFee)
         /\ book' = PayFees(b, from, req.commissionAccount, ToCommission,
                            req.platformAccount, ToPlatformFee)
  /\ pc' = "trim"
  /\ UNCHANGED <<committed, req, spent, out, commits>>

(* The charge account counts only when there is a charge.                  *)
ChargeAccount == IF ChargeAmount > 0 THEN req.chargeAccount ELSE None

(* Trim in SOL unwraps unless the fees did.                                *)
UnwrapsForTrim ==
  IsChargeSol(req.trimAccount, ChargeAccount, req.dst) /\ ~unwrapped

(* transfer_trim_and_log of ToB.                                           *)
TransferTrim ==
  /\ pc = "trim"
  /\ TrimAndCharge > 0
  /\ req.trimAccount # None
  /\ req.close => req.trimAccount \in SolAccounts
  /\ ChargeAmount > 0 /\ (req.close \/ unwrapped) => req.chargeAccount \in SolAccounts
  /\ UnwrapsForTrim => Unwrappable
  /\ LET inSol == IsChargeSol(req.trimAccount, ChargeAccount, req.dst)
         b == IF UnwrapsForTrim THEN Unwrap ELSE book
         from == IF inSol THEN SaAuthority ELSE DestinationSa(req)
     IN  /\ FeesPayable(b, from, req.trimAccount, TrimAmount,
                        ChargeAccount, ChargeAmount)
         /\ book' = PayFees(b, from, req.trimAccount, TrimAmount,
                            ChargeAccount, ChargeAmount)
         /\ unwrapped' = inSol
  /\ pc' = "user"
  /\ UNCHANGED <<committed, req, spent, out, commits>>

NoTrim ==
  /\ pc = "trim"
  /\ TrimAndCharge = 0
  /\ pc' = "user"
  /\ UNCHANGED <<book, committed, req, spent, out, unwrapped, commits>>

(* Mutant: the vault keeps the rent. *)
UserSolWithoutRent == ActualOut

(* What an unwrapped swap pays the user: the rest, and the account's rent. *)
UserSol == ActualOut + TOKEN_ACCOUNT_RENT

(* transfer_to_user of ToB.                                                *)
TransferToUser ==
  /\ pc = "user"
  /\ IF unwrapped
     THEN /\ book.sol[SaAuthority] >= UserSol
          /\ book' = PaySol(book, SaAuthority, Payer, UserSol)
     ELSE /\ DestinationSa(req) # None
          /\ HandOverPayable(ActualOut)
          /\ ClosesForUser => OwnerOf[req.dst] = Payer
          /\ book' = CloseForUser(HandOver(ActualOut))
  /\ pc' = "check"
  /\ UNCHANGED <<committed, req, spent, out, unwrapped, commits>>

(* after_swap of ToC: the user is handed all, and pays the fees.           *)
AfterSwapToC ==
  /\ pc = "after"
  /\ ~req.toB
  /\ RatesAllowed
  /\ HandOverPayable(out)
  /\ LET inSol == ToFee > 0 /\ ToFeesInSol
         b == IF inSol THEN Close(HandOver(out), req.dst, Payer) ELSE HandOver(out)
         from == IF inSol THEN Payer ELSE req.dst
     IN  /\ ToFee > 0 => OwnerOf[req.dst] = Payer /\ req.dstProgram
         /\ FeesPayable(b, from, req.commissionAccount, ToCommission,
                        req.platformAccount, ToPlatformFee)
         /\ book' = PayFees(b, from, req.commissionAccount, ToCommission,
                            req.platformAccount, ToPlatformFee)
  /\ pc' = "check"
  /\ UNCHANGED <<committed, req, spent, out, unwrapped, commits>>

(* The change of the destination account, or what the processor reported   *)
(* for an account that it closed.                                          *)
DestinationChange ==
  IF req.dst \in book.closed THEN ActualOut
  ELSE book.tok[req.dst] - committed.tok[req.dst]

(* Mutant: min_return is compared with amount_out. *)
MinReturnReachedByOut == out >= req.minReturn

MinReturnReached == DestinationChange >= req.minReturn

(* The receiver's variant passes the user's SOL on, at least up to the     *)
(* rent minimum.                                                           *)
ReceiverGets ==
  IF req.receiver \in {None, Payer} THEN 0
  ELSE SolFee(book, Payer, req.receiver, DestinationChange)

(* The locals of a handler end with it.                                    *)
Forgotten == spent' = 0 /\ out' = 0 /\ unwrapped' = FALSE

(* The final checks of common_swap_v3, and the receiver.                   *)
Finish ==
  /\ pc = "check"
  /\ req.src \notin book.closed => book.tok[req.src] <= committed.tok[req.src]
  /\ MinReturnReached
  /\ book.sol[Payer] >= ReceiverGets
  /\ book' = IF ReceiverGets = 0 THEN book
             ELSE PaySol(book, Payer, req.receiver, ReceiverGets)
  /\ committed' = book'
  /\ pc' = "idle"
  /\ req' = None
  /\ Forgotten
  /\ commits' = commits + 1

(* Any check or call that fails undoes the instruction.                    *)
Fail ==
  /\ pc # "idle"
  /\ book' = committed
  /\ pc' = "idle"
  /\ req' = None
  /\ Forgotten
  /\ UNCHANGED <<committed, commits>>

Next ==
  \/ \E r \in Requests : Begin(r)
  \/ ExecuteSwap
  \/ AfterSwapWithoutFee
  \/ TransferToFees
  \/ TransferTrim
  \/ NoTrim
  \/ TransferToUser
  \/ AfterSwapToC
  \/ Finish
  \/ Fail

Spec == Init /\ [][Next]_vars

-----------------------------------------------------------------------------
(* TypeOK: what every variable ranges over; no balance is ever negative.   *)
TypeOK ==
  /\ book \in Books /\ committed \in Books
  /\ pc \in {"idle", "swap", "after", "trim", "user", "check"}
  /\ IF pc = "idle" THEN req = None ELSE req \in Requests
  /\ spent \in Nat /\ out \in Nat /\ commits \in Nat
  /\ unwrapped \in BOOLEAN

(* What the mint withholds when the amount is pulled into the vault.       *)
PullFee == IF SourceSa(req) = None THEN 0 ELSE Withheld(SourceSa(req), Pulled(req))

(* The vault's share in what account a holds: what was pulled and not yet  *)
(* spent.                                                                  *)
Unspent(a) ==
  IF a # None /\ a = SourceSa(req)
  THEN req.amountIn - PullFee - (IF a = DestinationAccount(req) THEN 0 ELSE spent)
  ELSE 0

(* The output passes from the vault's token account to its authority's SOL *)
(* when it is unwrapped: only the two together tell whether the vault      *)
(* pays.                                                                   *)
OutputPurse(b) ==
  b.sol[SaAuthority] + (IF DestinationSa(req) = None THEN 0 ELSE b.tok[DestinationSa(req)])

(* What the vault pays of its own: all of amount_out, when the swap gave   *)
(* it to the user already, unless it gets that back with the unwrapping.   *)
Advanced == IF Unserved(req) /\ ~unwrapped THEN out ELSE 0

(* What the vault holds for the running instruction in that purse: what it *)
(* still owes, less what it advances.                                      *)
Owed ==
  (CASE pc = "after" -> IF DestinationSa(req) = None THEN 0 ELSE out
     [] pc = "trim" -> IF unwrapped THEN out - ToFee + TOKEN_ACCOUNT_RENT
                       ELSE IF DestinationSa(req) = None THEN 0 ELSE out - ToFee
     [] pc = "user" -> IF unwrapped THEN UserSol
                       ELSE IF DestinationSa(req) = None THEN 0 ELSE ActualOut
     [] OTHER -> 0)
  - Advanced

(* VaultCovered: at every point of an instruction the vault has, beyond    *)
(* what it owned before, what it pulled in and what it still owes the      *)
(* user, so no fee, no trim and no payment comes out of its own, but for   *)
(* what it advances to a user whose account the swap had already served.   *)
VaultCovered ==
  pc # "idle" =>
    /\ \A a \in SaAccounts \ {DestinationSa(req)} :
         book.tok[a] >= committed.tok[a] + Unspent(a)
    /\ OutputPurse(book) >= OutputPurse(committed) + Owed + Unspent(DestinationSa(req))

(* The destination account is still as execute_swap left it.               *)
Wrapped == pc \in {"swap", "after"} \/ (pc = "trim" /\ ~unwrapped)

(* HandlerInv: what the parts of the handlers rely on: rates were checked  *)
(* before a fee is computed from them, the destination account is open     *)
(* and holds the output until it is unwrapped, and trim follows fees only  *)
(* in ToB.                                                                 *)
HandlerInv ==
  /\ pc = "idle" => book = committed /\ ~unwrapped
  /\ pc # "idle" /\ req.onFrom => FeeRatesAllowed(req.rate, req.platformRate)
  /\ pc \in {"swap", "after"} => ~unwrapped
  /\ pc \in {"idle", "swap"} => spent = 0 /\ out = 0
  /\ pc # "idle" => spent <= req.amountIn
  /\ pc \in {"trim", "user", "check"} => RatesAllowed
  /\ pc \in {"trim", "user"} => ToFee + TrimAndCharge > 0
  /\ unwrapped => MintOf[req.dst] = Wsol /\ OwnerOf[req.dst] = Payer
  /\ Wrapped =>
       /\ req.dst \notin book.closed
       /\ pc # "swap" /\ ~ThroughDestination(req) /\ OwnerOf[req.dst] = Payer
            => book.tok[req.dst] >= out

(* What the payer's source account may have been charged so far.           *)
Charged ==
  FromFee(req) + (IF pc = "swap" /\ SourceSa(req) = None THEN 0 ELSE req.amountIn)

(* PayerCovered: at every point of an instruction the source account is    *)
(* charged only for the amount and the fees on it, and nobody else's       *)
(* account holds less than before.                                         *)
PayerCovered ==
  pc # "idle" =>
    /\ \A a \in TokenAccounts :
         /\ OwnerOf[a] \notin {Payer, SaAuthority} => book.tok[a] >= committed.tok[a]
         /\ a # req.dst /\ OwnerOf[a] = Payer
              => book.tok[a] >= committed.tok[a] - (IF a = req.src THEN Charged ELSE 0)
    /\ \A a \in SolAccounts \ {Payer, SaAuthority} : book.sol[a] >= committed.sol[a]

(* IInv: the types, what the handlers rely on, and that at every point of  *)
(* an instruction neither the vault nor the payer is short of anything.    *)
IInv == TypeOK /\ HandlerInv /\ VaultCovered /\ PayerCovered

(* FeesExact: a fee is the largest amount that does not exceed the rate's  *)
(* share: of what the user pays in all, when it is taken on the input, of  *)
(* amount_out otherwise; and the platform's is the largest that does not   *)
(* exceed its own rate's share of the fee.                                 *)
FeesExact ==
  pc = "check" =>
    /\ req.onFrom =>
         /\ FromFee(req) * COMMISSION_DENOMINATOR
              <= req.rate * (req.amountIn + FromFee(req))
         /\ (FromFee(req) + 1) * COMMISSION_DENOMINATOR
              > req.rate * (req.amountIn + FromFee(req) + 1)
    /\ ~req.onFrom =>
         /\ ToFee * COMMISSION_DENOMINATOR <= req.rate * out
         /\ (ToFee + 1) * COMMISSION_DENOMINATOR > req.rate * out
    /\ LET fee == FromFee(req) + ToFee
           platform == FromPlatformFee(req) + ToPlatformFee
       IN  /\ platform * PLATFORM_FEE_DENOMINATOR <= fee * req.platformRate
           /\ (platform + 1) * PLATFORM_FEE_DENOMINATOR > fee * req.platformRate
           /\ platform <= fee
    /\ ActualOut >= 0

Commits == commits' > commits

(* VaultPaysOnlyUnserved: whatever of the optional accounts is given, a    *)
(* token account of the vault loses only what a mint withholds from the    *)
(* pull, and its output account and its SOL taken together, besides, only  *)
(* the amount_out of a destination side that the swap did not go through   *)
(* and that is not unwrapped; no fee, trim or payment else is its own.     *)
VaultPaysOnlyUnserved ==
  [][Commits =>
       /\ \A a \in SaAccounts \ {DestinationSa(req)} :
            committed'.tok[a] >= committed.tok[a] - (IF a = SourceSa(req) THEN PullFee ELSE 0)
       /\ OutputPurse(committed') >= OutputPurse(committed) - Advanced
            - (IF SourceSa(req) # None /\ SourceSa(req) = DestinationSa(req) THEN PullFee ELSE 0)]_vars

(* PayerSpendsAtMost: an instruction charges the source account at most    *)
(* the amount and the fees on it, and no account of anyone else; the       *)
(* payer's other token accounts, but for the destination, are not touched. *)
PayerSpendsAtMost ==
  [][Commits =>
       /\ \A a \in TokenAccounts :
            /\ OwnerOf[a] \notin {Payer, SaAuthority}
                 => committed'.tok[a] >= committed.tok[a]
            /\ a # req.dst /\ OwnerOf[a] = Payer
                 => committed'.tok[a] >= committed.tok[a]
                      - (IF a = req.src THEN req.amountIn + FromFee(req) ELSE 0)
       /\ \A a \in SolAccounts \ {Payer, SaAuthority} :
            committed'.sol[a] >= committed.sol[a]]_vars

(* The wSOL and the SOL of the user, the receiver's included.              *)
UserWallets(b) ==
  b.sol[Payer] + (IF req.receiver \in {None, Payer} THEN 0 ELSE b.sol[req.receiver])
UserPurse(b) ==
  UserWallets(b)
  + (IF req.dst \in b.closed THEN 0 ELSE b.tok[req.dst] + TOKEN_ACCOUNT_RENT)

(* SOL the payer spends besides the swap: the fees on the input, and for   *)
(* ToC what it takes to lift two fee accounts to the rent minimum.         *)
SolSpent ==
  (IF IsChargeSol(req.commissionAccount, req.platformAccount, req.src)
   THEN FromFee(req) ELSE 0)
  + (IF req.toB THEN 0 ELSE 2 * MIN_SOL_ACCOUNT_RENT)

(* What an unwrapped destination held before goes to the vault.            *)
KeptByVault == IF unwrapped THEN committed.tok[req.dst] ELSE 0

(* Fees in SOL and trim in tokens: transfer_to_user would hand the rest to *)
(* an account that was closed to pay the fees, so there must be no rest,   *)
(* and without one min_return is not reached.                              *)
Doomed ==
  /\ req.dst \in book.closed /\ ~unwrapped
  /\ pc = "user" \/ (pc = "check" /\ ActualOut = 0)

(* SettlingInv: execute_swap checked min_return, the destination account   *)
(* was open when the instruction came, stays so until it is unwrapped, and *)
(* only the payer's own wSOL account is ever closed; fees in tokens come   *)
(* from the vault's account, so without one there were none.               *)
SettlingInv ==
  pc # "idle" =>
    /\ pc # "swap" => req.minReturn > 0
    /\ req.dst \notin committed.closed
    /\ req.dst \in book.closed => MintOf[req.dst] = Wsol /\ OwnerOf[req.dst] = Payer
    /\ pc \in {"trim", "user"} => req.toB /\ (unwrapped => req.dst \in book.closed)
    /\ pc = "user" /\ TrimAndCharge = 0 /\ ~unwrapped => req.dst \notin book.closed
    /\ pc = "trim" /\ ~unwrapped /\ DestinationSa(req) = None => ToFee = 0
    /\ pc = "check" /\ ~req.toB /\ req.dst \in book.closed => ~req.onFrom

(* What the destination account got so far.                                *)
ReceivedInDst ==
  CASE pc = "swap" -> 0
    [] pc = "check" -> ActualOut - Withheld(req.dst, ActualOut)
    [] OTHER -> IF DestinationSa(req) = None THEN out ELSE 0

(* The output that a user's wallets got so far; a receiver that is the     *)
(* vault's authority gets it with the unwrapping.                          *)
ReceivedInSol ==
  CASE pc = "check" /\ req.dst \in book.closed ->
         ActualOut + TOKEN_ACCOUNT_RENT + committed.tok[req.dst] - KeptByVault
    [] pc \in {"trim", "user"} /\ unwrapped /\ req.receiver = SaAuthority ->
         committed.tok[req.dst] + Owed
    [] OTHER -> 0

SolSpentSoFar == IF req.onFrom \/ pc = "check" THEN SolSpent ELSE 0

(* UserCovered: at every point of an instruction the user has got what the *)
(* steps so far owe: in the destination account, while it is open, and in  *)
(* SOL.  ToC charges an open destination account at the end.               *)
UserCovered ==
  pc # "idle" /\ req.src # req.dst =>
    /\ /\ req.dst \notin book.closed \cup SaAccounts
       /\ pc = "check" => TrimAndCharge > 0
       => book.tok[req.dst] >= committed.tok[req.dst] + ReceivedInDst
    /\ ~Doomed =>
         UserWallets(book) >= UserWallets(committed) + ReceivedInSol - SolSpentSoFar

(* UserGetsMinReturn: whatever becomes of the destination account, the     *)
(* user ends with min_return more than before: in the account; or in wSOL  *)
(* and SOL together once it is closed, but for the fees on the input and   *)
(* what lifts ToC's fee accounts to the rent minimum, and for what an      *)
(* account held that was unwrapped into the vault, which stays there.      *)
UserGetsMinReturn ==
  [][Commits =>
       /\ req.dst \notin committed'.closed =>
            committed'.tok[req.dst] >= committed.tok[req.dst] + req.minReturn
       /\ req.dst \in committed'.closed /\ req.src # req.dst =>
            UserPurse(committed') >= UserPurse(committed) + req.minReturn
                                     - SolSpent - KeptByVault]_vars

(* TrimLeavesExpected: when anything was trimmed, the destination account, *)
(* unless it is the source account as well or in the vault, still got the  *)
(* expected amount and not only min_return; a mint that withholds may take *)
(* its part of it.                                                         *)
TrimLeavesExpected ==
  [][Commits /\ TrimAndCharge > 0 /\ req.dst \notin {req.src} \cup SaAccounts =>
       DestinationChange >= req.expectOut - Withheld(req.dst, ActualOut)]_vars

(* Nothing in the request that explains a gain of the vault: it is         *)
(* nobody's fee account or payee, no fee account is the destination        *)
(* account that is unwrapped into it, no mint withholds, and the swap is   *)
(* no round trip.                                                          *)
NoGainAsked ==
  /\ PullFee = 0
  /\ SourceSa(req) # None => SourceSa(req) # DestinationSa(req)
  /\ {req.dst, req.commissionAccount, req.platformAccount, req.trimAccount,
      req.chargeAccount, req.receiver} \cap (SaAccounts \cup {SaAuthority}) = {}
  /\ req.dst \notin {req.commissionAccount, req.platformAccount, req.trimAccount,
                     req.chargeAccount}
NoGain == NoGainAsked /\ spent = req.amountIn

(* NothingLeft: at every point of such an instruction the vault has what   *)
(* it owned, what it pulled in, what it still owes, and what an unwrapped  *)
(* destination account held before; no more.                               *)
NothingLeft ==
  pc # "idle" /\ NoGainAsked =>
    /\ SourceSa(req) # None =>
         book.tok[SourceSa(req)] <= committed.tok[SourceSa(req)] + Unspent(SourceSa(req))
    /\ ~Doomed => OutputPurse(book) <= OutputPurse(committed) + Owed + KeptByVault
    /\ Wrapped => book.tok[req.dst] <= committed.tok[req.dst]
                     + (IF pc # "swap" /\ ~ThroughDestination(req) THEN out ELSE 0)

(* SettlementInv: in addition to IInv, what user and vault have received   *)
(* so far.                                                                 *)
SettlementInv == IInv /\ SettlingInv /\ UserCovered /\ NothingLeft

(* NothingStranded: an instruction leaves nothing of the user in the vault *)
(* but what an unwrapped destination account held before, and brings none  *)
(* of what the vault advanced back.                                        *)
NothingStranded ==
  [][Commits /\ NoGain =>
       /\ SourceSa(req) # None => committed'.tok[SourceSa(req)] = committed.tok[SourceSa(req)]
       /\ OutputPurse(committed') <= OutputPurse(committed) + KeptByVault - Advanced]_vars

=============================================================================
