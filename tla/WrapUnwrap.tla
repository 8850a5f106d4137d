----------------------------- MODULE WrapUnwrap -----------------------------
(***************************************************************************)
(* Wrapping SOL and unwrapping wSOL with a commission: the instructions of *)
(* version 1 (commission_wrap_unwrap), 2 and 3 (platform_fee_wrap_unwrap), *)
(* the last one with or without passing the fees through the vault (tob).  *)
(*                                                                         *)
(* Unwrapping sends the amount to a temporary wSOL account at an address   *)
(* derived from the payer, and closes it.  The account is created when an  *)
(* instruction names it, a wrap included, where it then stays open.        *)
(***************************************************************************)
EXTENDS Ledger

CONSTANTS
  Payer,             \* the signer of the instruction
  SaAuthority,       \* authority_pda, the owner of the vault
  Temp,              \* temp_wsol_account of the payer
  WsolSa,            \* wsol_sa, the vault's wSOL account
  None,              \* an optional account left out
  Requests,          \* the instructions the payer may submit
  InitialBooks,      \* the balances the first instruction may find
  Denominator,       \* by version: COMMISSION_DENOMINATOR and its V2
  RateLimit,         \* by version: COMMISSION_RATE_LIMIT and its V2
  PlatformDenominator, \* by version, 2 and 3; also the limit of the rate
  MIN_SOL_ACCOUNT_RENT,
  U64_MAX,
  MaxCommits         \* bound: instructions and donations in a behaviour

SaAccounts == {a \in TokenAccounts : OwnerOf[a] = SaAuthority}
WsolAccounts == {a \in TokenAccounts : MintOf[a] = Wsol}

(* A fee is in SOL where the side it is charged on is SOL.                 *)
ChargesSol(r) == r.onFrom = r.wrap

(* An instruction.  Versions 1 and 2 name two commission accounts, of      *)
(* which only the one of the right kind is used; "platform" is the vault   *)
(* account of the charged side in version 2, "otherSa" whether that of the *)
(* other side is named.                                                    *)
IsRequest(r) ==
  /\ r.version \in 1..3
  /\ {r.wrap, r.onFrom, r.temp, r.tob} \subseteq BOOLEAN
  /\ {r.otherSa, r.authority, r.wsolSa} \subseteq BOOLEAN
  /\ r.wsol \in WsolAccounts /\ OwnerOf[r.wsol] = Payer
  /\ {r.amount, r.rate, r.platformRate} \subseteq Nat
  /\ {r.commission, r.platform} \subseteq TokenAccounts \cup SolAccounts \cup {None}
  /\ r.version < 3 => /\ ~r.tob /\ r.commission # None
                      /\ ~ChargesSol(r) => r.commission \in WsolAccounts
  /\ r.version = 1 => r.platformRate = 0 /\ r.platform = None

ASSUME WrapAccountsAssumption ==
  /\ Payer \in SolAccounts /\ SaAuthority \in SolAccounts /\ Payer # SaAuthority
  /\ None \notin TokenAccounts \cup SolAccounts
  /\ Temp \in WsolAccounts /\ OwnerOf[Temp] = Payer
  /\ WsolSa \in WsolAccounts /\ OwnerOf[WsolSa] = SaAuthority
  /\ InitialBooks \subseteq Books
  /\ \A b \in InitialBooks : \A a \in TokenAccounts \ b.open :
       b.tok[a] = 0 /\ b.excess[a] = 0   \* what is not there holds nothing

ASSUME WrapRatesAssumption ==
  /\ Denominator \in [1..3 -> Nat] /\ RateLimit \in [1..3 -> Nat]
  /\ \A v \in 1..3 : RateLimit[v] < Denominator[v]
  /\ PlatformDenominator \in [2..3 -> Nat \ {0}]
  /\ MIN_SOL_ACCOUNT_RENT \in Nat /\ U64_MAX \in Nat /\ MaxCommits \in Nat

ASSUME WrapRequestsAssumption == \A r \in Requests : IsRequest(r)

VARIABLES
  book,      \* what every account holds
  committed, \* the same before the running instruction
  pc,        \* the part of the handler that runs next
  req,       \* the running instruction
  commits    \* bound

vars == <<book, committed, pc, req, commits>>

-----------------------------------------------------------------------------
(* The fees.                                                               *)

Fee(r) ==
  IF r.onFrom THEN (r.amount * r.rate) \div (Denominator[r.version] - r.rate)
  ELSE (r.amount * r.rate) \div Denominator[r.version]

PlatformPart(r) ==
  IF r.version = 1 THEN 0
  ELSE (Fee(r) * r.platformRate) \div PlatformDenominator[r.version]

CommissionPart(r) == Fee(r) - PlatformPart(r)

(* Version 1 multiplies in 64 bits; a version 3 rate of 0 needs no other.  *)
RatesAllowed(r) ==
  /\ r.version < 3 \/ r.rate > 0 =>
       /\ r.rate <= RateLimit[r.version]
       /\ r.version > 1 => r.platformRate <= PlatformDenominator[r.version]
  /\ r.version = 1 => r.amount * r.rate <= U64_MAX
  /\ r.version = 2 /\ r.platformRate > 0 => r.platform # None \/ r.otherSa
  /\ r.version = 3 => r.amount > 0

-----------------------------------------------------------------------------
Init ==
  /\ book \in InitialBooks
  /\ committed = book
  /\ pc = "idle"
  /\ req = None
  /\ commits = 0

(* The accounts, of which the temporary one is created if it is named, and *)
(* the checks of the arguments.                                            *)
Begin(r) ==
  /\ pc = "idle"
  /\ commits < MaxCommits
  /\ r.wsol \in book.open
  /\ r.temp => Openable(book, Temp, Payer)
  /\ RatesAllowed(r)
  /\ book' = IF r.temp THEN Opened(book, Temp, Payer) ELSE book
  /\ req' = r
  /\ pc' = IF r.wrap THEN "wrap" ELSE "unwrap"
  /\ UNCHANGED <<committed, commits>>

(* Mutant: the SOL that was sent is not synced. *)
WrappedUnsynced(b) == PaySol(b, Payer, req.wsol, req.amount)

Wrapped(b) == Synced(PaySol(b, Payer, req.wsol, req.amount), req.wsol)

Wrap ==
  /\ pc = "wrap"
  /\ SolPayable(book, Payer, req.wsol, req.amount)
  /\ book' = Wrapped(book)
  /\ pc' = "fees"
  /\ UNCHANGED <<committed, req, commits>>

Unwrap ==
  /\ pc = "unwrap"
  /\ req.temp
  /\ TokenPayable(book, req.wsol, Temp, req.amount)
  /\ Closable(book, Temp)
  /\ book' = Closed(PayTokens(book, req.wsol, Temp, req.amount), Temp, Payer)
  /\ pc' = "fees"
  /\ UNCHANGED <<committed, req, commits>>

(* The commission of versions 1 and 2, in SOL to any account, or in wSOL.  *)
CommissionPayable(b) ==
  IF ChargesSol(req) THEN SolPayable(b, Payer, req.commission, CommissionPart(req))
  ELSE TokenPayable(b, req.wsol, req.commission, CommissionPart(req))

CommissionPaid(b) ==
  IF ChargesSol(req) THEN PaySol(b, Payer, req.commission, CommissionPart(req))
  ELSE PayTokens(b, req.wsol, req.commission, CommissionPart(req))

FeesV1 ==
  /\ pc = "fees"
  /\ req.version = 1
  /\ CommissionPayable(book)
  /\ book' = CommissionPaid(book)
  /\ pc' = "done"
  /\ UNCHANGED <<committed, req, commits>>

(* Mutant: the platform fee in SOL is charged twice. *)
PlatformPaidTwice(b) ==
  IF PlatformPart(req) = 0 THEN b
  ELSE IF ChargesSol(req)
  THEN Synced(PaySol(b, Payer, req.platform, 2 * PlatformPart(req)), req.platform)
  ELSE PayTokens(b, req.wsol, req.platform, PlatformPart(req))

(* The platform's part, which the vault's account has as tokens either     *)
(* way.                                                                    *)
PlatformPayable(b) ==
  IF ChargesSol(req)
  THEN PlatformPart(req) > 0 =>
         /\ req.platform \in WsolAccounts
         /\ SolPayable(b, Payer, req.platform, PlatformPart(req))
  ELSE /\ PlatformPart(req) > 0 => req.platform \in TokenAccounts
       /\ TokenPayable(b, req.wsol, req.platform, PlatformPart(req))

PlatformPaid(b) ==
  IF PlatformPart(req) = 0 THEN b
  ELSE IF ChargesSol(req)
  THEN Synced(PaySol(b, Payer, req.platform, PlatformPart(req)), req.platform)
  ELSE PayTokens(b, req.wsol, req.platform, PlatformPart(req))

(* The vault's account of the charged side is unwrapped from its option,   *)
(* whatever the rate.                                                      *)
FeesV2 ==
  /\ pc = "fees"
  /\ req.version = 2
  /\ req.platform # None
  /\ PlatformPayable(book)
  /\ CommissionPayable(PlatformPaid(book))
  /\ book' = CommissionPaid(PlatformPaid(book))
  /\ pc' = "done"
  /\ UNCHANGED <<committed, req, commits>>

-----------------------------------------------------------------------------
(* Fees of version 3.  A fee in SOL lifts a poor account to the rent       *)
(* minimum, unless the vault pays it.                                      *)
Lifted(b, from, to, x) ==
  IF from # SaAuthority /\ b.sol[to] + x < MIN_SOL_ACCOUNT_RENT
  THEN MIN_SOL_ACCOUNT_RENT - b.sol[to]
  ELSE x

(* One fee, from a system account or from a wSOL account.                  *)
FeePayable(b, from, to, x) ==
  x > 0 => IF ChargesSol(req)
           THEN to \in SolAccounts /\ b.sol[from] >= Lifted(b, from, to, x)
           ELSE to \in TokenAccounts /\ TokenPayable(b, from, to, x)

FeePaid(b, from, to, x) ==
  IF x = 0 THEN b
  ELSE IF ChargesSol(req) THEN PaySol(b, from, to, Lifted(b, from, to, x))
  ELSE PayTokens(b, from, to, x)

(* Both fees out of one account.                                           *)
BothPayable(b, from) ==
  /\ FeePayable(b, from, req.commission, CommissionPart(req))
  /\ FeePayable(FeePaid(b, from, req.commission, CommissionPart(req)),
                from, req.platform, PlatformPart(req))

BothPaid(b, from) ==
  FeePaid(FeePaid(b, from, req.commission, CommissionPart(req)),
          from, req.platform, PlatformPart(req))

FeesV3 ==
  LET from == IF ChargesSol(req) THEN Payer ELSE req.wsol
  IN  /\ pc = "fees"
      /\ req.version = 3
      /\ ~req.tob
      /\ BothPayable(book, from)
      /\ book' = BothPaid(book, from)
      /\ pc' = "done"
      /\ UNCHANGED <<committed, req, commits>>

(* Mutant: the commission alone is sent to the vault. *)
PulledCommission(b) ==
  IF ChargesSol(req) THEN PaySol(b, Payer, SaAuthority, CommissionPart(req))
  ELSE PayTokens(b, req.wsol, WsolSa, CommissionPart(req))

Pulled(b) ==
  IF ChargesSol(req) THEN PaySol(b, Payer, SaAuthority, Fee(req))
  ELSE PayTokens(b, req.wsol, WsolSa, Fee(req))

(* The payer pays the vault, and the vault the fee accounts.               *)
FeesV3ToB ==
  LET from == IF ChargesSol(req) THEN SaAuthority ELSE WsolSa
  IN  /\ pc = "fees"
      /\ req.version = 3
      /\ req.tob
      /\ Fee(req) > 0 =>
           /\ req.authority /\ (~ChargesSol(req) => req.wsolSa)
           /\ IF ChargesSol(req) THEN SolPayable(book, Payer, SaAuthority, Fee(req))
              ELSE TokenPayable(book, req.wsol, WsolSa, Fee(req))
           /\ BothPayable(Pulled(book), from)
      /\ book' = BothPaid(Pulled(book), from)
      /\ pc' = "done"
      /\ UNCHANGED <<committed, req, commits>>

(* The payer's account is read again; version 3 also subtracts the fees    *)
(* from the amount.                                                        *)
Finish ==
  /\ pc = "done"
  /\ req.wsol \in book.open
  /\ req.version = 3 => Fee(req) <= req.amount
  /\ committed' = book
  /\ pc' = "idle"
  /\ req' = None
  /\ commits' = commits + 1
  /\ UNCHANGED book

(* Any check or call that fails undoes the instruction.                    *)
Fail ==
  /\ pc # "idle"
  /\ book' = committed
  /\ pc' = "idle"
  /\ req' = None
  /\ UNCHANGED <<committed, commits>>

(* Anybody may send SOL to a token account.                                *)
Donate(a) ==
  /\ pc = "idle"
  /\ commits < MaxCommits
  /\ a \in book.open
  /\ book' = [book EXCEPT !.excess[a] = @ + 1]
  /\ committed' = book'
  /\ commits' = commits + 1
  /\ UNCHANGED <<pc, req>>

Next ==
  \/ \E r \in Requests : Begin(r)
  \/ Wrap
  \/ Unwrap
  \/ FeesV1
  \/ FeesV2
  \/ FeesV3
  \/ FeesV3ToB
  \/ Finish
  \/ Fail
  \/ \E a \in TokenAccounts : Donate(a)

Spec == Init /\ [][Next]_vars

-----------------------------------------------------------------------------
Commits == pc = "done" /\ commits' > commits

Holding(b, a) ==
  IF a = None THEN 0
  ELSE IF a \in SolAccounts THEN b.sol[a]
  ELSE b.tok[a] + b.excess[a]

(* Everything the payer owns, the temporary account's rent included.       *)
PayerAccounts == {a \in WsolAccounts : OwnerOf[a] = Payer}
Purse(b) ==
  b.sol[Payer] + Worth(b, Temp)
    + (IF req.wsol = Temp THEN 0 ELSE Worth(b, req.wsol))

(* Fees go to third parties, the vault included; both to one if it is      *)
(* named twice.                                                            *)
FeeAccounts == {req.commission, req.platform}
ThirdParties == FeeAccounts \cap ({Payer} \cup PayerAccounts) = {}

FeesDue(a) ==
  (IF a = req.commission THEN CommissionPart(req) ELSE 0)
  + (IF a = req.platform THEN PlatformPart(req) ELSE 0)

Gained(a) == Holding(committed', a) - Holding(committed, a)

FeesGained ==
  Gained(req.commission)
  + (IF req.platform = req.commission THEN 0 ELSE Gained(req.platform))

(* PayerLosesOnlyFees: over SOL, wSOL and the rent of the temporary        *)
(* account together, a payer loses what the fee accounts gained, whatever  *)
(* was left in the temporary account before.                               *)
PayerLosesOnlyFees ==
  [][Commits /\ ThirdParties =>
       Purse(committed) - Purse(committed') = FeesGained]_vars

(* A platform fee of version 2 reaches the vault's account as tokens, not  *)
(* as SOL that the next sync would count as what a swap gave.              *)
PlatformFeeIsTokens ==
  req.version = 2 /\ PlatformPart(req) > 0 =>
    /\ committed'.tok[req.platform] >= committed.tok[req.platform] + PlatformPart(req)
    /\ req.commission # req.platform =>
         committed'.excess[req.platform] <= committed.excess[req.platform]

(* What a poor system account that is lifted to the rent minimum has then: *)
(* the commission is paid first, and a second fee on top of the minimum.   *)
RentMinima ==
  {MIN_SOL_ACCOUNT_RENT}
  \cup (IF req.commission = req.platform
        THEN {MIN_SOL_ACCOUNT_RENT + PlatformPart(req)} ELSE {})

(* FeesArrive: each fee account, the vault's too, gains exactly what is    *)
(* due to it, the vault's account in version 2 as tokens; only a poor      *)
(* system account may be lifted to the rent minimum, once, and never at    *)
(* the vault's expense.                                                    *)
FeesArrive ==
  [][Commits /\ ThirdParties =>
     /\ PlatformFeeIsTokens
     /\ \A a \in FeeAccounts :
          \/ Gained(a) = FeesDue(a)
          \/ /\ req.version = 3 /\ ~req.tob /\ ChargesSol(req)
             /\ Gained(a) > FeesDue(a)
             /\ Holding(committed', a) \in RentMinima]_vars

(* ConvertsAmount: a wrap puts the amount into the payer's account, as     *)
(* tokens and with any SOL that lay there; an unwrap takes the amount out  *)
(* and leaves no temporary account.  Fees in wSOL come off either.         *)
ConvertsAmount ==
  [][Commits /\ ThirdParties =>
       LET fees == IF ChargesSol(req) THEN 0 ELSE Fee(req)
       IN  /\ req.wrap => committed'.tok[req.wsol] + fees
                            = committed.tok[req.wsol] + committed.excess[req.wsol] + req.amount
           /\ ~req.wrap =>
                /\ committed'.tok[req.wsol] + fees + req.amount
                     = committed.tok[req.wsol]
                /\ Temp \notin committed'.open]_vars

(* VaultKeepsItsOwn: fees only pass through the vault: nobody's conversion *)
(* leaves it with less, or, but for a fee that is its own, with more.      *)
VaultKeepsItsOwn ==
  [][Commits =>
       LET own == {req.commission, req.platform} \cap (SaAccounts \cup {SaAuthority})
       IN  \A a \in SaAccounts \cup {SaAuthority} :
             /\ Holding(committed', a) >= Holding(committed, a)
             /\ own = {} => Holding(committed', a) = Holding(committed, a)]_vars

=============================================================================
