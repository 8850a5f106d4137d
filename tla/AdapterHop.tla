------------------------------ MODULE AdapterHop ------------------------------
(***************************************************************************)
(* The hops of one route, seen from the adapters: each fork reads its      *)
(* block of accounts at a cursor, checks it, runs the hook before the      *)
(* call, calls the DEX, runs the hook after it, and compares balances.     *)
(*                                                                         *)
(* SwapRouter has the rest of execute_swap: weights, several routes, the   *)
(* accounts of the payer and what it is paid.  Here a fork is offered any  *)
(* share of what its hop has, and the last fork the rest.                  *)
(***************************************************************************)
EXTENDS DexAdapters, Sequences

CONSTANTS
  SaAuthority,       \* authority_pda
  WsolSa,            \* wsol_sa, the authority's lasting wSOL account
  None,
  Routes,            \* the routes that may be asked for
  InitialBooks,      \* the balances a route may find
  MIN_SOL_ACCOUNT_RENT,
  SOL_DIFF_LIMIT,
  LowerBound,        \* ACTUAL_IN_LOWER_BOUND_NUM and _DEN
  MaxOut,            \* bound: the most a DEX gives
  MaxCommits         \* bound: routes that commit in a behaviour

VARIABLES
  book,              \* the ledger
  start,             \* the ledger a failing route is rolled back to
  route,             \* one of Routes, or None
  offset,            \* accounts read so far
  done,              \* forks done
  hop,
  hopAccounts,       \* HopAccounts: [from, to, last]
  left,              \* what the hop has still to offer
  gained,            \* what its forks have given
  phase,             \* "idle", "fork", "checked", "invoked", "traded", "settled"
  swap,              \* the fork under way, or None
  commits

vars == <<book, start, route, offset, done, hop, hopAccounts, left, gained,
          phase, swap, commits>>

ASSUME HopAssumption ==
  /\ SaAuthority \in SolAccounts \ {Payer}
  /\ WsolSa \in TokenAccounts /\ MintOf[WsolSa] = Wsol /\ OwnerOf[WsolSa] = SaAuthority
  /\ None \notin TokenAccounts \cup SolAccounts
  /\ {MIN_SOL_ACCOUNT_RENT, SOL_DIFF_LIMIT} \subseteq Nat
  /\ TOKEN_ACCOUNT_RENT <= SOL_DIFF_LIMIT
  /\ LowerBound.num <= LowerBound.den /\ LowerBound.den > 0
  /\ InitialBooks \subseteq Books /\ \A b \in InitialBooks : WsolSa \in b.open

(* What a route brings: for every fork a block of the account list, laid   *)
(* one after the other, each as long as its adapter reads or longer.       *)
Plans == Seq([dex : Dexes, hop : Nat, quote : [taker : Nat, maker : Nat, native : BOOLEAN]])
Laid == [dex : Dexes, at : Nat, size : Nat \ {0}, from : TokenAccounts, to : TokenAccounts,
         authority : SolAccounts, pool : Mints \X Mints, others : SUBSET TokenAccounts,
         slots : Slots]

ASSUME RouteAssumption ==
  \A r \in Routes :
    /\ r \in [proxy : BOOLEAN, amount : Nat, from : TokenAccounts, to : TokenAccounts,
              accounts : Nat, plan : Plans, blocks : Seq(Laid)]
    /\ Len(r.blocks) = Len(r.plan)
    /\ \A i \in DOMAIN r.blocks :
         LET b == r.blocks[i]
             quote == r.plan[i].quote
         IN  /\ b.pool[1] # b.pool[2]
             /\ b.dex = "Virtuals" => b.pool[1] = VirtualMint
             /\ b.dex \in LamportBuys \cup LamportSells => b.pool[1] = Wsol
             /\ b.others \cap {b.from, b.to} = {}
             /\ \A c \in CallsOf(b.dex, b, quote.taker, quote) : c.len \in 1..b.size
             /\ \A j \in DOMAIN r.blocks : i < j => b.at + b.size <= r.blocks[j].at

Unset == [from |-> None, to |-> None, last |-> None]

Init ==
  /\ book \in InitialBooks /\ start = book
  /\ route = None /\ swap = None
  /\ offset = 0 /\ done = 0 /\ hop = 1
  /\ hopAccounts = Unset
  /\ left = 0 /\ gained = 0
  /\ phase = "idle"
  /\ commits = 0

Begin(r) ==
  /\ phase = "idle" /\ commits < MaxCommits
  /\ r.from \in book.open /\ book.tok[r.from] >= r.amount
  /\ route' = r /\ start' = book
  /\ offset' = 0 /\ done' = 0 /\ hop' = 1
  /\ hopAccounts' = Unset
  /\ left' = r.amount /\ gained' = 0
  /\ phase' = "fork" /\ swap' = None
  /\ UNCHANGED <<book, commits>>

(***************************************************************************)
(* The account list.  Accounts are read at the cursor: a block that does   *)
(* not start there does not show the program of the adapter, which refuses *)
(* it.                                                                     *)
(***************************************************************************)
BlockAt == {i \in DOMAIN route.blocks : route.blocks[i].at = offset}

HopOpen == done < Len(route.plan) /\ route.plan[done + 1].hop = hop
LastOfHop == done + 1 = Len(route.plan) \/ route.plan[done + 2].hop # hop
Offers == IF LastOfHop THEN {left} ELSE 1..(left - 1)

(***************************************************************************)
(* The checks of a fork.                                                   *)
(***************************************************************************)
Follows(b) ==
  /\ hopAccounts.from # None => b.from = hopAccounts.from /\ b.to = hopAccounts.to
  /\ hopAccounts.last # None => b.from = hopAccounts.last

OwnerSigns == ~route.proxy /\ hop = 1

(* liquidity_handler of Perpetuals has the accounts of a withdrawal        *)
(* checked the wrong way round: the receiving account as the source.       *)
Checked(b) ==
  IF b.dex = "PerpetualsRemoveLiq" THEN [b EXCEPT !.from = b.to, !.to = b.from] ELSE b

(* before_check.                                                           *)
BeforeCheck(b) ==
  /\ Follows(b)
  /\ b.authority = OwnerOf[b.from]
  /\ b.authority = (IF OwnerSigns THEN Payer ELSE SaAuthority)

(* The before checks of the adapters that buy with lamports: the authority *)
(* need not be the vault's on later hops.                                  *)
LamportBeforeCheck(b) ==
  /\ Follows(b)
  /\ b.authority = OwnerOf[b.from]
  /\ OwnerSigns => b.authority = Payer

(* A signature reaches the DEX if it is the payer's, or the program's own  *)
(* where the payer does not sign for the source; the hooks always sign for *)
(* the vault's authority.                                                  *)
Signs(a) == a = Payer \/ (a = SaAuthority /\ ~OwnerSigns)
HookSigns(a) == a \in {Payer, SaAuthority}

Parse ==
  /\ phase = "fork" /\ HopOpen
  /\ \E i \in BlockAt, x \in Offers :
       LET b == route.blocks[i]
           p == route.plan[done + 1]
       IN  /\ b.dex = p.dex
           /\ {b.from, b.to} \subseteq book.open
           /\ p.dex = "BoopfunSell" => b.slots.held \in book.open
           /\ IF p.dex \in LamportBuys THEN LamportBeforeCheck(b)
              ELSE BeforeCheck(Checked(b))
           /\ \E c \in CallsOf(p.dex, b, x, p.quote) :
                /\ offset + c.len <= route.accounts
                /\ swap' = [block |-> b, call |-> c, amount |-> x, before |-> 0,
                            was |-> book]
           /\ left' = left - x
  /\ phase' = "checked"
  /\ UNCHANGED <<book, start, route, offset, done, hop, hopAccounts, gained, commits>>

(***************************************************************************)
(* before_invoke.                                                          *)
(***************************************************************************)
Roles == swap.call.roles
ForVault == Roles.authority = SaAuthority

(* The buys unwrap the source account into the authority; nothing is done  *)
(* to an account without lamports.                                         *)
Gone == Roles.source \notin book.open /\ book.excess[Roles.source] = 0

SourceCloses ==
  /\ ForVault => Roles.source # WsolSa
  /\ \/ Gone
     \/ /\ HookSigns(Roles.authority)
        /\ Roles.program = SplToken
        /\ Closable(book, Roles.source)
        /\ OwnerOf[Roles.source] = Roles.authority

SourceClosed ==
  IF Gone THEN book ELSE Closed(book, Roles.source, Roles.authority)

(* Moonit returns the rent of the closed account at once, also if there    *)
(* was none to close.                                                      *)
RentReturned(b) == PaySol(b, SaAuthority, Roles.payer, TOKEN_ACCOUNT_RENT)

(* The vault authority's lamports, where the hook after the call needs     *)
(* them; 0 for a user.                                                     *)
Lamports ==
  IF ForVault /\ swap.call.hook \in {"refund", "promised", "repaid"}
  THEN book.sol[SaAuthority] ELSE 0

BeforeInvoke ==
  /\ phase = "checked"
  /\ CASE swap.call.hook = "refund" -> SourceCloses /\ book' = SourceClosed
       [] swap.call.hook = "rent" ->
            /\ SourceCloses
            /\ ForVault =>
                 SolPayable(SourceClosed, SaAuthority, Roles.payer, TOKEN_ACCOUNT_RENT)
            /\ book' = IF ForVault THEN RentReturned(SourceClosed) ELSE SourceClosed
       [] OTHER -> book' = book
  /\ swap' = [swap EXCEPT !.before = Lamports]
  /\ phase' = "invoked"
  /\ UNCHANGED <<start, route, offset, done, hop, hopAccounts, left, gained, commits>>

(***************************************************************************)
(* The DEX.  It trades only the mints of its pool, may take one token more *)
(* than the call allows, and may take from any other account it was listed *)
(* whose owner signs.                                                      *)
(***************************************************************************)
Listed ==
  ({swap.block.from, swap.block.to} \cup Named(swap.block) \cup swap.block.others)
    \cap book.open

(* Mutant: the vault's accounts are not looked at. *)
AllowListedAny == TRUE

(* enforce_sa_token_allowlist.                                             *)
AllowListed ==
  ~OwnerSigns =>
    \A a \in Listed : OwnerOf[a] = SaAuthority => a \in {swap.block.from, swap.block.to}

Moved(b, a, x) == [b EXCEPT !.tok[a] = @ + x]
Lamped(b, a, x) == [b EXCEPT !.sol[a] = @ + x]

(* Tokens for tokens.  The maker of an RFQ sends what its quote says; a    *)
(* sale to the AMM may cost the authority the rent of an account.          *)
TradesTokens(b, c) ==
  \E spent \in 0..(c.most + 1), got \in 0..MaxOut,
     rent \in 0..(IF c.hook = "repaid" THEN TOKEN_ACCOUNT_RENT ELSE 0) :
    /\ spent <= b.tok[c.debit] /\ rent <= b.sol[c.roles.authority]
    /\ spent > 0 => OwnerOf[c.debit] = c.roles.authority
    /\ swap.block.dex = "SolRfq" =>
         spent = c.most /\ got = route.plan[done + 1].quote.maker
    /\ book' = Lamped(Moved(Moved(b, c.debit, -spent), c.credit, got),
                      c.roles.authority, -rent)

(* A buy costs at most amount_in, and rent where the adapter expects it.   *)
BuysWithLamports(b, c) ==
  \E cost \in 0..(c.most + (IF c.hook = "refund" THEN TOKEN_ACCOUNT_RENT ELSE 0)),
     got \in 0..MaxOut :
    /\ cost <= b.sol[c.roles.authority]
    /\ got > 0 => c.credit \in b.open
    /\ book' = Lamped(Moved(b, c.credit, got), c.roles.authority, -cost)

SellsForLamports(b, c) ==
  \E spent \in 0..(c.most + 1), got \in 0..MaxOut :
    /\ spent <= b.tok[c.debit]
    /\ spent > 0 => c.debit \in b.open /\ OwnerOf[c.debit] = c.roles.authority
    /\ book' = Lamped(Moved(b, c.debit, -spent), Payee(c), got)

TakesMore ==
  {a \in swap.block.others \cap book.open :
     OwnerOf[a] \in Signers(swap.call) /\ book.tok[a] > 0}

Trades(b, c) ==
  CASE c.kind = "token" -> TradesTokens(b, c)
    [] c.kind = "buy" -> BuysWithLamports(b, c)
    [] c.kind = "sell" -> SellsForLamports(b, c)

DexCall ==
  /\ phase = "invoked"
  /\ AllowListed
  /\ \A a \in Signers(swap.call) : Signs(a)
  /\ Accepts(swap.block.pool, swap.call)
  /\ \/ Trades(book, swap.call)
     \/ \E a \in TakesMore : Trades(Moved(book, a, -1), swap.call)
  /\ phase' = "traded"
  /\ UNCHANGED <<start, route, offset, done, hop, hopAccounts, left, gained, swap,
                 commits>>

(***************************************************************************)
(* after_invoke.                                                           *)
(***************************************************************************)
Less(x, y) == IF x > y THEN x - y ELSE 0   \* saturating_sub

(* What a buy left of the closed account goes to the payer.                *)
Refunds(b) ==
  LET diff == Less(b.sol[SaAuthority], swap.before)
  IN  IF ~ForVault \/ swap.before = 0 \/ diff = 0 THEN book' = b
      ELSE /\ b.sol[SaAuthority] - diff >= MIN_SOL_ACCOUNT_RENT
           /\ diff <= SOL_DIFF_LIMIT
           /\ book' = PaySol(b, SaAuthority, Roles.payer, diff)

(* The lamports of a sale are wrapped into the destination account.        *)
Wraps(b, x) ==
  /\ HookSigns(Roles.authority)
  /\ SolPayable(b, Roles.authority, Roles.dest, x)
  /\ Roles.dest \in b.open /\ MintOf[Roles.dest] = Wsol /\ Roles.program = SplToken
Wrapped(b, x) == Synced(PaySol(b, Roles.authority, Roles.dest, x), Roles.dest)

(* Mutant: a difference the other way is repaid. *)
ShortfallOther(b) == Less(b.sol[SaAuthority], swap.before)

Shortfall(b) == Less(swap.before, b.sol[SaAuthority])

(* The payer makes up for what the vault's authority is short of.          *)
Repays(b) ==
  IF ~ForVault THEN book' = b
  ELSE /\ Shortfall(b) <= SOL_DIFF_LIMIT
       /\ SolPayable(b, Roles.payer, SaAuthority, Shortfall(b))
       /\ book' = PaySol(b, Roles.payer, SaAuthority, Shortfall(b))

(* What the adapter computed that the sale pays, by a formula of its own   *)
(* that nothing compares with what the sale did pay.                       *)
Promises == 0..MaxOut

AfterInvoke ==
  /\ phase = "traded"
  /\ CASE swap.call.hook = "refund" -> Refunds(book)
       [] swap.call.hook = "promised" ->
            \E x \in Promises : Wraps(book, x) /\ Repays(Wrapped(book, x))
       [] swap.call.hook = "promisedOnly" ->
            \E x \in Promises : Wraps(book, x) /\ book' = Wrapped(book, x)
       [] swap.call.hook = "received" ->
            LET x == book.sol[Roles.authority] - swap.was.sol[Roles.authority]
            IN  x >= 0 /\ Wraps(book, x) /\ book' = Wrapped(book, x)
       [] swap.call.hook = "repaid" -> Repays(book)
       [] OTHER -> book' = book
  /\ phase' = "settled"
  /\ UNCHANGED <<start, route, offset, done, hop, hopAccounts, left, gained, swap,
                 commits>>

(***************************************************************************)
(* post_swap_check and the end of the loops.                               *)
(***************************************************************************)
Spent == swap.was.tok[swap.block.from] - book.tok[swap.block.from]
Got == book.tok[swap.block.to] - swap.was.tok[swap.block.to]

(* Mutant: only the lower bound is looked at. *)
SpentInBoundsBelow ==
  swap.block.from \in book.open =>
    Spent >= (swap.amount * LowerBound.num) \div LowerBound.den

(* A closed source account is not looked at.                               *)
SpentInBounds ==
  swap.block.from \in book.open =>
    /\ Spent <= swap.amount
    /\ Spent >= (swap.amount * LowerBound.num) \div LowerBound.den

(* The RFQ adapter reports the quote and Saber's withdrawal what it was    *)
(* offered, the others what arrived.                                       *)
Reported ==
  CASE swap.block.dex = "SolRfq" -> route.plan[done + 1].quote.maker
    [] swap.block.dex = "SaberDecimalWrapperWithdraw" -> swap.amount
    [] OTHER -> Got

PostSwapCheck ==
  /\ phase = "settled"
  /\ SpentInBounds
  /\ swap.block.to \in book.open /\ Got > 0
  /\ offset' = offset + swap.call.len
  /\ hopAccounts' = [hopAccounts EXCEPT !.from = swap.block.from, !.to = swap.block.to]
  /\ gained' = gained + Reported
  /\ done' = done + 1
  /\ phase' = "fork" /\ swap' = None
  /\ UNCHANGED <<book, start, route, hop, left, commits>>

EndHop ==
  /\ phase = "fork" /\ ~HopOpen /\ hopAccounts.from # None
  /\ hop = 1 => hopAccounts.from = route.from
  /\ done = Len(route.plan) => hopAccounts.to = route.to
  /\ left' = gained /\ gained' = 0
  /\ hopAccounts' = [Unset EXCEPT !.last = hopAccounts.to]
  /\ hop' = hop + 1
  /\ UNCHANGED <<book, start, route, offset, done, phase, swap, commits>>

Ended ==
  /\ route' = None /\ swap' = None
  /\ offset' = 0 /\ done' = 0 /\ hop' = 1
  /\ hopAccounts' = Unset
  /\ left' = 0 /\ gained' = 0
  /\ phase' = "idle"

Finish ==
  /\ phase = "fork" /\ done = Len(route.plan) /\ hopAccounts.from = None
  /\ Ended
  /\ start' = book /\ commits' = commits + 1
  /\ UNCHANGED book

(* Any step may fail, and the transaction with it.                         *)
Fail ==
  /\ phase # "idle"
  /\ Ended
  /\ book' = start
  /\ UNCHANGED <<start, commits>>

Next ==
  \/ \E r \in Routes : Begin(r)
  \/ Parse \/ BeforeInvoke \/ DexCall \/ AfterInvoke
  \/ PostSwapCheck \/ EndHop \/ Finish \/ Fail

Spec == Init /\ [][Next]_vars

-----------------------------------------------------------------------------
(* Properties.                                                             *)

UnderWay == phase \notin {"idle", "fork"}

(* Every fork reads the block that was laid out for it, although the       *)
(* cursor only ever moves by what the adapters before it said they read.   *)
OwnBlock ==
  UnderWay => /\ swap.block = route.blocks[done + 1]
              /\ swap.block.dex = route.plan[done + 1].dex

OwnCalls ==
  CallsOf(swap.block.dex, swap.block, swap.amount, route.plan[done + 1].quote)

AdapterTypeOK ==
  /\ book \in Books /\ start \in Books
  /\ phase \in {"idle", "fork", "checked", "invoked", "traded", "settled"}
  /\ phase # "idle" => route \in Routes
  /\ {offset, done, left, gained, commits} \subseteq Nat
  /\ hop \in Nat \ {0}
  /\ hopAccounts \in [from : TokenAccounts \cup {None}, to : TokenAccounts \cup {None},
                      last : TokenAccounts \cup {None}]
  /\ UnderWay =>
       swap \in [block : Laid, call : OwnCalls, amount : Nat, before : Nat, was : Books]

(* The cursor is past the blocks of the forks that are done and not past   *)
(* those of the others.                                                    *)
CursorInv ==
  phase # "idle" =>
    /\ done <= Len(route.plan)
    /\ UnderWay => done < Len(route.plan) /\ offset = swap.block.at
    /\ \A i \in DOMAIN route.blocks :
         IF i <= done THEN route.blocks[i].at < offset ELSE offset <= route.blocks[i].at

(* Which of the accounts of a hop are known.                               *)
HopInv ==
  phase # "idle" =>
    /\ done = 0 => hop = 1 /\ hopAccounts = Unset
    /\ hop = 1 <=> hopAccounts.last = None
    /\ hopAccounts.from = None <=> hopAccounts.to = None
    /\ hopAccounts.to = None => gained = 0

(* Routes whose forks all report what arrived and start where the hop      *)
(* before ended: without Saber's withdrawal, and without Perpetuals' but   *)
(* as the very first fork.  Later in a hop it turns the hop round, and a   *)
(* second one turns it back.                                               *)
Accountable ==
  \A i \in DOMAIN route.plan :
    /\ route.plan[i].dex # "SaberDecimalWrapperWithdraw"
    /\ route.plan[i].dex = "PerpetualsRemoveLiq" => i = 1

(* A route that starts elsewhere than at the account it names is refused   *)
(* only when its first hop ends.                                           *)
StartsAtSource == hop = 1 => hopAccounts.from \in {None, route.from}

(* A hop starts at the account where the one before ended.  What it has    *)
(* still to offer is in that account, unless a buy has closed it; what its *)
(* forks reported is in the account that it ends at.                       *)
Backed ==
  phase = "fork" /\ Accountable /\ StartsAtSource =>
    /\ hopAccounts.from # None => hopAccounts.last \in {None, hopAccounts.from}
    /\ hop = 1 /\ hopAccounts.from = None => book.tok[route.from] >= left
    /\ hopAccounts.last \in book.open => book.tok[hopAccounts.last] >= left
    /\ hopAccounts.from \in book.open => book.tok[hopAccounts.from] >= left
    /\ hopAccounts.to # None =>
         hopAccounts.to \in book.open /\ book.tok[hopAccounts.to] >= gained

(* A fork of such a route is of its hop, and offers what its source had.   *)
ForkBacked ==
  UnderWay /\ Accountable /\ (hop = 1 => swap.block.from = route.from) =>
    /\ Follows(swap.block)
    /\ swap.was.tok[swap.block.from] >= left + swap.amount
    /\ swap.was.tok[swap.block.to] >= gained

Buys == swap.call.hook \in {"refund", "rent"}

Same(a) ==
  /\ book.tok[a] = swap.was.tok[a] /\ book.excess[a] = swap.was.excess[a]
  /\ a \in book.open <=> a \in swap.was.open
Unwrapped(a) == Buys /\ a = Roles.source /\ a \notin book.open
Gained(a) ==
  /\ book.tok[a] + book.excess[a] >= swap.was.tok[a] + swap.was.excess[a]
  /\ a \in book.open <=> a \in swap.was.open

(* A fork leaves the other accounts of the vault alone.  A Moonit call may *)
(* name one of them: to be unwrapped in the place of the source, or to be  *)
(* paid in the place of the destination, which then gets nothing.          *)
Spared(a) ==
  \/ Same(a)
  \/ swap.block.dex = "MoonitBuy" /\ Unwrapped(a)
  \/ /\ \/ swap.block.dex = "MoonitBuy" /\ phase \in {"traded", "settled"}
        \/ swap.block.dex = "MoonitSell" /\ phase = "settled"
     /\ Gained(a) /\ Got <= 0

OthersKept ==
  \A a \in TokenAccounts \ {swap.block.from, swap.block.to} :
    OwnerOf[a] = SaAuthority => Spared(a)

(* What a fork for the vault has done to lamports.  A buy has those of the *)
(* account that it closed to spend, less the rent where it hands rent back *)
(* and none was freed; a sale may leave less than it found until its hook  *)
(* has settled, and a promise that is not made up for less than that: what *)
(* is short went into the fork's destination.                              *)
AuthorityGain == book.sol[SaAuthority] - swap.was.sol[SaAuthority]
PayerGain == book.sol[Payer] - swap.was.sol[Payer]
Freed ==
  IF Roles.source \in swap.was.open THEN swap.was.tok[Roles.source]
  ELSE -TOKEN_ACCOUNT_RENT

LamportsOfVault ==
  /\ phase # "checked" /\ swap.call.hook \in {"refund", "promised", "repaid"} =>
       swap.before = swap.was.sol[SaAuthority]
  /\ phase = "invoked" =>
       IF Buys
       THEN AuthorityGain >= Freed
              + (IF swap.call.hook = "refund" THEN TOKEN_ACCOUNT_RENT ELSE 0)
       ELSE AuthorityGain = 0
  /\ phase = "traded" =>
       /\ Buys => AuthorityGain >= Freed - swap.amount
       /\ ~Buys /\ swap.call.hook # "repaid" => AuthorityGain >= 0
       /\ swap.call.hook = "promisedOnly" /\ MintOf[swap.block.to] = Wsol => Got >= 0
  /\ phase = "settled" =>
       /\ swap.call.hook = "rent" => AuthorityGain >= Freed - swap.amount
       /\ swap.call.hook = "refund" /\ Freed >= swap.amount =>
            AuthorityGain >= 0 /\ (swap.before > 0 => AuthorityGain = 0)
       /\ swap.call.hook = "promisedOnly" => AuthorityGain + Got >= 0
       /\ ~Buys /\ swap.call.hook # "promisedOnly" => AuthorityGain >= 0
  /\ Payer \notin Signers(swap.call) =>
       IF phase = "settled" THEN PayerGain \in (-SOL_DIFF_LIMIT)..SOL_DIFF_LIMIT
       ELSE PayerGain = IF phase # "checked" /\ swap.call.hook = "rent"
                        THEN TOKEN_ACCOUNT_RENT ELSE 0

ForkKept ==
  UnderWay =>
    /\ {swap.block.from, swap.block.to} \subseteq swap.was.open
    /\ phase = "checked" \/ (phase = "invoked" /\ ~Buys) => book = swap.was
    /\ phase \in {"traded", "settled"} /\ swap.block.dex = "SolRfq" =>
         Got = route.plan[done + 1].quote.maker
    /\ phase = "invoked" \/ (phase = "traded" /\ swap.call.kind = "sell") => Got <= 0
    /\ phase \in {"traded", "settled"} => Signers(swap.call) \subseteq {Payer, SaAuthority}
    /\ OthersKept
    /\ IF ForVault THEN LamportsOfVault
       ELSE /\ AuthorityGain >= 0
            /\ SaAuthority \notin Signers(swap.call) => AuthorityGain = 0

(* AdapterInv: the loops of execute_swap, the cursor and the hooks of the  *)
(* adapters keep their accounts: each fork reads its own block, what is    *)
(* offered on exists, a fork touches nothing of the vault but what its     *)
(* block names, and the authority's wSOL account is never closed.          *)
AdapterInv ==
  /\ AdapterTypeOK /\ CursorInv /\ HopInv /\ OwnBlock
  /\ Backed /\ ForkBacked /\ ForkKept
  /\ WsolSa \in book.open \cap start.open

(* RightSides: whichever way round the accounts of a fork are, the call    *)
(* that the adapter makes of them is one its DEX understands as a trade    *)
(* from the source to the destination, of at most what was offered, and    *)
(* the positions its hooks read hold the accounts they mean, if those that *)
(* the caller fills do; a pool that trades the two mints is not refused,   *)
(* one that does not never trades, but for a buy with lamports, whose DEX  *)
(* does not see the account they came from.                                *)
RightSides ==
  phase = "fork" =>
    \A i \in DOMAIN route.blocks, x \in 1..left :
      LET b == route.blocks[i]
          calls == CallsOf(b.dex, b, x, route.plan[i].quote)
      IN  /\ b.dex \in TokenDexes \ PickyDexes /\ Tradable(b) => calls # {}
          /\ OwnSlots(b) => \A c \in calls : CallRight(b, x, c)

ForkSettles == phase = "settled" /\ phase' = "fork" /\ done' = done + 1

(* AuthorityKeepsLamports: whatever its DEX takes and whatever the adapter *)
(* promised to wrap, a fork leaves the vault's authority with no fewer     *)
(* lamports than it found; where the buy hook refunds, with exactly those; *)
(* and with exactly those where the authority does not sign the call.      *)
(* There are two exceptions.  A Moonit buy spends what it is offered and   *)
(* returns the rent whatever account it was told to unwrap, so it costs    *)
(* the authority nothing only if that was its source.  A Boop sale wraps   *)
(* what its formula says, so what the authority is short of afterwards has *)
(* gone into the destination.                                              *)
(* A buy spends what it is offered, so that must be in the account it      *)
(* unwraps: a withdrawal from Saber's wrapper on the hop before may report *)
(* more than that, and the authority then pays the difference.             *)
AuthorityKeepsLamports ==
  [][ForkSettles /\ Accountable /\ StartsAtSource' =>
       LET was == swap.was.sol[SaAuthority]
           now == book.sol[SaAuthority]
           hook == swap.call.hook
       IN  /\ hook \notin {"rent", "promisedOnly"} => now >= was
           /\ hook = "rent" /\ ForVault => now >= was + Freed - swap.amount
           /\ hook = "rent" /\ Roles.source = swap.block.from => now >= was
           /\ hook = "promisedOnly" => now + Got >= was
           /\ hook = "refund" /\ was > 0 => now = was
           /\ SaAuthority \notin Signers(swap.call) => now = was]_vars

(* OnlyRouteAccountsMove: a fork moves no account of the vault but its     *)
(* source and its destination, even if its DEX takes from others that it   *)
(* was listed, except that a Moonit buy closes the account that the caller *)
(* put in the source's place.  The payer, unless it signs the call itself, *)
(* gains or pays at most the limit of the hooks.                           *)
OnlyRouteAccountsMove ==
  [][ForkSettles =>
       /\ \A a \in TokenAccounts \ {swap.block.from, swap.block.to} :
            OwnerOf[a] = SaAuthority =>
              Same(a) \/ (swap.block.dex = "MoonitBuy" /\ Unwrapped(a))
       /\ Payer \notin Signers(swap.call) =>
            book.sol[Payer] - swap.was.sol[Payer]
              \in (-SOL_DIFF_LIMIT)..SOL_DIFF_LIMIT]_vars

=============================================================================
