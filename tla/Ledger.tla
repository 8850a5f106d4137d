------------------------------- MODULE Ledger -------------------------------
(***************************************************************************)
(* The accounts of the chain as the token helpers of utils/token.rs and    *)
(* the programs they call treat them: token accounts, which are opened and *)
(* closed, and system accounts, which hold SOL.                            *)
(*                                                                         *)
(* An open token account holds its rent besides what is written here.  SOL *)
(* sent to it is not a token yet: it stays in "excess" until the account   *)
(* is synced.  Mints that withhold transfer fees are left to SwapRouter,   *)
(* SwapV3 and LimitOrder.                                                  *)
(***************************************************************************)
EXTENDS Integers

CONSTANTS
  TokenAccounts,
  SolAccounts,       \* system accounts: wallets, and the vault's authority
  MintOf,            \* the mint of every token account
  OwnerOf,           \* the system account that owns every token account
  Wsol,              \* the mint of wrapped SOL
  TOKEN_ACCOUNT_RENT

ASSUME LedgerAssumption ==
  /\ TokenAccounts \cap SolAccounts = {}
  /\ DOMAIN MintOf = TokenAccounts
  /\ OwnerOf \in [TokenAccounts -> SolAccounts]
  /\ TOKEN_ACCOUNT_RENT \in Nat

Books == [tok : [TokenAccounts -> Nat], excess : [TokenAccounts -> Nat],
          sol : [SolAccounts -> Nat], open : SUBSET TokenAccounts]

TokenPayable(b, from, to, x) ==
  x > 0 => /\ {from, to} \subseteq b.open
           /\ MintOf[from] = MintOf[to]
           /\ b.tok[from] >= x

(* transfer_token: nothing is called for an amount of 0.                   *)
PayTokens(b, from, to, x) ==
  IF x = 0 THEN b
  ELSE [b EXCEPT !.tok = [a \in TokenAccounts |->
          @[a] - (IF a = from THEN x ELSE 0) + (IF a = to THEN x ELSE 0)]]

(* transfer_sol, to a system account or to an open token account.          *)
SolPayable(b, from, to, x) ==
  x > 0 => to \in SolAccounts \cup b.open /\ b.sol[from] >= x

PaySol(b, from, to, x) ==
  IF x = 0 THEN b
  ELSE [b EXCEPT
          !.sol = [a \in SolAccounts |->
             @[a] - (IF a = from THEN x ELSE 0) + (IF a = to THEN x ELSE 0)],
          !.excess = [a \in TokenAccounts |-> @[a] + (IF a = to THEN x ELSE 0)]]

(* sync_wsol_account: all the SOL of a wSOL account becomes tokens.        *)
Synced(b, a) == [b EXCEPT !.tok[a] = @ + b.excess[a], !.excess[a] = 0]

(* close_token_account.  Only a wSOL account may be closed with tokens.    *)
Closable(b, a) == a \in b.open /\ (MintOf[a] = Wsol \/ b.tok[a] = 0)

(* Mutant: the rent of the account is lost. *)
ClosedWithoutRent(b, a, to) ==
  [b EXCEPT !.tok[a] = 0, !.excess[a] = 0, !.open = @ \ {a},
            !.sol[to] = @ + b.tok[a] + b.excess[a]]

Closed(b, a, to) ==
  [b EXCEPT !.tok[a] = 0, !.excess[a] = 0, !.open = @ \ {a},
            !.sol[to] = @ + b.tok[a] + b.excess[a] + TOKEN_ACCOUNT_RENT]

(* A token account that does not exist is created at payer's expense.      *)
Openable(b, a, payer) == a \in b.open \/ b.sol[payer] >= TOKEN_ACCOUNT_RENT

Opened(b, a, payer) ==
  IF a \in b.open THEN b
  ELSE [b EXCEPT !.open = @ \cup {a}, !.sol[payer] = @ - TOKEN_ACCOUNT_RENT]

(* What closing the account would bring.                                   *)
Worth(b, a) ==
  IF a \in b.open THEN b.tok[a] + b.excess[a] + TOKEN_ACCOUNT_RENT ELSE 0

=============================================================================
