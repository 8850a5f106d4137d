----------------------------- MODULE VaultClaim -----------------------------
(***************************************************************************)
(* claim: the claim authority sends the SOL of the vault's authority, or   *)
(* all tokens of one of its token accounts, to a receiver of its choice.   *)
(* Between claims swaps pay fees and surpluses into the vault, as tokens   *)
(* or, in version 2, as SOL that lies unsynced in a wSOL account.          *)
(***************************************************************************)
EXTENDS Ledger

CONSTANTS
  Claimer,           \* claim_authority, the signer
  SaAuthority,       \* authority_pda
  None,              \* an optional account left out
  Claims,            \* the instructions Claimer may submit
  InitialBooks,
  MIN_SOL_ACCOUNT_RENT,
  MaxSteps           \* bound: claims and payments in a behaviour

SaAccounts == {a \in TokenAccounts : OwnerOf[a] = SaAuthority}

(* A claim: who receives, the vault's account and the destination.  A      *)
(* destination may be a wallet, taken for an account yet to be created;    *)
(* "ata" says whether it is the receiver's associated account, the only    *)
(* one that can be.                                                        *)
IsClaim(c) ==
  /\ c.receiver \in SolAccounts
  /\ c.source \in SaAccounts \cup {None}
  /\ c.destination \in TokenAccounts \cup SolAccounts \cup {None}
  /\ {c.ata, c.programs} \subseteq BOOLEAN
  /\ c.ata => c.destination \in TokenAccounts /\ OwnerOf[c.destination] = c.receiver

ASSUME ClaimAssumption ==
  /\ {Claimer, SaAuthority} \subseteq SolAccounts /\ Claimer # SaAuthority
  /\ None \notin TokenAccounts \cup SolAccounts
  /\ InitialBooks \subseteq Books
  /\ \A c \in Claims : IsClaim(c)
  /\ MIN_SOL_ACCOUNT_RENT \in Nat /\ MaxSteps \in Nat

VARIABLES
  book,      \* what every account holds
  last,      \* the last claim, None after a payment
  steps      \* bound

vars == <<book, last, steps>>

-----------------------------------------------------------------------------
Init ==
  /\ book \in InitialBooks
  /\ last = None
  /\ steps = 0

Step(l) == steps < MaxSteps /\ steps' = steps + 1 /\ last' = l

(* A destination that is named and not initialised is created first, with  *)
(* mint and programs named; only the receiver's associated account can be. *)
Creatable(c) ==
  c.destination \notin book.open \cup {None} =>
    c.programs /\ c.ata /\ Openable(book, c.destination, Claimer)

Prepared(c) ==
  IF c.destination = None THEN book ELSE Opened(book, c.destination, Claimer)

(* Mutant: the whole balance is claimed. *)
ClaimableSolAll == book.sol[SaAuthority]

ClaimableSol == book.sol[SaAuthority] - MIN_SOL_ACCOUNT_RENT

(* Without a destination account the claim is of SOL.                      *)
ClaimSol(c) ==
  /\ Step(c)
  /\ c.destination = None
  /\ book.sol[SaAuthority] > MIN_SOL_ACCOUNT_RENT
  /\ book' = PaySol(book, SaAuthority, c.receiver, ClaimableSol)

(* Mutant: the owner of the destination is not looked at. *)
DestinationAllowedAny(c) == TRUE

DestinationAllowed(c) == OwnerOf[c.destination] = c.receiver

ClaimTokens(c) ==
  /\ Step(c)
  /\ c.destination \in TokenAccounts
  /\ Creatable(c)
  /\ c.programs /\ c.source \in book.open
  /\ DestinationAllowed(c)
  /\ book.tok[c.source] > 0
  /\ MintOf[c.source] = MintOf[c.destination]
  /\ book' = PayTokens(Prepared(c), c.source, c.destination, book.tok[c.source])

(* Swaps of other users leave their fees with the vault.                   *)
FeeInTokens(a) ==
  /\ Step(None) /\ a \in book.open
  /\ book' = [book EXCEPT !.tok[a] = @ + 1]

FeeInSol(a) ==
  /\ Step(None) /\ a \in book.open \cup {SaAuthority}
  /\ book' = IF a = SaAuthority THEN [book EXCEPT !.sol[a] = @ + 1]
             ELSE [book EXCEPT !.excess[a] = @ + 1]

(* Anybody may sync a wSOL account.                                        *)
Sync(a) ==
  /\ Step(None) /\ a \in book.open /\ MintOf[a] = Wsol
  /\ book' = Synced(book, a)

Next ==
  \/ \E c \in Claims : ClaimSol(c) \/ ClaimTokens(c)
  \/ \E a \in SaAccounts : FeeInTokens(a)
  \/ \E a \in SaAccounts \cup {SaAuthority} : FeeInSol(a)
  \/ \E a \in SaAccounts : Sync(a)

Spec == Init /\ [][Next]_vars

-----------------------------------------------------------------------------
Claimed == last' # None /\ steps' > steps

Held(b, a) == IF a \in SolAccounts THEN b.sol[a] ELSE b.tok[a]

Vault == SaAccounts \cup {SaAuthority}

Mine(receiver) == {receiver} \cup {a \in TokenAccounts : OwnerOf[a] = receiver}

(* The rent of an account the claim created, which its claimer pays.       *)
RentPaidBy(a) ==
  IF a = Claimer /\ book'.open # book.open THEN TOKEN_ACCOUNT_RENT ELSE 0

(* What the vault lost is in one account of the receiver, less the rent of *)
(* an account that the claimer created for itself.                         *)
Arrived(receiver) ==
  \A a \in Vault : Held(book', a) < Held(book, a) =>
    \E d \in Mine(receiver) :
      Held(book', d) - Held(book, d)
        = Held(book, a) - Held(book', a) - RentPaidBy(d)

OthersKeep(receiver) ==
  \A a \in (TokenAccounts \cup SolAccounts) \ (Vault \cup Mine(receiver)) :
    Held(book', a) = Held(book, a) - RentPaidBy(a)

(* ReceiverGetsTheClaim: whatever a claim takes out of the vault arrives   *)
(* with the receiver it names, in one account; nobody else gains or pays   *)
(* anything but the claimer, who pays the rent of an account it creates.   *)
ReceiverGetsTheClaim ==
  [][Claimed => Arrived(last'.receiver) /\ OthersKeep(last'.receiver)]_vars

(* AuthorityKeepsRent: no claim leaves the vault's authority below the     *)
(* rent minimum, where the runtime refuses the payments every user's swap  *)
(* makes through it; a second claim before new fees takes nothing.         *)
AuthorityKeepsRent ==
  [][book.sol[SaAuthority] >= MIN_SOL_ACCOUNT_RENT =>
       book'.sol[SaAuthority] >= MIN_SOL_ACCOUNT_RENT]_vars

=============================================================================
