------------------------ MODULE TokenAccountCreation ------------------------
(***************************************************************************)
(* create_token_account and create_token_account_with_seed: anybody may    *)
(* have the wSOL account of an owner created at an address derived from    *)
(* the owner and a seed.  The instruction only allocates, assigns and      *)
(* initialises; the address was funded before, by whoever, and the owner   *)
(* may have used, handed over or closed the account since.                 *)
(***************************************************************************)
EXTENDS Integers

CONSTANTS
  Wallets,
  Seeds,             \* a seed, or none for create_token_account
  Nobody,            \* the owner of an account that is not initialised
  Rent,              \* the rent minimum of a token account
  MaxLamports        \* bound: lamports at one address

ASSUME CreationAssumption ==
  /\ Nobody \notin Wallets /\ Seeds # {}
  /\ Rent \in Nat \ {0} /\ MaxLamports \in Nat /\ Rent <= MaxLamports

(* The address is derived from the mint, the owner and the seed: nobody    *)
(* else signs for it.                                                      *)
Addresses == Wallets \X Seeds

VARIABLES
  lamports,          \* what every address holds
  owner,             \* who owns the token account there, Nobody without one
  answer             \* <<address, whether the creation succeeded, the bump given>>

creationVars == <<lamports, owner, answer>>

NoAnswer == <<<<Nobody, Nobody>>, FALSE, FALSE>>

-----------------------------------------------------------------------------
CreationInit ==
  /\ lamports = [a \in Addresses |-> 0]
  /\ owner = [a \in Addresses |-> Nobody]
  /\ answer = NoAnswer

Initialized(a) == lamports[a] > 0 /\ owner[a] # Nobody

(* Mutant: an account that exists is taken for the owner's. *)
AlreadyCreatedAny(a) == Initialized(a)

(* Nothing is done where the account exists and is still the owner's.      *)
AlreadyCreated(a) == Initialized(a) /\ owner[a] = a[1]

KeepTokenAccount(a, bump) ==
  /\ AlreadyCreated(a)
  /\ answer' = <<a, TRUE, bump>>
  /\ UNCHANGED <<lamports, owner>>

(* allocate and assign ask for no lamports, only that nothing was there    *)
(* and that the program signs for the address, which takes the right bump; *)
(* initialize_account3 asks for the rent.                                  *)
Initializable(a, bump) == ~Initialized(a) /\ bump /\ lamports[a] >= Rent

CreateTokenAccount(a, bump) ==
  /\ Initializable(a, bump)
  /\ owner' = [owner EXCEPT ![a] = a[1]]
  /\ answer' = <<a, TRUE, bump>>
  /\ UNCHANGED lamports

(* A failed creation changes nothing.                                      *)
CreationFails(a, bump) ==
  /\ ~AlreadyCreated(a) /\ ~Initializable(a, bump)
  /\ answer' = <<a, FALSE, bump>>
  /\ UNCHANGED <<lamports, owner>>

(* Anybody sends lamports to an address, before or after it is created.    *)
Fund(a) ==
  /\ \E x \in 1..Rent :
       /\ lamports[a] + x <= MaxLamports
       /\ lamports' = [lamports EXCEPT ![a] = @ + x]
  /\ answer' = NoAnswer
  /\ UNCHANGED owner

(* Its owner hands the account over, or closes it.                         *)
SetAuthority(a) ==
  /\ Initialized(a)
  /\ \E w \in Wallets : owner' = [owner EXCEPT ![a] = w]
  /\ answer' = NoAnswer
  /\ UNCHANGED lamports

CloseAccount(a) ==
  /\ Initialized(a)
  /\ lamports' = [lamports EXCEPT ![a] = 0]
  /\ owner' = [owner EXCEPT ![a] = Nobody]
  /\ answer' = NoAnswer

CreationNext ==
  \E a \in Addresses :
    \/ \E bump \in BOOLEAN :   \* whether the argument is the address's bump
         KeepTokenAccount(a, bump) \/ CreateTokenAccount(a, bump) \/ CreationFails(a, bump)
    \/ Fund(a)
    \/ SetAuthority(a)
    \/ CloseAccount(a)

CreationSpec == CreationInit /\ [][CreationNext]_creationVars

-----------------------------------------------------------------------------
(* CreationTypeOK: what every variable ranges over.                        *)
CreationTypeOK ==
  /\ lamports \in [Addresses -> 0..MaxLamports]
  /\ owner \in [Addresses -> Wallets \cup {Nobody}]
  /\ answer[2] \in BOOLEAN /\ answer[3] \in BOOLEAN
  /\ answer[1] \in Addresses \cup {NoAnswer[1]}

(* CreatedForItsOwner: when a creation reports success, the next           *)
(* instruction of the same transaction may send the owner's SOL there: the *)
(* account is the owner's, also after it was handed over, closed, drained  *)
(* or created before.                                                      *)
CreatedForItsOwner ==
  answer[2] => /\ Initialized(answer[1])
               /\ owner[answer[1]] = answer[1][1]

(* RefusedForCause: a creation that fails was short of the rent, had the   *)
(* wrong bump, or found an account that its owner had handed over; sending *)
(* lamports to the address beforehand never blocks it, as it would with    *)
(* the system program's create_account.                                    *)
RefusedForCause ==
  answer[1] \in Addresses /\ ~answer[2] =>
    \/ lamports[answer[1]] < Rent
    \/ ~answer[3]
    \/ Initialized(answer[1]) /\ owner[answer[1]] # answer[1][1]

(* RentHeld: whoever funded, initialised, handed over or closed what, an   *)
(* account that exists holds its rent.                                     *)
RentHeld == \A a \in Addresses : owner[a] # Nobody => lamports[a] >= Rent

(* CreationInv: the types, that success means the account is its owner's,  *)
(* that a failure has a cause, and that every account holds its rent.      *)
CreationInv ==
  /\ CreationTypeOK
  /\ CreatedForItsOwner
  /\ RefusedForCause
  /\ RentHeld

=============================================================================
