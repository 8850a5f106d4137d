----------------------- MODULE ClaimAndCreationProofs -----------------------
(***************************************************************************)
(* What VaultClaim promises, for any vault, any receivers and any claims:  *)
(* the book stays a book, the vault's authority keeps its rent, and what   *)
(* leaves the vault arrives.  What TokenAccountCreation promises, for any  *)
(* owners and seeds: a success is the owner's account and a failure has a  *)
(* cause.                                                                  *)
(***************************************************************************)
EXTENDS VaultClaim, TokenAccountCreation, TLAPS

-----------------------------------------------------------------------------
(* Claims.                                                                 *)

BookInv == book \in Books

(* A payment in tokens moves x from one account to the other.              *)
LEMMA PayTokensEffect ==
  ASSUME NEW b \in Books, NEW from \in TokenAccounts, NEW to \in TokenAccounts,
         NEW x \in Nat, b.tok[from] >= x
  PROVE  /\ PayTokens(b, from, to, x) \in Books
         /\ PayTokens(b, from, to, x).sol = b.sol
         /\ PayTokens(b, from, to, x).open = b.open
         /\ \A a \in TokenAccounts :
              PayTokens(b, from, to, x).tok[a] =
                b.tok[a] - (IF a = from THEN x ELSE 0) + (IF a = to THEN x ELSE 0)
<1>1. CASE x = 0
  BY <1>1 DEF PayTokens, Books
<1>2. CASE x # 0
  <2> DEFINE tok == [a \in TokenAccounts |->
                b.tok[a] - (IF a = from THEN x ELSE 0) + (IF a = to THEN x ELSE 0)]
  <2>1. PayTokens(b, from, to, x) = [b EXCEPT !.tok = tok]
    BY <1>2 DEF PayTokens
  <2>2. tok \in [TokenAccounts -> Nat]
    BY DEF Books
  <2> HIDE DEF tok
  <2>3. [b EXCEPT !.tok = tok] \in Books /\ [b EXCEPT !.tok = tok].tok = tok
    BY <2>2 DEF Books
  <2> QED
    BY <2>1, <2>3 DEF tok, Books
<1> QED
  BY <1>1, <1>2

(* A payment in SOL to a wallet moves x and leaves the tokens alone.       *)
LEMMA PaySolEffect ==
  ASSUME NEW b \in Books, NEW from \in SolAccounts, NEW to \in SolAccounts,
         NEW x \in Nat, b.sol[from] >= x
  PROVE  /\ PaySol(b, from, to, x) \in Books
         /\ PaySol(b, from, to, x).tok = b.tok
         /\ PaySol(b, from, to, x).open = b.open
         /\ \A a \in SolAccounts :
              PaySol(b, from, to, x).sol[a] =
                b.sol[a] - (IF a = from THEN x ELSE 0) + (IF a = to THEN x ELSE 0)
<1>1. CASE x = 0
  BY <1>1 DEF PaySol, Books
<1>2. CASE x # 0
  <2> DEFINE sol == [a \in SolAccounts |->
                b.sol[a] - (IF a = from THEN x ELSE 0) + (IF a = to THEN x ELSE 0)]
             excess == [a \in TokenAccounts |-> b.excess[a] + (IF a = to THEN x ELSE 0)]
  <2>1. PaySol(b, from, to, x) = [b EXCEPT !.sol = sol, !.excess = excess]
    BY <1>2 DEF PaySol
  <2>2. sol \in [SolAccounts -> Nat]
    BY DEF Books
  <2>3. excess \in [TokenAccounts -> Nat]
    BY DEF Books
  <2> HIDE DEF sol, excess
  <2>4. /\ [b EXCEPT !.sol = sol, !.excess = excess] \in Books
        /\ [b EXCEPT !.sol = sol, !.excess = excess].sol = sol
        /\ [b EXCEPT !.sol = sol, !.excess = excess].tok = b.tok
        /\ [b EXCEPT !.sol = sol, !.excess = excess].open = b.open
    BY <2>2, <2>3 DEF Books
  <2> QED
    BY <2>1, <2>4 DEF sol
<1> QED
  BY <1>1, <1>2

(* Creating an account costs its payer the rent and nobody else anything.  *)
LEMMA OpenedEffect ==
  ASSUME NEW b \in Books, NEW a \in TokenAccounts, NEW payer \in SolAccounts,
         Openable(b, a, payer)
  PROVE  /\ Opened(b, a, payer) \in Books
         /\ Opened(b, a, payer).tok = b.tok
         /\ \A s \in SolAccounts \ {payer} : Opened(b, a, payer).sol[s] = b.sol[s]
         /\ Opened(b, a, payer).sol[payer] =
              b.sol[payer] - (IF Opened(b, a, payer).open # b.open
                              THEN TOKEN_ACCOUNT_RENT ELSE 0)
<1>1. CASE a \in b.open
  BY <1>1 DEF Opened, Books
<1>2. CASE a \notin b.open
  <2> DEFINE sol == [b.sol EXCEPT ![payer] = @ - TOKEN_ACCOUNT_RENT]
             open == b.open \cup {a}
  <2>1. Opened(b, a, payer) = [b EXCEPT !.open = open, !.sol = sol]
    BY <1>2 DEF Opened, Books
  <2>2. b.sol[payer] >= TOKEN_ACCOUNT_RENT
    BY <1>2 DEF Openable
  <2>3. /\ sol \in [SolAccounts -> Nat]
        /\ \A s \in SolAccounts \ {payer} : sol[s] = b.sol[s]
        /\ sol[payer] = b.sol[payer] - TOKEN_ACCOUNT_RENT
    BY <2>2, LedgerAssumption DEF Books
  <2>4. open \in SUBSET TokenAccounts /\ open # b.open
    BY <1>2 DEF Books
  <2> HIDE DEF sol, open
  <2> QED
    BY <2>1, <2>3, <2>4 DEF Books
<1> QED
  BY <1>1, <1>2

-----------------------------------------------------------------------------
(* What a claim in SOL does: all but the rent goes to the receiver.        *)
LEMMA ClaimSolEffect ==
  ASSUME BookInv, NEW c \in Claims, ClaimSol(c)
  PROVE  /\ book' \in Books
         /\ book'.tok = book.tok /\ book'.open = book.open
         /\ book'.sol[SaAuthority] >= MIN_SOL_ACCOUNT_RENT
         /\ \A a \in SolAccounts :
              book'.sol[a] = book.sol[a] - (IF a = SaAuthority THEN ClaimableSol ELSE 0)
                                         + (IF a = c.receiver THEN ClaimableSol ELSE 0)
<1>1. c.receiver \in SolAccounts /\ SaAuthority \in SolAccounts
  BY ClaimAssumption DEF IsClaim
<1>2. ClaimableSol \in Nat /\ ClaimableSol = book.sol[SaAuthority] - MIN_SOL_ACCOUNT_RENT
  BY <1>1, ClaimAssumption DEF ClaimSol, ClaimableSol, BookInv, Books
<1>3. book \in Books /\ book.sol[SaAuthority] \in Nat
  BY <1>1 DEF BookInv, Books
<1>4. book.sol[SaAuthority] >= ClaimableSol
  BY <1>2, <1>3, ClaimAssumption
<1> DEFINE x == ClaimableSol
<1>5. book' = PaySol(book, SaAuthority, c.receiver, x)
  BY DEF ClaimSol
<1>6. x \in Nat /\ book.sol[SaAuthority] >= x
  BY <1>2, <1>4
<1> HIDE DEF x
<1>7. /\ book' \in Books /\ book'.tok = book.tok /\ book'.open = book.open
      /\ \A a \in SolAccounts :
           book'.sol[a] = book.sol[a] - (IF a = SaAuthority THEN x ELSE 0)
                                      + (IF a = c.receiver THEN x ELSE 0)
  BY <1>1, <1>3, <1>5, <1>6, PaySolEffect
<1>8. x = book.sol[SaAuthority] - MIN_SOL_ACCOUNT_RENT
  BY <1>2 DEF x
<1>9. book'.sol[SaAuthority] >= MIN_SOL_ACCOUNT_RENT
  <2>1. book'.sol[SaAuthority] = book.sol[SaAuthority] - x
                                   + (IF SaAuthority = c.receiver THEN x ELSE 0)
    BY <1>1, <1>7
  <2> QED
    BY <1>3, <1>6, <1>8, <2>1, ClaimAssumption
<1> QED
  BY <1>7, <1>9 DEF x

(* What a claim in tokens does: the whole source goes to the receiver's    *)
(* account, which the claimer may have paid for.                           *)
LEMMA ClaimTokensEffect ==
  ASSUME BookInv, NEW c \in Claims, ClaimTokens(c)
  PROVE  /\ book' \in Books
         /\ c.source \in TokenAccounts /\ c.destination \in TokenAccounts
         /\ OwnerOf[c.destination] = c.receiver
         /\ \A s \in SolAccounts : book'.sol[s] = book.sol[s] - RentPaidBy(s)
         /\ \A a \in TokenAccounts :
              book'.tok[a] =
                book.tok[a] - (IF a = c.source THEN book.tok[c.source] ELSE 0)
                            + (IF a = c.destination THEN book.tok[c.source] ELSE 0)
<1>1. /\ book \in Books /\ c.destination \in TokenAccounts /\ Claimer \in SolAccounts
      /\ OwnerOf[c.destination] = c.receiver
  BY ClaimAssumption DEF ClaimTokens, DestinationAllowed, BookInv
<1>2. c.source \in TokenAccounts
  BY <1>1 DEF ClaimTokens, Books
<1>3. c.destination # None
  BY <1>1, ClaimAssumption
<1>4. Openable(book, c.destination, Claimer)
  BY <1>3 DEF ClaimTokens, Creatable, Openable
<1> DEFINE b == Opened(book, c.destination, Claimer)
           x == book.tok[c.source]
<1>5. /\ b \in Books /\ b.tok = book.tok
      /\ \A s \in SolAccounts \ {Claimer} : b.sol[s] = book.sol[s]
      /\ b.sol[Claimer] = book.sol[Claimer] - (IF b.open # book.open
                                               THEN TOKEN_ACCOUNT_RENT ELSE 0)
      /\ \A s \in SolAccounts : book.sol[s] \in Nat
  BY <1>1, <1>4, OpenedEffect DEF Books
<1>6. book' = PayTokens(b, c.source, c.destination, x)
  BY <1>3 DEF ClaimTokens, Prepared
<1>7. x \in Nat /\ b.tok[c.source] >= x
  BY <1>1, <1>2, <1>5 DEF Books
<1> HIDE DEF b
<1>8. /\ book' \in Books /\ book'.sol = b.sol /\ book'.open = b.open
      /\ \A a \in TokenAccounts :
           book'.tok[a] = b.tok[a] - (IF a = c.source THEN x ELSE 0)
                                   + (IF a = c.destination THEN x ELSE 0)
  <2> HIDE DEF x
  <2> QED
    BY <1>1, <1>2, <1>5, <1>6, <1>7, PayTokensEffect
<1>9. \A s \in SolAccounts : book'.sol[s] = book.sol[s] - RentPaidBy(s)
  BY <1>5, <1>8 DEF RentPaidBy
<1> QED
  BY <1>1, <1>2, <1>5, <1>8, <1>9

(* A fee that arrives takes nothing from anybody.                          *)
LEMMA FeeEffect ==
  ASSUME BookInv,
         \/ \E a \in SaAccounts : FeeInTokens(a) \/ Sync(a)
         \/ \E a \in SaAccounts \cup {SaAuthority} : FeeInSol(a)
  PROVE  /\ book' \in Books /\ last' = None
         /\ \A s \in SolAccounts : book'.sol[s] >= book.sol[s]
<1>1. ASSUME NEW a \in SaAccounts, FeeInTokens(a)
      PROVE  book' \in Books /\ last' = None /\ book'.sol = book.sol
  BY <1>1 DEF FeeInTokens, Step, BookInv, Books, SaAccounts
<1>2. ASSUME NEW a \in SaAccounts, Sync(a)
      PROVE  book' \in Books /\ last' = None /\ book'.sol = book.sol
  <2> DEFINE tok == [book.tok EXCEPT ![a] = @ + book.excess[a]]
             excess == [book.excess EXCEPT ![a] = 0]
  <2>1. book' = [book EXCEPT !.tok = tok, !.excess = excess] /\ last' = None
    BY <1>2 DEF Sync, Synced, Step, BookInv, Books
  <2>2. tok \in [TokenAccounts -> Nat] /\ excess \in [TokenAccounts -> Nat]
    BY DEF BookInv, Books, SaAccounts
  <2> HIDE DEF tok, excess
  <2> QED
    BY <2>1, <2>2 DEF BookInv, Books
<1>3. ASSUME NEW a \in SaAccounts \cup {SaAuthority}, FeeInSol(a)
      PROVE  /\ book' \in Books /\ last' = None
             /\ \A s \in SolAccounts : book'.sol[s] >= book.sol[s]
  <2>1. last' = None
    BY <1>3 DEF FeeInSol, Step
  <2>2. CASE a = SaAuthority
    BY <1>3, <2>1, <2>2, ClaimAssumption DEF FeeInSol, BookInv, Books
  <2>3. CASE a # SaAuthority
    BY <1>3, <2>1, <2>3 DEF FeeInSol, BookInv, Books, SaAccounts
  <2> QED
    BY <2>2, <2>3
<1>4. \A s \in SolAccounts : book.sol[s] \in Nat
  BY DEF BookInv, Books
<1> QED
  BY <1>1, <1>2, <1>3, <1>4

LEMMA BookInitial == Init => BookInv
  BY ClaimAssumption DEF Init, BookInv

LEMMA BookStep == BookInv /\ [Next]_vars => BookInv'
<1> SUFFICES ASSUME BookInv, [Next]_vars
             PROVE  book' \in Books
  BY DEF BookInv
<1>1. CASE UNCHANGED vars
  BY <1>1 DEF vars, BookInv
<1>2. ASSUME NEW c \in Claims, ClaimSol(c) \/ ClaimTokens(c)
      PROVE  book' \in Books
  BY <1>2, ClaimSolEffect, ClaimTokensEffect
<1>3. CASE \/ \E a \in SaAccounts : FeeInTokens(a) \/ Sync(a)
           \/ \E a \in SaAccounts \cup {SaAuthority} : FeeInSol(a)
  BY <1>3, FeeEffect
<1> QED
  BY <1>1, <1>2, <1>3 DEF Next

LEMMA BookInvariance == Spec => []BookInv
  BY BookInitial, BookStep, PTL DEF Spec

-----------------------------------------------------------------------------
(* ClaimKeepsRent: however claims and fees follow each other, the vault's  *)
(* authority never falls below the rent minimum once it had it.            *)
THEOREM ClaimKeepsRent == Spec => AuthorityKeepsRent
<1>1. BookInv /\ [Next]_vars =>
        [book.sol[SaAuthority] >= MIN_SOL_ACCOUNT_RENT =>
           book'.sol[SaAuthority] >= MIN_SOL_ACCOUNT_RENT]_vars
  <2> SUFFICES ASSUME BookInv, Next, book.sol[SaAuthority] >= MIN_SOL_ACCOUNT_RENT
               PROVE  book'.sol[SaAuthority] >= MIN_SOL_ACCOUNT_RENT
    OBVIOUS
  <2>1. SaAuthority \in SolAccounts \ {Claimer}
    BY ClaimAssumption
  <2>2. ASSUME NEW c \in Claims, ClaimSol(c)
        PROVE  book'.sol[SaAuthority] >= MIN_SOL_ACCOUNT_RENT
    BY <2>2, ClaimSolEffect
  <2>3. ASSUME NEW c \in Claims, ClaimTokens(c)
        PROVE  book'.sol[SaAuthority] >= MIN_SOL_ACCOUNT_RENT
    <3>1. book'.sol[SaAuthority] = book.sol[SaAuthority] - RentPaidBy(SaAuthority)
      BY <2>1, <2>3, ClaimTokensEffect
    <3> QED
      BY <2>1, <3>1, ClaimAssumption DEF RentPaidBy, BookInv, Books
  <2>4. ASSUME \/ \E a \in SaAccounts : FeeInTokens(a) \/ Sync(a)
               \/ \E a \in SaAccounts \cup {SaAuthority} : FeeInSol(a)
        PROVE  book'.sol[SaAuthority] >= MIN_SOL_ACCOUNT_RENT
    <3>1. book'.sol[SaAuthority] >= book.sol[SaAuthority] /\ book' \in Books
      BY <2>1, <2>4, FeeEffect
    <3>2. book.sol[SaAuthority] \in Nat /\ book'.sol[SaAuthority] \in Nat
      BY <2>1, <3>1 DEF BookInv, Books
    <3> QED
      BY <3>1, <3>2, ClaimAssumption
  <2> QED
    BY <2>2, <2>3, <2>4 DEF Next
<1> QED
  BY <1>1, BookInvariance, PTL DEF Spec, AuthorityKeepsRent

LEMMA HeldBy ==
  /\ \A b : \A a \in SolAccounts : Held(b, a) = b.sol[a]
  /\ \A b : \A a \in TokenAccounts : Held(b, a) = b.tok[a]
  BY LedgerAssumption DEF Held

(* ClaimArrives: whatever the vault, its tokens and the receivers are, a   *)
(* claim moves what it takes to one account of the receiver it names.      *)
THEOREM ClaimArrives == Spec => ReceiverGetsTheClaim
<1>1. ASSUME BookInv, NEW c \in Claims, ClaimSol(c)
      PROVE  Arrived(c.receiver) /\ OthersKeep(c.receiver)
  <2>1. /\ c.receiver \in SolAccounts /\ SaAuthority \in SolAccounts
        /\ \A a \in TokenAccounts : a \notin SolAccounts
        /\ book' \in Books
        /\ book'.tok = book.tok /\ book'.open = book.open
        /\ \A a \in SolAccounts :
             book'.sol[a] = book.sol[a] - (IF a = SaAuthority THEN ClaimableSol ELSE 0)
                                        + (IF a = c.receiver THEN ClaimableSol ELSE 0)
    BY <1>1, ClaimSolEffect, ClaimAssumption, LedgerAssumption DEF IsClaim
  <2>2. ClaimableSol \in Nat
    BY <1>1, <2>1, ClaimAssumption DEF ClaimSol, ClaimableSol, BookInv, Books
  <2>3. \A a \in SolAccounts : book.sol[a] \in Nat
    BY <1>1 DEF BookInv, Books
  <2>4. Arrived(c.receiver)
    <3>1. c.receiver \in Mine(c.receiver)
      BY DEF Mine
    <3> SUFFICES ASSUME NEW a \in Vault, Held(book', a) < Held(book, a)
                 PROVE  Held(book', c.receiver) - Held(book, c.receiver)
                          = Held(book, a) - Held(book', a)
      BY <2>1, <2>2, <2>3, <3>1, HeldBy DEF Arrived, RentPaidBy
    <3>2. a \in SaAccounts => Held(book', a) = Held(book, a) /\ Held(book, a) \in Nat
      BY <1>1, <2>1, HeldBy DEF SaAccounts, BookInv, Books
    <3>3. a = SaAuthority
      BY <3>2 DEF Vault
    <3>4. /\ Held(book, a) = book.sol[a] /\ Held(book', a) = book'.sol[a]
          /\ Held(book, c.receiver) = book.sol[c.receiver]
          /\ Held(book', c.receiver) = book'.sol[c.receiver]
      BY <2>1, <3>3, HeldBy
    <3>5. c.receiver # a
      <4> SUFFICES ASSUME c.receiver = a
                   PROVE  FALSE
        OBVIOUS
      <4>1. book'.sol[a] = book.sol[a] - ClaimableSol + ClaimableSol
        BY <2>1, <3>3
      <4> QED
        BY <2>1, <2>2, <2>3, <3>3, <3>4, <4>1
    <3>6. /\ book'.sol[a] = book.sol[a] - ClaimableSol
          /\ book'.sol[c.receiver] = book.sol[c.receiver] + ClaimableSol
      BY <2>1, <2>2, <2>3, <3>3, <3>5
    <3> QED
      BY <2>1, <2>2, <2>3, <3>3, <3>4, <3>6
  <2>5. OthersKeep(c.receiver)
    <3> SUFFICES ASSUME NEW a \in TokenAccounts \cup SolAccounts,
                        a # SaAuthority, a # c.receiver
                 PROVE  Held(book', a) = Held(book, a) - RentPaidBy(a)
      BY DEF OthersKeep, Vault, Mine
    <3>3. RentPaidBy(a) = 0
      BY <2>1 DEF RentPaidBy
    <3>1. CASE a \in TokenAccounts
      <4>1. Held(book', a) = Held(book, a) /\ Held(book, a) \in Nat
        BY <1>1, <2>1, <3>1, HeldBy DEF BookInv, Books
      <4> QED
        BY <3>3, <4>1
    <3>2. CASE a \in SolAccounts
      BY <2>1, <2>2, <2>3, <3>2, <3>3, HeldBy
    <3> QED
      BY <3>1, <3>2
  <2> QED
    BY <2>4, <2>5
<1>2. ASSUME BookInv, NEW c \in Claims, ClaimTokens(c)
      PROVE  Arrived(c.receiver) /\ OthersKeep(c.receiver)
  <2> DEFINE x == book.tok[c.source]
  <2>1. /\ c.receiver \in SolAccounts
        /\ \A a \in TokenAccounts : a \notin SolAccounts
        /\ SaAuthority \in SolAccounts \ {Claimer} /\ Claimer \in SolAccounts
        /\ c.source \in TokenAccounts /\ c.destination \in TokenAccounts
        /\ OwnerOf[c.destination] = c.receiver
        /\ \A s \in SolAccounts : book'.sol[s] = book.sol[s] - RentPaidBy(s)
        /\ \A a \in TokenAccounts :
             book'.tok[a] = book.tok[a] - (IF a = c.source THEN x ELSE 0)
                                        + (IF a = c.destination THEN x ELSE 0)
    BY <1>2, ClaimTokensEffect, ClaimAssumption, LedgerAssumption DEF IsClaim
  <2>2. c.source \in SaAccounts
    BY <1>2, <2>1, ClaimAssumption DEF IsClaim
  <2>3. x \in Nat /\ \A a \in TokenAccounts : book.tok[a] \in Nat
    BY <1>2, <2>1 DEF BookInv, Books
  <2>4. \A s \in SolAccounts : book.sol[s] \in Nat
    BY <1>2 DEF BookInv, Books
  <2> HIDE DEF x
  <2>5. Arrived(c.receiver)
    <3>1. c.destination \in Mine(c.receiver) /\ c.destination # Claimer
      BY <2>1 DEF Mine
    <3> SUFFICES ASSUME NEW a \in Vault, Held(book', a) < Held(book, a)
                 PROVE  Held(book', c.destination) - Held(book, c.destination)
                          = Held(book, a) - Held(book', a)
      BY <2>1, <2>3, <3>1, HeldBy DEF Arrived, RentPaidBy
    <3>2. a # SaAuthority
      <4>1. Held(book', SaAuthority) = Held(book, SaAuthority)
        BY <2>1, <2>4, HeldBy DEF RentPaidBy
      <4>2. Held(book, SaAuthority) \in Nat
        BY <2>1, <2>4, HeldBy
      <4> QED
        BY <4>1, <4>2
    <3>3. a \in TokenAccounts
      BY <3>2 DEF Vault, SaAccounts
    <3>4. a = c.source /\ c.source # c.destination
      BY <2>1, <2>3, <3>3, HeldBy
    <3> QED
      BY <2>1, <2>3, <3>4, HeldBy DEF x
  <2>6. OthersKeep(c.receiver)
    <3> SUFFICES ASSUME NEW a \in TokenAccounts \cup SolAccounts, a # c.source,
                        a # c.destination
                 PROVE  Held(book', a) = Held(book, a) - RentPaidBy(a)
      BY <2>1, <2>2 DEF OthersKeep, Vault, Mine
    <3>1. CASE a \in TokenAccounts
      <4>1. RentPaidBy(a) = 0
        BY <2>1, <3>1 DEF RentPaidBy
      <4> QED
        BY <2>1, <2>3, <3>1, <4>1, HeldBy
    <3>2. CASE a \in SolAccounts
      BY <2>1, <3>2, HeldBy
    <3> QED
      BY <3>1, <3>2
  <2> QED
    BY <2>5, <2>6
<1>3. BookInv /\ [Next]_vars =>
        [Claimed => Arrived(last'.receiver) /\ OthersKeep(last'.receiver)]_vars
  <2> SUFFICES ASSUME BookInv, Next, last' # None
               PROVE  Arrived(last'.receiver) /\ OthersKeep(last'.receiver)
    BY DEF Claimed
  <2>1. PICK c \in Claims : ClaimSol(c) \/ ClaimTokens(c)
    BY FeeEffect DEF Next
  <2>2. last' = c
    BY <2>1 DEF ClaimSol, ClaimTokens, Step
  <2> QED
    BY <1>1, <1>2, <2>1, <2>2
<1> QED
  BY <1>3, BookInvariance, PTL DEF Spec, ReceiverGetsTheClaim

-----------------------------------------------------------------------------
(* Creation of token accounts.                                             *)

LEMMA CreationInitial == CreationInit => CreationInv
  BY CreationAssumption
     DEF CreationInit, CreationInv, CreationTypeOK, CreatedForItsOwner, RefusedForCause,
         RentHeld, NoAnswer, Addresses

LEMMA CreationStep == CreationInv /\ [CreationNext]_creationVars => CreationInv'
<1> SUFFICES ASSUME CreationInv, [CreationNext]_creationVars
             PROVE  CreationInv'
  OBVIOUS
<1> USE CreationAssumption
        DEF CreationInv, CreationTypeOK, CreatedForItsOwner, RefusedForCause, RentHeld,
            Initialized
<1>1. /\ \A a \in Addresses : a[1] \in Wallets /\ a[1] # Nobody
      /\ NoAnswer[1] \notin Addresses /\ NoAnswer[2] = FALSE /\ NoAnswer[3] = FALSE
  BY DEF Addresses, NoAnswer
<1>2. ASSUME NEW a \in Addresses, NEW bump \in BOOLEAN, KeepTokenAccount(a, bump)
      PROVE  CreationInv'
  BY <1>2 DEF KeepTokenAccount, AlreadyCreated
<1>3. ASSUME NEW a \in Addresses, NEW bump \in BOOLEAN, CreateTokenAccount(a, bump)
      PROVE  CreationInv'
  <2>1. /\ ~Initialized(a) /\ lamports[a] >= Rent /\ owner' = [owner EXCEPT ![a] = a[1]]
        /\ answer' = <<a, TRUE, bump>> /\ lamports' = lamports
    BY <1>3 DEF CreateTokenAccount, Initializable
  <2> QED
    BY <1>1, <2>1
<1>4. ASSUME NEW a \in Addresses, NEW bump \in BOOLEAN, CreationFails(a, bump)
      PROVE  CreationInv'
  BY <1>4 DEF CreationFails, AlreadyCreated, Initializable
<1>5. ASSUME NEW a \in Addresses, Fund(a)
      PROVE  CreationInv'
  <2>1. PICK x \in 1..Rent :
          /\ lamports[a] + x <= MaxLamports
          /\ lamports' = [lamports EXCEPT ![a] = @ + x]
    BY <1>5 DEF Fund
  <2>2. answer' = NoAnswer /\ owner' = owner
    BY <1>5 DEF Fund
  <2>3. lamports' \in [Addresses -> 0..MaxLamports] /\ RentHeld'
    BY <2>1, <2>2
  <2> QED
    BY <1>1, <2>2, <2>3
<1>6. ASSUME NEW a \in Addresses, SetAuthority(a)
      PROVE  CreationInv'
  BY <1>1, <1>6 DEF SetAuthority
<1>7. ASSUME NEW a \in Addresses, CloseAccount(a)
      PROVE  CreationInv'
  <2>1. /\ lamports' = [lamports EXCEPT ![a] = 0] /\ owner' = [owner EXCEPT ![a] = Nobody]
        /\ answer' = NoAnswer
    BY <1>7 DEF CloseAccount
  <2>2. /\ lamports' \in [Addresses -> 0..MaxLamports]
        /\ owner' \in [Addresses -> Wallets \cup {Nobody}] /\ RentHeld'
    BY <2>1
  <2> QED
    BY <1>1, <2>1, <2>2
<1>8. CASE UNCHANGED creationVars
  BY <1>8 DEF creationVars
<1> QED
  BY <1>2, <1>3, <1>4, <1>5, <1>6, <1>7, <1>8 DEF CreationNext

(* CreationInvariance: for any owners, seeds and rent, whatever anybody    *)
(* does to the addresses in between, a creation that succeeds has made the *)
(* owner's account and one that fails had a cause.                         *)
THEOREM CreationInvariance == CreationSpec => []CreationInv
  BY CreationInitial, CreationStep, PTL DEF CreationSpec

=============================================================================
