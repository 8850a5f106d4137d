-------------------------- MODULE WrapUnwrapProofs --------------------------
(***************************************************************************)
(* What a conversion between SOL and wSOL promises, for any accounts, any  *)
(* amounts and any rates the instructions accept: the payer loses the fees *)
(* and nothing else, the fees arrive, the amount is converted, and the     *)
(* vault that fees may pass through keeps what it had.                     *)
(***************************************************************************)
EXTENDS WrapUnwrap, TLAPS

(* What is known at each stage of the handler, in terms of the books       *)
(* before the instruction (committed) and now (book).                      *)
Phases == {"idle", "wrap", "unwrap", "fees", "done"}

TypeOK ==
  /\ book \in Books /\ committed \in Books
  /\ pc \in Phases /\ commits \in Nat
  /\ req \in Requests \cup {None}

EmptyUnlessOpen(b) ==
  \A a \in TokenAccounts \ b.open : b.tok[a] = 0 /\ b.excess[a] = 0

RunningInv ==
  /\ EmptyUnlessOpen(book) /\ EmptyUnlessOpen(committed)
  /\ pc = "idle" => committed = book
  /\ pc # "idle" => /\ req \in Requests /\ RatesAllowed(req)
                    /\ req.wsol \in committed.open

(* Begin has opened the temporary account at most.                         *)
BegunInv ==
  pc \in {"wrap", "unwrap"} =>
    /\ (pc = "wrap") <=> req.wrap
    /\ book.tok = committed.tok /\ book.excess = committed.excess
    /\ \A a \in SolAccounts \ {Payer} : book.sol[a] = committed.sol[a]
    /\ committed.open \subseteq book.open
    /\ Purse(book) = Purse(committed)

(* What an account of a wSOL conversion holds once the amount moved.       *)
AmountMoved(b, fees) ==
  /\ req.wrap => b.tok[req.wsol] + fees
                   = committed.tok[req.wsol] + committed.excess[req.wsol] + req.amount
  /\ ~req.wrap =>
       /\ Temp \notin b.open
       /\ req.wsol # Temp =>
            b.tok[req.wsol] + fees + req.amount = committed.tok[req.wsol]

(* The amount has moved within the payer's own accounts.                   *)
ConvertedInv ==
  pc = "fees" =>
    /\ \A a \in TokenAccounts \ {Temp, req.wsol} :
         book.tok[a] = committed.tok[a] /\ book.excess[a] = committed.excess[a]
    /\ \A a \in SolAccounts \ {Payer} : book.sol[a] = committed.sol[a]
    /\ Purse(book) = Purse(committed)
    /\ AmountMoved(book, 0)

(* The fees are paid: what the instruction will have done if it commits.   *)
Received(a) == Holding(book, a) - Holding(committed, a)

PayerPaidFees ==
  ThirdParties =>
    Purse(committed) - Purse(book)
      = Received(req.commission)
        + (IF req.platform = req.commission THEN 0 ELSE Received(req.platform))

PlatformHasTokens ==
  req.version = 2 /\ PlatformPart(req) > 0 =>
    /\ book.tok[req.platform] >= committed.tok[req.platform] + PlatformPart(req)
    /\ req.commission # req.platform =>
         book.excess[req.platform] <= committed.excess[req.platform]

HasFees(a) ==
  \/ Received(a) = FeesDue(a)
  \/ /\ req.version = 3 /\ ~req.tob /\ ChargesSol(req)
     /\ Received(a) > FeesDue(a)
     /\ Holding(book, a) \in RentMinima

FeesReceived ==
  ThirdParties => PlatformHasTokens /\ \A a \in FeeAccounts : HasFees(a)

AmountConverted ==
  ThirdParties => AmountMoved(book, IF ChargesSol(req) THEN 0 ELSE Fee(req))

VaultKept ==
  \A a \in SaAccounts \cup {SaAuthority} :
    /\ Received(a) >= 0
    /\ {req.commission, req.platform} \cap (SaAccounts \cup {SaAuthority}) = {} =>
         Received(a) = 0

PaidInv ==
  pc = "done" => /\ PayerPaidFees
                 /\ FeesReceived
                 /\ AmountConverted
                 /\ VaultKept

(* WrapInv is inductive: each stage rests on the one before.               *)
WrapInv ==
  /\ TypeOK
  /\ RunningInv
  /\ BegunInv
  /\ ConvertedInv
  /\ PaidInv

-----------------------------------------------------------------------------
(* Arithmetic.                                                             *)

(* Integer division rounds down.                                           *)
LEMMA Division ==
  ASSUME NEW n \in Nat, NEW d \in Nat \ {0}
  PROVE  /\ n \div d \in Nat
         /\ (n \div d) * d <= n
         /\ n < (n \div d) * d + d
OBVIOUS

(* A product grows with its factors.                                       *)
LEMMA Monotone ==
  ASSUME NEW x \in Nat, NEW y \in Nat, NEW z \in Nat, x <= y
  PROVE  x * z <= y * z /\ z * x <= z * y
OBVIOUS

(* A part of a whole, by a rate up to the denominator.                     *)
LEMMA Part ==
  ASSUME NEW x \in Nat, NEW rate \in Nat, NEW d \in Nat \ {0}, rate <= d
  PROVE  (x * rate) \div d \in 0..x
<1>1. x * rate \in Nat /\ x * rate <= x * d
  BY Monotone
<1> DEFINE q == (x * rate) \div d
<1>2. q \in Nat /\ q * d <= x * rate
  BY <1>1, Division
<1>3. q * d <= x * d
  BY <1>1, <1>2
<1> HIDE DEF q
<1>4. q <= x
  <2> SUFFICES ASSUME q >= x + 1 PROVE FALSE
    BY <1>2
  <2>1. (x + 1) * d <= q * d
    BY <1>2, Monotone
  <2>2. (x + 1) * d = x * d + d
    OBVIOUS
  <2> QED
    BY <1>2, <1>3, <2>1, <2>2
<1> QED
  BY <1>2, <1>4 DEF q

-----------------------------------------------------------------------------
(* Requests.                                                               *)

(* The parts of the fee make up the fee.                                   *)
LEMMA FeeParts ==
  ASSUME NEW r, IsRequest(r), RatesAllowed(r)
  PROVE  /\ Fee(r) \in Nat /\ CommissionPart(r) \in Nat /\ PlatformPart(r) \in Nat
         /\ Fee(r) = CommissionPart(r) + PlatformPart(r)
         /\ r.version = 1 => PlatformPart(r) = 0
<1>1. /\ r.version \in 1..3 /\ r.amount \in Nat /\ r.rate \in Nat /\ r.platformRate \in Nat
      /\ r.onFrom \in BOOLEAN
  BY DEF IsRequest
<1> DEFINE D == Denominator[r.version]
           P == PlatformDenominator[r.version]
<1>2. D \in Nat \ {0} /\ r.rate < D
  <2>1. D \in Nat /\ RateLimit[r.version] \in Nat /\ RateLimit[r.version] < D
    BY <1>1, WrapRatesAssumption
  <2>2. r.rate <= RateLimit[r.version] \/ r.rate = 0
    BY <1>1 DEF RatesAllowed
  <2> QED
    BY <1>1, <2>1, <2>2
<1>3. Fee(r) \in Nat /\ (r.rate = 0 => Fee(r) = 0)
  <2> DEFINE n == r.amount * r.rate
  <2>1. n \in Nat /\ (r.rate = 0 => n = 0)
    BY <1>1
  <2>2. D \in Nat \ {0} /\ D - r.rate \in Nat \ {0}
    BY <1>1, <1>2
  <2>3. Fee(r) = IF r.onFrom THEN n \div (D - r.rate) ELSE n \div D
    BY DEF Fee
  <2> HIDE DEF n, D
  <2>4. \A d \in Nat \ {0} : n \div d \in Nat /\ (n = 0 => n \div d = 0)
    BY <2>1, Division
  <2> QED
    BY <2>1, <2>2, <2>3, <2>4
<1>4. PlatformPart(r) \in 0..Fee(r)
  <2>1. CASE r.version = 1
    BY <1>3, <2>1 DEF PlatformPart
  <2>2. CASE r.version # 1
    <3>1. P \in Nat \ {0} /\ PlatformPart(r) = (Fee(r) * r.platformRate) \div P
      BY <1>1, <2>2, WrapRatesAssumption DEF PlatformPart
    <3>2. r.platformRate <= P \/ Fee(r) = 0
      BY <1>1, <1>3, <2>2 DEF RatesAllowed
    <3> HIDE DEF P
    <3>3. CASE r.platformRate <= P
      BY <1>1, <1>3, <3>1, <3>3, Part
    <3>4. CASE Fee(r) = 0
      <4>1. Fee(r) * r.platformRate = 0
        BY <1>1, <3>4
      <4> QED
        BY <3>1, <3>4, <4>1, Division
    <3> QED
      BY <3>2, <3>3, <3>4
  <2> QED
    BY <2>1, <2>2
<1>5. r.version = 1 => PlatformPart(r) = 0
  BY DEF PlatformPart
<1> QED
  BY <1>3, <1>4, <1>5 DEF CommissionPart

(* The accounts of a request, and whose they are.                          *)
LEMMA RequestAccounts ==
  ASSUME NEW r \in Requests
  PROVE  /\ IsRequest(r)
         /\ r.wsol \in TokenAccounts /\ Temp \in TokenAccounts /\ WsolSa \in SaAccounts
         /\ Payer \in SolAccounts /\ SaAuthority \in SolAccounts /\ Payer # SaAuthority
         /\ r.wsol \in PayerAccounts /\ Temp \in PayerAccounts
         /\ r.wsol \notin SaAccounts /\ Temp \notin SaAccounts
         /\ \A a \in TokenAccounts : a \notin SolAccounts
         /\ SaAccounts \subseteq TokenAccounts
         /\ None \notin TokenAccounts \cup SolAccounts
  BY WrapRequestsAssumption, WrapAccountsAssumption, LedgerAssumption
     DEF IsRequest, WsolAccounts, SaAccounts, PayerAccounts

-----------------------------------------------------------------------------
(* Money.                                                                  *)

(* What account a gets of an amount that goes to one account.              *)
At(a, to, x) == IF a = to THEN x ELSE 0

(* A payment in tokens moves x from one account to the other.              *)
LEMMA PayTokensEffect ==
  ASSUME NEW b \in Books, NEW from, NEW to, NEW x \in Nat,
         x > 0 => from \in TokenAccounts /\ b.tok[from] >= x
  PROVE  LET n == PayTokens(b, from, to, x)
         IN  /\ n \in Books /\ n.sol = b.sol /\ n.open = b.open /\ n.excess = b.excess
             /\ \A a \in TokenAccounts :
                  n.tok[a] = b.tok[a] - At(a, from, x) + At(a, to, x)
<1>1. CASE x = 0
  BY <1>1 DEF PayTokens, Books, At
<1>2. CASE x # 0
  <2> DEFINE tok == [a \in TokenAccounts |->
                b.tok[a] - (IF a = from THEN x ELSE 0) + (IF a = to THEN x ELSE 0)]
  <2>1. PayTokens(b, from, to, x) = [b EXCEPT !.tok = tok]
    BY <1>2 DEF PayTokens
  <2>2. tok \in [TokenAccounts -> Nat]
    <3>1. b.tok \in [TokenAccounts -> Nat] /\ b.tok[from] >= x
      BY <1>2 DEF Books
    <3> QED
      BY <3>1
  <2> HIDE DEF tok
  <2>3. LET n == [b EXCEPT !.tok = tok]
        IN  /\ n \in Books /\ n.tok = tok
            /\ n.sol = b.sol /\ n.open = b.open /\ n.excess = b.excess
    BY <2>2 DEF Books
  <2> QED
    BY <2>1, <2>3 DEF tok, At
<1> QED
  BY <1>1, <1>2

(* A payment in SOL moves x to a wallet, or to where a token account keeps *)
(* what is not synced.                                                     *)
LEMMA PaySolEffect ==
  ASSUME NEW b \in Books, NEW from \in SolAccounts, NEW to, NEW x \in Nat,
         b.sol[from] >= x
  PROVE  LET n == PaySol(b, from, to, x)
         IN  /\ n \in Books /\ n.tok = b.tok /\ n.open = b.open
             /\ \A a \in SolAccounts :
                  n.sol[a] = b.sol[a] - At(a, from, x) + At(a, to, x)
             /\ \A a \in TokenAccounts : n.excess[a] = b.excess[a] + At(a, to, x)
<1>1. CASE x = 0
  BY <1>1 DEF PaySol, Books, At
<1>2. CASE x # 0
  <2> DEFINE sol == [a \in SolAccounts |->
                b.sol[a] - (IF a = from THEN x ELSE 0) + (IF a = to THEN x ELSE 0)]
             excess == [a \in TokenAccounts |-> b.excess[a] + (IF a = to THEN x ELSE 0)]
  <2>1. PaySol(b, from, to, x) = [b EXCEPT !.sol = sol, !.excess = excess]
    BY <1>2 DEF PaySol
  <2>2. sol \in [SolAccounts -> Nat]
    BY DEF Books
  <2>3. excess \in [TokenAccounts -> Nat]
    BY DEF Books
  <2> HIDE DEF sol, excess
  <2>4. /\ [b EXCEPT !.sol = sol, !.excess = excess] \in Books
        /\ [b EXCEPT !.sol = sol, !.excess = excess].sol = sol
        /\ [b EXCEPT !.sol = sol, !.excess = excess].excess = excess
        /\ [b EXCEPT !.sol = sol, !.excess = excess].tok = b.tok
        /\ [b EXCEPT !.sol = sol, !.excess = excess].open = b.open
    BY <2>2, <2>3 DEF Books
  <2> QED
    BY <2>1, <2>4 DEF sol, excess, At
<1> QED
  BY <1>1, <1>2

(* Closing an account gives all of it to its owner.                        *)
LEMMA ClosedEffect ==
  ASSUME NEW b \in Books, NEW d \in TokenAccounts, NEW to \in SolAccounts
  PROVE  LET n == Closed(b, d, to)
         IN  /\ n \in Books /\ n.open = b.open \ {d}
             /\ \A a \in TokenAccounts :
                  /\ n.tok[a] = IF a = d THEN 0 ELSE b.tok[a]
                  /\ n.excess[a] = IF a = d THEN 0 ELSE b.excess[a]
             /\ \A a \in SolAccounts :
                  n.sol[a] =
                    b.sol[a] + At(a, to, b.tok[d] + b.excess[d] + TOKEN_ACCOUNT_RENT)
<1> DEFINE tok == [b.tok EXCEPT ![d] = 0]
           excess == [b.excess EXCEPT ![d] = 0]
           open == b.open \ {d}
           sol == [b.sol EXCEPT ![to] = @ + b.tok[d] + b.excess[d] + TOKEN_ACCOUNT_RENT]
<1>1. Closed(b, d, to) = [b EXCEPT !.tok = tok, !.excess = excess, !.open = open, !.sol = sol]
  BY DEF Closed, Books
<1>2. /\ tok \in [TokenAccounts -> Nat] /\ excess \in [TokenAccounts -> Nat]
      /\ sol \in [SolAccounts -> Nat] /\ open \in SUBSET TokenAccounts
  BY LedgerAssumption DEF Books
<1>3. /\ \A a \in TokenAccounts : tok[a] = (IF a = d THEN 0 ELSE b.tok[a])
      /\ \A a \in TokenAccounts : excess[a] = (IF a = d THEN 0 ELSE b.excess[a])
      /\ \A a \in SolAccounts :
           sol[a] = b.sol[a] + At(a, to, b.tok[d] + b.excess[d] + TOKEN_ACCOUNT_RENT)
  BY LedgerAssumption DEF Books, At
<1>4. open = b.open \ {d}
  OBVIOUS
<1> HIDE DEF tok, excess, open, sol
<1>5. LET n == [b EXCEPT !.tok = tok, !.excess = excess, !.open = open, !.sol = sol]
      IN  /\ n \in Books /\ n.tok = tok /\ n.excess = excess /\ n.open = open /\ n.sol = sol
  BY <1>2 DEF Books
<1> QED
  BY <1>1, <1>3, <1>4, <1>5

(* Creating an account moves the rent from its payer into it.              *)
LEMMA OpenedEffect ==
  ASSUME NEW b \in Books, NEW d \in TokenAccounts, NEW payer \in SolAccounts,
         Openable(b, d, payer)
  PROVE  LET n == Opened(b, d, payer)
         IN  /\ n \in Books /\ n.tok = b.tok /\ n.excess = b.excess
             /\ n.open = b.open \cup {d}
             /\ \A a \in SolAccounts :
                  n.sol[a] = b.sol[a] - (IF a = payer /\ d \notin b.open
                                         THEN TOKEN_ACCOUNT_RENT ELSE 0)
<1>1. CASE d \in b.open
  BY <1>1 DEF Opened, Books
<1>2. CASE d \notin b.open
  <2> DEFINE sol == [b.sol EXCEPT ![payer] = @ - TOKEN_ACCOUNT_RENT]
             open == b.open \cup {d}
  <2>1. Opened(b, d, payer) = [b EXCEPT !.open = open, !.sol = sol]
    BY <1>2 DEF Opened, Books
  <2>2. b.sol[payer] >= TOKEN_ACCOUNT_RENT
    BY <1>2 DEF Openable
  <2>3. /\ sol \in [SolAccounts -> Nat]
        /\ \A a \in SolAccounts :
             sol[a] = b.sol[a] - (IF a = payer THEN TOKEN_ACCOUNT_RENT ELSE 0)
    BY <2>2, LedgerAssumption DEF Books
  <2>4. open \in SUBSET TokenAccounts /\ open = b.open \cup {d}
    BY DEF Books
  <2> HIDE DEF sol, open
  <2> QED
    BY <1>2, <2>1, <2>3, <2>4 DEF Books
<1> QED
  BY <1>1, <1>2

(* Syncing makes tokens of an account's SOL.                               *)
LEMMA SyncedEffect ==
  ASSUME NEW b \in Books, NEW d \in TokenAccounts
  PROVE  /\ Synced(b, d) \in Books
         /\ Synced(b, d).sol = b.sol /\ Synced(b, d).open = b.open
         /\ \A a \in TokenAccounts :
              /\ Synced(b, d).tok[a] = b.tok[a] + (IF a = d THEN b.excess[a] ELSE 0)
              /\ Synced(b, d).excess[a] = IF a = d THEN 0 ELSE b.excess[a]
<1> DEFINE tok == [b.tok EXCEPT ![d] = @ + b.excess[d]]
           excess == [b.excess EXCEPT ![d] = 0]
<1>1. Synced(b, d) = [b EXCEPT !.tok = tok, !.excess = excess]
  BY DEF Synced, Books
<1>2. tok \in [TokenAccounts -> Nat] /\ excess \in [TokenAccounts -> Nat]
  BY DEF Books
<1>3. \A a \in TokenAccounts :
        /\ tok[a] = b.tok[a] + (IF a = d THEN b.excess[a] ELSE 0)
        /\ excess[a] = IF a = d THEN 0 ELSE b.excess[a]
  BY DEF Books
<1> HIDE DEF tok, excess
<1>4. LET n == [b EXCEPT !.tok = tok, !.excess = excess]
      IN  /\ n \in Books /\ n.tok = tok /\ n.excess = excess
          /\ n.sol = b.sol /\ n.open = b.open
  BY <1>2 DEF Books
<1> QED
  BY <1>1, <1>3, <1>4

-----------------------------------------------------------------------------
(* The stages.                                                             *)

LEMMA BeginStep ==
  ASSUME WrapInv, NEW r \in Requests, Begin(r)
  PROVE  WrapInv'
<1>1. /\ pc = "idle" /\ committed = book /\ book \in Books /\ commits \in Nat
      /\ EmptyUnlessOpen(book)
  BY DEF WrapInv, TypeOK, RunningInv, Begin
<1>2. /\ IsRequest(r) /\ r.wsol \in TokenAccounts /\ Temp \in TokenAccounts
      /\ Payer \in SolAccounts /\ r.wrap \in BOOLEAN
  BY RequestAccounts DEF IsRequest
<1>3. /\ r.wsol \in book.open /\ RatesAllowed(r) /\ req' = r
      /\ pc' = (IF r.wrap THEN "wrap" ELSE "unwrap")
      /\ UNCHANGED <<committed, commits>>
  BY DEF Begin
<1>4. /\ book' \in Books /\ book'.tok = book.tok /\ book'.excess = book.excess
      /\ \A a \in SolAccounts \ {Payer} : book'.sol[a] = book.sol[a]
      /\ book.open \subseteq book'.open /\ book'.open \subseteq book.open \cup {Temp}
      /\ book'.sol[Payer] = book.sol[Payer] - (IF Temp \in book'.open \ book.open
                                               THEN TOKEN_ACCOUNT_RENT ELSE 0)
  <2>1. CASE r.temp
    <3>1. book' = Opened(book, Temp, Payer) /\ Openable(book, Temp, Payer)
      BY <2>1 DEF Begin
    <3>2. /\ book' \in Books /\ book'.tok = book.tok /\ book'.excess = book.excess
          /\ book'.open = book.open \cup {Temp}
          /\ \A a \in SolAccounts :
               book'.sol[a] = book.sol[a] - (IF a = Payer /\ Temp \notin book.open
                                             THEN TOKEN_ACCOUNT_RENT ELSE 0)
      BY <1>1, <1>2, <3>1, OpenedEffect
    <3>3. \A a \in SolAccounts : book.sol[a] \in Nat
      BY <1>1 DEF Books
    <3> QED
      BY <1>2, <3>2, <3>3
  <2>2. CASE ~r.temp
    <3>1. book' = book /\ book.sol[Payer] \in Nat
      BY <1>1, <1>2, <2>2 DEF Begin, Books
    <3> QED
      BY <1>1, <3>1
  <2> QED
    BY <2>1, <2>2
<1>5. TypeOK'
  BY <1>1, <1>3, <1>4 DEF TypeOK, Phases
<1>6. EmptyUnlessOpen(book')
  BY <1>1, <1>4 DEF EmptyUnlessOpen
<1>7. RunningInv'
  BY <1>1, <1>3, <1>6 DEF RunningInv, EmptyUnlessOpen
<1>8. BegunInv'
  <2>1. Purse(book)' = Purse(committed)'
    <3> DEFINE W(b, a) == Worth(b, a)
               new == Temp \in book'.open \ book.open
    <3>1. W(book', r.wsol) = W(book, r.wsol)
      BY <1>3, <1>4 DEF Worth
    <3>2. W(book', Temp) = W(book, Temp) + (IF new THEN TOKEN_ACCOUNT_RENT ELSE 0)
      <4>1. book.tok[Temp] \in Nat /\ book.excess[Temp] \in Nat /\ TOKEN_ACCOUNT_RENT \in Nat
        BY <1>1, <1>2, LedgerAssumption DEF Books
      <4>2. Temp \notin book.open => book.tok[Temp] = 0 /\ book.excess[Temp] = 0
        BY <1>1, <1>2 DEF EmptyUnlessOpen
      <4>3. /\ book'.tok[Temp] = book.tok[Temp] /\ book'.excess[Temp] = book.excess[Temp]
            /\ Temp \in book.open => Temp \in book'.open
        BY <1>4
      <4> QED
        BY <4>1, <4>2, <4>3 DEF Worth
    <3>3. /\ W(book, Temp) \in Int /\ W(book, r.wsol) \in Int /\ book.sol[Payer] \in Int
          /\ TOKEN_ACCOUNT_RENT \in Int
      BY <1>1, <1>2, LedgerAssumption DEF Books, Worth
    <3>4. /\ Purse(book)' = book'.sol[Payer] + W(book', Temp)
                               + (IF r.wsol = Temp THEN 0 ELSE W(book', r.wsol))
          /\ Purse(committed)' = book.sol[Payer] + W(book, Temp)
                                    + (IF r.wsol = Temp THEN 0 ELSE W(book, r.wsol))
      BY <1>1, <1>3 DEF Purse, Worth
    <3>5. book'.sol[Payer] = book.sol[Payer] - (IF new THEN TOKEN_ACCOUNT_RENT ELSE 0)
      BY <1>4
    <3> HIDE DEF W, new
    <3> QED
      BY <3>1, <3>2, <3>3, <3>4, <3>5
  <2> QED
    BY <1>1, <1>2, <1>3, <1>4, <2>1 DEF BegunInv
<1>9. ConvertedInv' /\ PaidInv'
  BY <1>3 DEF ConvertedInv, PaidInv
<1> QED
  BY <1>5, <1>7, <1>8, <1>9 DEF WrapInv

(* What the handler knows of its request while it runs.                    *)
LEMMA Running ==
  ASSUME WrapInv, pc # "idle"
  PROVE  /\ req \in Requests /\ IsRequest(req) /\ RatesAllowed(req)
         /\ req.version \in 1..3 /\ req.amount \in Nat
         /\ {req.wrap, req.onFrom, req.temp, req.tob} \subseteq BOOLEAN
         /\ req.wsol \in TokenAccounts /\ Temp \in TokenAccounts
         /\ Payer \in SolAccounts /\ Payer \notin TokenAccounts
         /\ req.wsol \notin SolAccounts /\ Temp \notin SolAccounts
         /\ req.wsol \in committed.open
         /\ book \in Books /\ committed \in Books
         /\ \A a \in TokenAccounts : /\ book.tok[a] \in Nat /\ book.excess[a] \in Nat
                                    /\ committed.tok[a] \in Nat /\ committed.excess[a] \in Nat
         /\ \A a \in SolAccounts : book.sol[a] \in Nat /\ committed.sol[a] \in Nat
         /\ TOKEN_ACCOUNT_RENT \in Nat
<1>1. /\ req \in Requests /\ RatesAllowed(req) /\ req.wsol \in committed.open
      /\ book \in Books /\ committed \in Books
  BY DEF WrapInv, TypeOK, RunningInv
<1>2. /\ \A a \in TokenAccounts : /\ book.tok[a] \in Nat /\ book.excess[a] \in Nat
                                 /\ committed.tok[a] \in Nat /\ committed.excess[a] \in Nat
      /\ \A a \in SolAccounts : book.sol[a] \in Nat /\ committed.sol[a] \in Nat
  BY <1>1 DEF Books
<1>3. /\ req.version \in 1..3 /\ req.amount \in Nat
      /\ {req.wrap, req.onFrom, req.temp, req.tob} \subseteq BOOLEAN
  BY <1>1, RequestAccounts DEF IsRequest
<1> QED
  BY <1>1, <1>2, <1>3, RequestAccounts, LedgerAssumption

(* The purse of a book of the running instruction, in its parts.           *)
LEMMA PurseParts ==
  ASSUME WrapInv, pc # "idle", NEW b \in Books
  PROVE  /\ Purse(b) = b.sol[Payer] + Worth(b, Temp)
                         + (IF req.wsol = Temp THEN 0 ELSE Worth(b, req.wsol))
         /\ \A a \in TokenAccounts : b.tok[a] \in Nat /\ b.excess[a] \in Nat
         /\ \A a \in TokenAccounts : Worth(b, a) \in Nat
         /\ \A a \in SolAccounts : b.sol[a] \in Nat
  BY Running DEF Purse, Worth, Books

LEMMA WrapStep ==
  ASSUME WrapInv, Wrap
  PROVE  WrapInv'
<1> DEFINE w == req.wsol
           x == req.amount
           m == PaySol(book, Payer, w, x)
<1>1. /\ pc = "wrap" /\ pc' = "fees" /\ UNCHANGED <<committed, req, commits>>
      /\ book' = Synced(m, w) /\ SolPayable(book, Payer, w, x)
  BY DEF Wrap, Wrapped
<1>2. /\ w \in TokenAccounts /\ w \notin SolAccounts /\ x \in Nat
      /\ Payer \in SolAccounts /\ Payer # w /\ book \in Books /\ Temp \in TokenAccounts
  BY <1>1, Running
<1>3. book.sol[Payer] >= x
  BY <1>1, <1>2, Running DEF SolPayable
<1>4. /\ m \in Books /\ m.tok = book.tok /\ m.open = book.open
      /\ \A a \in SolAccounts : m.sol[a] = book.sol[a] - At(a, Payer, x) + At(a, w, x)
      /\ \A a \in TokenAccounts : m.excess[a] = book.excess[a] + At(a, w, x)
  BY <1>2, <1>3, PaySolEffect
<1> HIDE DEF m
<1>5. /\ book' \in Books /\ book'.sol = m.sol /\ book'.open = m.open
      /\ \A a \in TokenAccounts :
           /\ book'.tok[a] = m.tok[a] + (IF a = w THEN m.excess[a] ELSE 0)
           /\ book'.excess[a] = IF a = w THEN 0 ELSE m.excess[a]
  <2>1. m \in Books /\ w \in TokenAccounts /\ book' = Synced(m, w)
    BY <1>1, <1>2, <1>4
  <2> HIDE DEF w
  <2> QED
    BY <2>1, SyncedEffect
<1>6. \A a \in TokenAccounts : book.tok[a] \in Nat /\ book.excess[a] \in Nat
  BY <1>1, Running
<1>7. /\ book' \in Books /\ book'.open = book.open
      /\ \A a \in SolAccounts : book'.sol[a] = book.sol[a] - (IF a = Payer THEN x ELSE 0)
      /\ \A a \in TokenAccounts : a # w =>
           book'.tok[a] = book.tok[a] /\ book'.excess[a] = book.excess[a]
      /\ book'.tok[w] = book.tok[w] + book.excess[w] + x /\ book'.excess[w] = 0
  BY <1>1, <1>2, <1>4, <1>5, <1>6, Running DEF At
<1>8. /\ req.wrap /\ book.tok = committed.tok /\ book.excess = committed.excess
      /\ \A a \in SolAccounts \ {Payer} : book.sol[a] = committed.sol[a]
      /\ committed.open \subseteq book.open /\ Purse(book) = Purse(committed)
      /\ w \in book.open
  BY <1>1, Running DEF WrapInv, BegunInv
<1>9. Purse(book') = Purse(book)
  <2>1. Worth(book', w) = Worth(book, w) + x
    BY <1>2, <1>6, <1>7, <1>8, Running, <1>1 DEF Worth
  <2>2. w # Temp => Worth(book', Temp) = Worth(book, Temp)
    BY <1>2, <1>7 DEF Worth
  <2>3. book'.sol[Payer] = book.sol[Payer] - x
    BY <1>2, <1>7
  <2>4. /\ Worth(book, w) \in Int /\ Worth(book, Temp) \in Int /\ book.sol[Payer] \in Int
    BY <1>1, <1>2, PurseParts
  <2>5. /\ Purse(book) = book.sol[Payer] + Worth(book, Temp)
                           + (IF w = Temp THEN 0 ELSE Worth(book, w))
        /\ Purse(book') = book'.sol[Payer] + Worth(book', Temp)
                           + (IF w = Temp THEN 0 ELSE Worth(book', w))
    BY <1>1, <1>2, <1>7, PurseParts
  <2> HIDE DEF w, x
  <2>6. CASE w = Temp
    BY <1>2, <2>1, <2>3, <2>4, <2>5, <2>6
  <2>7. CASE w # Temp
    BY <1>2, <2>1, <2>2, <2>3, <2>4, <2>5, <2>7
  <2> QED
    BY <2>6, <2>7
<1>10. AmountMoved(book', 0)
  BY <1>2, <1>6, <1>7, <1>8 DEF AmountMoved
<1>11. TypeOK'
  BY <1>1, <1>7 DEF WrapInv, TypeOK, Phases
<1>12. RunningInv'
  <2>1. EmptyUnlessOpen(book')
    BY <1>2, <1>7, <1>8 DEF WrapInv, RunningInv, EmptyUnlessOpen
  <2> QED
    BY <1>1, <2>1 DEF WrapInv, RunningInv, EmptyUnlessOpen
<1>13. ConvertedInv'
  <2>1. /\ \A a \in TokenAccounts \ {Temp, req.wsol} :
             book'.tok[a] = committed.tok[a] /\ book'.excess[a] = committed.excess[a]
        /\ \A a \in SolAccounts \ {Payer} : book'.sol[a] = committed.sol[a]
    BY <1>1, <1>2, <1>7, <1>8, Running
  <2>2. Purse(book)' = Purse(committed)'
    BY <1>1, <1>8, <1>9 DEF Purse, Worth
  <2>3. AmountMoved(book, 0)'
    BY <1>1, <1>10 DEF AmountMoved
  <2> QED
    BY <1>1, <2>1, <2>2, <2>3 DEF ConvertedInv
<1>14. BegunInv' /\ PaidInv'
  BY <1>1 DEF BegunInv, PaidInv
<1> QED
  BY <1>11, <1>12, <1>13, <1>14 DEF WrapInv

LEMMA UnwrapStep ==
  ASSUME WrapInv, Unwrap
  PROVE  WrapInv'
<1> DEFINE w == req.wsol
           x == req.amount
           m == PayTokens(book, w, Temp, x)
<1>1. /\ pc = "unwrap" /\ pc' = "fees" /\ UNCHANGED <<committed, req, commits>>
      /\ book' = Closed(m, Temp, Payer) /\ TokenPayable(book, w, Temp, x)
      /\ Temp \in book.open
  BY DEF Unwrap, Closable
<1>2. /\ w \in TokenAccounts /\ w \notin SolAccounts /\ x \in Nat
      /\ Payer \in SolAccounts /\ Payer # w /\ book \in Books /\ Temp \in TokenAccounts
      /\ TOKEN_ACCOUNT_RENT \in Nat
  BY <1>1, Running
<1>3. x > 0 => book.tok[w] >= x
  BY <1>1 DEF TokenPayable
<1>4. /\ m \in Books /\ m.sol = book.sol /\ m.open = book.open /\ m.excess = book.excess
      /\ \A a \in TokenAccounts : m.tok[a] = book.tok[a] - At(a, w, x) + At(a, Temp, x)
  BY <1>2, <1>3, PayTokensEffect
<1> HIDE DEF m
<1>5. /\ book' \in Books /\ book'.open = m.open \ {Temp}
      /\ \A a \in TokenAccounts :
           /\ book'.tok[a] = IF a = Temp THEN 0 ELSE m.tok[a]
           /\ book'.excess[a] = IF a = Temp THEN 0 ELSE m.excess[a]
      /\ \A a \in SolAccounts :
           book'.sol[a] = m.sol[a] + At(a, Payer, m.tok[Temp] + m.excess[Temp]
                                                    + TOKEN_ACCOUNT_RENT)
  <2>1. m \in Books /\ Temp \in TokenAccounts /\ Payer \in SolAccounts
    BY <1>2, <1>4
  <2>2. book' = Closed(m, Temp, Payer)
    BY <1>1
  <2> DEFINE b == book'
  <2>3. b = Closed(m, Temp, Payer)
    BY <2>2
  <2> HIDE DEF b
  <2>4. /\ b \in Books /\ b.open = m.open \ {Temp}
        /\ \A a \in TokenAccounts :
             /\ b.tok[a] = IF a = Temp THEN 0 ELSE m.tok[a]
             /\ b.excess[a] = IF a = Temp THEN 0 ELSE m.excess[a]
        /\ \A a \in SolAccounts :
             b.sol[a] = m.sol[a] + At(a, Payer, m.tok[Temp] + m.excess[Temp]
                                                  + TOKEN_ACCOUNT_RENT)
    BY <2>1, <2>3, ClosedEffect
  <2> QED
    BY <2>4 DEF b
<1>6. /\ \A a \in TokenAccounts : book.tok[a] \in Nat /\ book.excess[a] \in Nat
      /\ \A a \in SolAccounts : book.sol[a] \in Nat
  BY <1>1, Running
<1> DEFINE y == book.tok[Temp] + (IF w = Temp THEN 0 ELSE x) + book.excess[Temp]
                  + TOKEN_ACCOUNT_RENT
<1>7. /\ m.tok[Temp] + m.excess[Temp] + TOKEN_ACCOUNT_RENT = y /\ y \in Nat
  BY <1>2, <1>4, <1>6 DEF At
<1>8. /\ book' \in Books /\ book'.open = book.open \ {Temp}
      /\ \A a \in SolAccounts \ {Payer} : book'.sol[a] = book.sol[a]
      /\ book'.sol[Payer] = book.sol[Payer] + y
      /\ \A a \in TokenAccounts : a # w /\ a # Temp =>
           book'.tok[a] = book.tok[a] /\ book'.excess[a] = book.excess[a]
      /\ book'.tok[Temp] = 0 /\ book'.excess[Temp] = 0
      /\ w # Temp => book'.tok[w] = book.tok[w] - x /\ book'.excess[w] = book.excess[w]
  <2> HIDE DEF y, w, x
  <2>1. \A a \in SolAccounts : book'.sol[a] = book.sol[a] + At(a, Payer, y)
    BY <1>4, <1>5, <1>7
  <2>2. \A a \in SolAccounts \ {Payer} : book'.sol[a] = book.sol[a]
    BY <1>6, <2>1 DEF At
  <2>3. book'.sol[Payer] = book.sol[Payer] + y
    BY <1>2, <2>1 DEF At
  <2> QED
    BY <1>2, <1>4, <1>5, <1>6, <2>2, <2>3 DEF At
<1>9. /\ ~req.wrap /\ book.tok = committed.tok /\ book.excess = committed.excess
      /\ \A a \in SolAccounts \ {Payer} : book.sol[a] = committed.sol[a]
      /\ committed.open \subseteq book.open /\ Purse(book) = Purse(committed)
      /\ w \in book.open
  BY <1>1, Running DEF WrapInv, BegunInv
<1>10. Purse(book') = Purse(book)
  <2>1. w # Temp => Worth(book', w) = Worth(book, w) - x
    BY <1>2, <1>6, <1>8, <1>9 DEF Worth
  <2>2. Worth(book', Temp) = 0
    BY <1>8 DEF Worth
  <2>3. Worth(book, Temp) = y - (IF w = Temp THEN 0 ELSE x)
    BY <1>1, <1>2, <1>6 DEF Worth
  <2>4. /\ Worth(book, w) \in Int /\ Worth(book, Temp) \in Int /\ book.sol[Payer] \in Int
    BY <1>1, <1>2, PurseParts
  <2>5. /\ Purse(book) = book.sol[Payer] + Worth(book, Temp)
                           + (IF w = Temp THEN 0 ELSE Worth(book, w))
        /\ Purse(book') = book'.sol[Payer] + Worth(book', Temp)
                           + (IF w = Temp THEN 0 ELSE Worth(book', w))
    BY <1>1, <1>2, <1>8, PurseParts
  <2>6. book'.sol[Payer] = book.sol[Payer] + y
    BY <1>8
  <2> HIDE DEF w, x, y
  <2>7. CASE w = Temp
    BY <1>7, <2>2, <2>3, <2>4, <2>5, <2>6, <2>7
  <2>8. CASE w # Temp
    BY <1>2, <1>7, <2>1, <2>2, <2>3, <2>4, <2>5, <2>6, <2>8
  <2> QED
    BY <2>7, <2>8
<1>11. AmountMoved(book', 0)
  BY <1>2, <1>6, <1>8, <1>9 DEF AmountMoved
<1>12. TypeOK'
  BY <1>1, <1>8 DEF WrapInv, TypeOK, Phases
<1>13. RunningInv'
  <2>1. EmptyUnlessOpen(book')
    BY <1>2, <1>8, <1>9 DEF WrapInv, RunningInv, EmptyUnlessOpen
  <2> QED
    BY <1>1, <2>1 DEF WrapInv, RunningInv, EmptyUnlessOpen
<1>14. ConvertedInv'
  <2>1. /\ \A a \in TokenAccounts \ {Temp, req.wsol} :
             book'.tok[a] = committed.tok[a] /\ book'.excess[a] = committed.excess[a]
        /\ \A a \in SolAccounts \ {Payer} : book'.sol[a] = committed.sol[a]
    BY <1>1, <1>2, <1>8, <1>9
  <2>2. Purse(book)' = Purse(committed)'
    BY <1>1, <1>9, <1>10 DEF Purse, Worth
  <2>3. AmountMoved(book, 0)'
    BY <1>1, <1>11 DEF AmountMoved
  <2> QED
    BY <1>1, <2>1, <2>2, <2>3 DEF ConvertedInv
<1>15. BegunInv' /\ PaidInv'
  BY <1>1 DEF BegunInv, PaidInv
<1> QED
  BY <1>12, <1>13, <1>14, <1>15 DEF WrapInv

-----------------------------------------------------------------------------
(* The fees.                                                               *)

(* x goes from one account to the other, as SOL or as tokens, and only the *)
(* receiver's part of what it holds may change its form.                   *)
Pays(b, n, from, to, x) ==
  /\ n \in Books /\ n.open = b.open
  /\ x > 0 => from \in SolAccounts \cup b.open /\ to \in SolAccounts \cup b.open
  /\ \A a \in SolAccounts : n.sol[a] = b.sol[a] - At(a, from, x) + At(a, to, x)
  /\ \A a \in TokenAccounts :
       n.tok[a] + n.excess[a] = (b.tok[a] + b.excess[a]) - At(a, from, x) + At(a, to, x)
  /\ \A a \in TokenAccounts : a # to => n.excess[a] = b.excess[a]

LEMMA SolPays ==
  ASSUME NEW b \in Books, NEW from \in SolAccounts, NEW to, NEW x \in Nat,
         SolPayable(b, from, to, x)
  PROVE  /\ Pays(b, PaySol(b, from, to, x), from, to, x)
         /\ PaySol(b, from, to, x).tok = b.tok
<1> DEFINE n == PaySol(b, from, to, x)
<1>1. /\ b.sol[from] >= x /\ from \notin TokenAccounts
      /\ \A a \in TokenAccounts : b.tok[a] \in Nat /\ b.excess[a] \in Nat
      /\ x > 0 => to \in SolAccounts \cup b.open
  BY LedgerAssumption DEF SolPayable, Books
<1>2. /\ n \in Books /\ n.tok = b.tok /\ n.open = b.open
      /\ \A a \in SolAccounts : n.sol[a] = b.sol[a] - At(a, from, x) + At(a, to, x)
      /\ \A a \in TokenAccounts : n.excess[a] = b.excess[a] + At(a, to, x)
  BY <1>1, PaySolEffect
<1> HIDE DEF n
<1>3. \A a \in TokenAccounts : At(a, from, x) = 0 /\ At(a, to, x) \in Nat
  BY <1>1 DEF At
<1>4. \A a \in TokenAccounts :
        /\ n.tok[a] + n.excess[a] = (b.tok[a] + b.excess[a]) - At(a, from, x) + At(a, to, x)
        /\ a # to => n.excess[a] = b.excess[a]
  <2> SUFFICES ASSUME NEW a \in TokenAccounts
               PROVE  /\ n.tok[a] + n.excess[a]
                           = (b.tok[a] + b.excess[a]) - At(a, from, x) + At(a, to, x)
                      /\ a # to => n.excess[a] = b.excess[a]
    OBVIOUS
  <2>1. /\ b.tok[a] \in Nat /\ b.excess[a] \in Nat /\ At(a, from, x) = 0
        /\ At(a, to, x) \in Nat /\ n.tok[a] = b.tok[a]
        /\ n.excess[a] = b.excess[a] + At(a, to, x)
    BY <1>1, <1>2, <1>3
  <2>2. a # to => At(a, to, x) = 0
    BY DEF At
  <2> QED
    BY <2>1, <2>2
<1>5. Pays(b, n, from, to, x)
  BY <1>1, <1>2, <1>4 DEF Pays
<1> QED
  BY <1>2, <1>5 DEF n

LEMMA TokensPay ==
  ASSUME NEW b \in Books, NEW from, NEW to, NEW x \in Nat,
         TokenPayable(b, from, to, x)
  PROVE  /\ Pays(b, PayTokens(b, from, to, x), from, to, x)
         /\ PayTokens(b, from, to, x).excess = b.excess
<1> DEFINE n == PayTokens(b, from, to, x)
<1>1. /\ \A a \in TokenAccounts : b.tok[a] \in Nat /\ b.excess[a] \in Nat
      /\ \A a \in SolAccounts : b.sol[a] \in Nat
      /\ \A a \in TokenAccounts : a \notin SolAccounts
      /\ x > 0 => /\ from \in TokenAccounts /\ to \in TokenAccounts
                  /\ from \in b.open /\ to \in b.open /\ b.tok[from] >= x
  BY LedgerAssumption DEF TokenPayable, Books
<1>2. /\ n \in Books /\ n.sol = b.sol /\ n.open = b.open /\ n.excess = b.excess
      /\ \A a \in TokenAccounts : n.tok[a] = b.tok[a] - At(a, from, x) + At(a, to, x)
  BY <1>1, PayTokensEffect
<1> HIDE DEF n
<1>3. \A a : At(a, from, x) \in Nat /\ At(a, to, x) \in Nat
  BY DEF At
<1>4. \A a \in SolAccounts : At(a, from, x) = 0 /\ At(a, to, x) = 0
  <2>1. CASE x = 0
    BY <2>1 DEF At
  <2>2. CASE x > 0
    BY <1>1, <2>2 DEF At
  <2> QED
    BY <2>1, <2>2
<1>5. Pays(b, n, from, to, x)
  BY <1>1, <1>2, <1>3, <1>4 DEF Pays
<1> QED
  BY <1>2, <1>5 DEF n

(* The platform's part of version 2, which also makes tokens of the SOL    *)
(* that lay in the account.                                                *)
LEMMA PlatformPays ==
  ASSUME WrapInv, pc = "fees", PlatformPayable(book),
         NEW x \in Nat, x = PlatformPart(req)
  PROVE  LET n == PlatformPaid(book)
             from == IF ChargesSol(req) THEN Payer ELSE req.wsol
         IN  /\ Pays(book, n, from, req.platform, x)
             /\ x > 0 /\ req.platform # from =>
                  /\ req.platform \in TokenAccounts
                  /\ n.tok[req.platform] >= book.tok[req.platform] + x
                  /\ n.excess[req.platform] <= book.excess[req.platform]
<1> DEFINE t == req.platform
<1>1. /\ book \in Books /\ Payer \in SolAccounts /\ Payer \notin TokenAccounts
      /\ \A a \in TokenAccounts : book.tok[a] \in Nat /\ book.excess[a] \in Nat
  BY Running
<1>2. CASE x = 0
  <2>1. PlatformPaid(book) = book
    BY <1>2 DEF PlatformPaid
  <2>2. \A a, to : At(a, to, x) = 0
    BY <1>2 DEF At
  <2>3. \A from, to : Pays(book, book, from, to, x)
    BY <1>1, <1>2, <2>2, Running DEF Pays
  <2> QED
    BY <1>2, <2>1, <2>3
<1>3. CASE x > 0 /\ ChargesSol(req)
  <2> DEFINE m == PaySol(book, Payer, t, x)
  <2>1. /\ t \in TokenAccounts /\ SolPayable(book, Payer, t, x)
        /\ PlatformPaid(book) = Synced(m, t)
    BY <1>3 DEF PlatformPayable, PlatformPaid, WsolAccounts
  <2>2. Pays(book, m, Payer, t, x) /\ m.tok = book.tok
    BY <1>1, <2>1, SolPays
  <2> HIDE DEF m
  <2> DEFINE n == Synced(m, t)
  <2>3. /\ n \in Books /\ n.sol = m.sol /\ n.open = m.open
        /\ \A a \in TokenAccounts :
             /\ n.tok[a] = m.tok[a] + (IF a = t THEN m.excess[a] ELSE 0)
             /\ n.excess[a] = IF a = t THEN 0 ELSE m.excess[a]
    BY <2>1, <2>2, SyncedEffect DEF Pays
  <2> HIDE DEF n
  <2>4. \A a \in TokenAccounts : m.tok[a] \in Nat /\ m.excess[a] \in Nat
    BY <2>2 DEF Pays, Books
  <2>5. \A a \in TokenAccounts : n.tok[a] + n.excess[a] = m.tok[a] + m.excess[a]
    <3> SUFFICES ASSUME NEW a \in TokenAccounts
                 PROVE  n.tok[a] + n.excess[a] = m.tok[a] + m.excess[a]
      OBVIOUS
    <3>1. m.tok[a] \in Nat /\ m.excess[a] \in Nat
      BY <2>4
    <3>2. CASE a = t
      BY <2>3, <3>1, <3>2
    <3>3. CASE a # t
      BY <2>3, <3>1, <3>3
    <3> QED
      BY <3>2, <3>3
  <2>6. Pays(book, n, Payer, t, x)
    BY <2>2, <2>3, <2>5 DEF Pays
  <2>7. n.tok[t] >= book.tok[t] + x /\ n.excess[t] <= book.excess[t]
    <3>1. m.tok[t] + m.excess[t] = (book.tok[t] + book.excess[t]) - At(t, Payer, x) + At(t, t, x)
      BY <2>1, <2>2 DEF Pays
    <3>2. At(t, Payer, x) = 0 /\ At(t, t, x) = x
      BY <1>1, <2>1 DEF At
    <3>3. n.tok[t] = m.tok[t] + m.excess[t] /\ n.excess[t] = 0
      BY <2>1, <2>3
    <3>4. book.tok[t] \in Nat /\ book.excess[t] \in Nat
      BY <1>1, <2>1
    <3> HIDE DEF t
    <3> QED
      BY <3>1, <3>2, <3>3, <3>4
  <2> QED
    BY <1>3, <2>1, <2>6, <2>7 DEF n
<1>4. CASE x > 0 /\ ~ChargesSol(req)
  <2> DEFINE w == req.wsol
             n == PayTokens(book, w, t, x)
  <2>1. /\ t \in TokenAccounts /\ TokenPayable(book, w, t, x)
        /\ PlatformPaid(book) = n
    BY <1>4 DEF PlatformPayable, PlatformPaid
  <2>2. Pays(book, n, w, t, x) /\ n.excess = book.excess
    BY <1>1, <2>1, TokensPay
  <2> HIDE DEF n
  <2>3. t # w => n.tok[t] >= book.tok[t] + x
    <3>1. n.tok[t] + n.excess[t] = (book.tok[t] + book.excess[t]) - At(t, w, x) + At(t, t, x)
      BY <2>1, <2>2 DEF Pays
    <3>2. n.tok[t] \in Nat /\ book.tok[t] \in Nat /\ book.excess[t] \in Nat
      BY <1>1, <2>1, <2>2 DEF Pays, Books
    <3>3. t # w => At(t, w, x) = 0 /\ At(t, t, x) = x
      BY DEF At
    <3> HIDE DEF t, w
    <3> QED
      BY <2>2, <3>1, <3>2, <3>3
  <2> QED
    BY <1>1, <1>4, <2>1, <2>2, <2>3
<1> QED
  BY <1>2, <1>3, <1>4

(* The commission of versions 1 and 2.                                     *)
LEMMA CommissionPays ==
  ASSUME WrapInv, pc = "fees", NEW b \in Books, CommissionPayable(b),
         NEW x \in Nat, x = CommissionPart(req)
  PROVE  LET n == CommissionPaid(b)
             from == IF ChargesSol(req) THEN Payer ELSE req.wsol
         IN  /\ Pays(b, n, from, req.commission, x)
             /\ \A t \in TokenAccounts : t # from => n.tok[t] >= b.tok[t]
<1> DEFINE n == CommissionPaid(b)
<1>1. \A t \in TokenAccounts : b.tok[t] \in Nat /\ b.excess[t] \in Nat
  BY DEF Books
<1>2. CASE ChargesSol(req)
  <2>1. Pays(b, n, Payer, req.commission, x) /\ n.tok = b.tok
    BY <1>2, Running, SolPays DEF CommissionPayable, CommissionPaid
  <2> QED
    BY <1>1, <1>2, <2>1
<1>3. CASE ~ChargesSol(req)
  <2> DEFINE w == req.wsol
             t == req.commission
  <2>1. Pays(b, n, w, t, x) /\ n.excess = b.excess
    BY <1>3, TokensPay DEF CommissionPayable, CommissionPaid
  <2> HIDE DEF n, w, t
  <2>2. ASSUME NEW a \in TokenAccounts, a # w
        PROVE  n.tok[a] >= b.tok[a]
    <3>1. n.tok[a] + n.excess[a] = (b.tok[a] + b.excess[a]) - At(a, w, x) + At(a, t, x)
      BY <2>1 DEF Pays
    <3>2. At(a, w, x) = 0 /\ At(a, t, x) \in Nat
      BY <2>2 DEF At
    <3>3. n.tok[a] \in Nat /\ n.excess[a] = b.excess[a]
      BY <2>1 DEF Pays, Books
    <3> QED
      BY <1>1, <3>1, <3>2, <3>3
  <2> QED
    BY <1>3, <2>1, <2>2 DEF n, w, t
<1> QED
  BY <1>2, <1>3

(* What a fee of version 3 comes to.                                       *)
FeeAmount(b, from, to, x) ==
  IF x > 0 /\ ChargesSol(req) THEN Lifted(b, from, to, x) ELSE x

LEMMA FeeLifts ==
  ASSUME NEW b \in Books, NEW from, NEW to, NEW x \in Nat, FeePayable(b, from, to, x)
  PROVE  /\ FeeAmount(b, from, to, x) \in Nat
         /\ FeeAmount(b, from, to, x) > 0 => x > 0
         /\ \/ FeeAmount(b, from, to, x) = x
            \/ /\ ChargesSol(req) /\ from # SaAuthority /\ to \in SolAccounts
               /\ x > 0 /\ FeeAmount(b, from, to, x) > x
               /\ b.sol[to] + FeeAmount(b, from, to, x) = MIN_SOL_ACCOUNT_RENT
<1>1. MIN_SOL_ACCOUNT_RENT \in Nat
  BY WrapRatesAssumption
<1>2. x > 0 /\ ChargesSol(req) => to \in SolAccounts /\ b.sol[to] \in Nat
  BY DEF FeePayable, Books
<1> QED
  BY <1>1, <1>2 DEF FeeAmount, Lifted

LEMMA FeePays ==
  ASSUME WrapInv, pc = "fees", NEW b \in Books, NEW from, NEW to, NEW x \in Nat,
         FeePayable(b, from, to, x), ChargesSol(req) => from \in SolAccounts
  PROVE  Pays(b, FeePaid(b, from, to, x), from, to, FeeAmount(b, from, to, x))
<1> DEFINE y == FeeAmount(b, from, to, x)
<1>1. y \in Nat
  BY FeeLifts
<1>2. CASE x = 0
  <2>1. FeePaid(b, from, to, x) = b /\ y = 0
    BY <1>2 DEF FeePaid, FeeAmount
  <2>2. \A a, t : At(a, t, 0) = 0
    BY DEF At
  <2>3. Pays(b, b, from, to, 0)
    <3>1. /\ \A a \in TokenAccounts : b.tok[a] \in Nat /\ b.excess[a] \in Nat
          /\ \A a \in SolAccounts : b.sol[a] \in Nat
      BY DEF Books
    <3> QED
      BY <2>2, <3>1 DEF Pays
  <2> QED
    BY <2>1, <2>3
<1>3. CASE x > 0 /\ ChargesSol(req)
  <2>1. /\ y = Lifted(b, from, to, x) /\ from \in SolAccounts
        /\ to \in SolAccounts /\ b.sol[from] >= y
        /\ FeePaid(b, from, to, x) = PaySol(b, from, to, y)
    BY <1>3 DEF FeeAmount, FeePaid, FeePayable
  <2> HIDE DEF y
  <2>2. SolPayable(b, from, to, y)
    BY <2>1 DEF SolPayable
  <2> QED
    BY <1>1, <2>1, <2>2, SolPays DEF y
<1>4. CASE x > 0 /\ ~ChargesSol(req)
  <2>1. y = x /\ FeePaid(b, from, to, x) = PayTokens(b, from, to, x)
        /\ TokenPayable(b, from, to, x)
    BY <1>4 DEF FeeAmount, FeePaid, FeePayable
  <2> QED
    BY <2>1, TokensPay
<1> QED
  BY <1>2, <1>3, <1>4

(* Where the fees come from in the end.                                    *)
Charged == IF ChargesSol(req) THEN Payer ELSE req.wsol

(* x is the part that is due, or what lifts a poor wallet, which may have  *)
(* got y before, to the minimum.                                           *)
Due(x, part, to, y) ==
  \/ x = part
  \/ /\ req.version = 3 /\ ~req.tob /\ ChargesSol(req) /\ to \in SolAccounts
     /\ x > part /\ (book.sol[to] + y) + x = MIN_SOL_ACCOUNT_RENT

(* All four ways of paying the fees come to this: c goes to the commission *)
(* account and p to the platform's, and nobody else notices.               *)
FeesTaken(c, p) ==
  /\ pc = "fees" /\ pc' = "done" /\ UNCHANGED <<committed, req, commits>>
  /\ book' \in Books /\ book'.open = book.open
  /\ c > 0 => req.commission \in SolAccounts \cup book.open
  /\ p > 0 => req.platform \in SolAccounts \cup book.open
  /\ c + p > 0 => Charged \in SolAccounts \cup book.open
  /\ \A a \in SolAccounts :
       book'.sol[a] = book.sol[a] - At(a, Charged, c + p)
                        + At(a, req.commission, c) + At(a, req.platform, p)
  /\ \A a \in TokenAccounts :
       book'.tok[a] + book'.excess[a]
         = (book.tok[a] + book.excess[a]) - At(a, Charged, c + p)
             + At(a, req.commission, c) + At(a, req.platform, p)
  /\ req.wsol \notin {req.commission, req.platform} =>
       book'.excess[req.wsol] = book.excess[req.wsol]
  /\ Due(c, CommissionPart(req), req.commission, 0)
  /\ req.platform # Payer =>
       Due(p, PlatformPart(req), req.platform, At(req.platform, req.commission, c))
  /\ req.version = 2 /\ p > 0 /\ req.platform # Charged =>
       /\ req.platform \in TokenAccounts
       /\ book'.tok[req.platform] >= book.tok[req.platform] + p
       /\ req.platform # req.commission =>
            book'.excess[req.platform] <= book.excess[req.platform]

(* One fee after the other, out of the same account.                       *)
PaysBoth(b, n, from, t, x, u, y) ==
  /\ n \in Books /\ n.open = b.open
  /\ x > 0 => from \in SolAccounts \cup b.open /\ t \in SolAccounts \cup b.open
  /\ y > 0 => from \in SolAccounts \cup b.open /\ u \in SolAccounts \cup b.open
  /\ \A a \in SolAccounts :
       n.sol[a] = b.sol[a] - At(a, from, x + y) + At(a, t, x) + At(a, u, y)
  /\ \A a \in TokenAccounts :
       n.tok[a] + n.excess[a]
         = (b.tok[a] + b.excess[a]) - At(a, from, x + y) + At(a, t, x) + At(a, u, y)
  /\ \A a \in TokenAccounts : a \notin {t, u} => n.excess[a] = b.excess[a]

LEMMA PaysTwice ==
  ASSUME NEW b \in Books, NEW m, NEW n, NEW from, NEW t, NEW u, NEW x \in Nat, NEW y \in Nat,
         Pays(b, m, from, t, x), Pays(m, n, from, u, y)
  PROVE  PaysBoth(b, n, from, t, x, u, y)
<1>1. /\ m \in Books /\ n \in Books /\ m.open = b.open /\ n.open = m.open
      /\ x > 0 => from \in SolAccounts \cup b.open /\ t \in SolAccounts \cup b.open
      /\ y > 0 => from \in SolAccounts \cup m.open /\ u \in SolAccounts \cup m.open
  BY DEF Pays
<1>2. \A a, d : /\ At(a, d, x) \in Nat /\ At(a, d, y) \in Nat
               /\ At(a, d, x + y) = At(a, d, x) + At(a, d, y)
  BY DEF At
<1>3. ASSUME NEW a \in SolAccounts
      PROVE  n.sol[a] = b.sol[a] - At(a, from, x + y) + At(a, t, x) + At(a, u, y)
  <2>1. /\ m.sol[a] = b.sol[a] - At(a, from, x) + At(a, t, x)
        /\ n.sol[a] = m.sol[a] - At(a, from, y) + At(a, u, y)
        /\ b.sol[a] \in Nat
    BY DEF Pays, Books
  <2> QED
    BY <1>2, <2>1
<1>4. ASSUME NEW a \in TokenAccounts
      PROVE  n.tok[a] + n.excess[a]
               = (b.tok[a] + b.excess[a]) - At(a, from, x + y) + At(a, t, x) + At(a, u, y)
  <2> DEFINE B == b.tok[a] + b.excess[a]
             M == m.tok[a] + m.excess[a]
             N == n.tok[a] + n.excess[a]
  <2>1. M = B - At(a, from, x) + At(a, t, x) /\ N = M - At(a, from, y) + At(a, u, y)
    BY DEF Pays
  <2>2. B \in Nat
    BY DEF Books
  <2> HIDE DEF B, M, N
  <2>3. N = B - At(a, from, x + y) + At(a, t, x) + At(a, u, y)
    BY <1>2, <2>1, <2>2
  <2> QED
    BY <2>3 DEF B, N
<1>5. ASSUME NEW a \in TokenAccounts, a \notin {t, u}
      PROVE  n.excess[a] = b.excess[a]
  BY <1>5 DEF Pays
<1> QED
  BY <1>1, <1>3, <1>4, <1>5 DEF PaysBoth

LEMMA FeesV1Effect ==
  ASSUME WrapInv, FeesV1
  PROVE  FeesTaken(CommissionPart(req), PlatformPart(req))
<1> DEFINE c == CommissionPart(req)
           p == PlatformPart(req)
<1>1. /\ pc = "fees" /\ pc' = "done" /\ UNCHANGED <<committed, req, commits>>
      /\ req.version = 1 /\ CommissionPayable(book) /\ book' = CommissionPaid(book)
  BY DEF FeesV1
<1>2. c \in Nat /\ p = 0 /\ book \in Books /\ req.wsol \in TokenAccounts
  BY <1>1, FeeParts, Running
<1>3. Pays(book, book', Charged, req.commission, c)
  BY <1>1, <1>2, CommissionPays DEF Charged
<1>4. /\ c + p = c /\ (\A a, d : At(a, d, p) = 0) /\ (\A a, d : At(a, d, c) \in Nat)
      /\ \A a \in TokenAccounts : book.tok[a] \in Nat /\ book.excess[a] \in Nat
      /\ \A a \in SolAccounts : book.sol[a] \in Nat
  BY <1>1, <1>2, Running DEF At
<1> HIDE DEF c, p
<1>5. FeesTaken(c, p)
  <2>1. ASSUME NEW a \in SolAccounts
        PROVE  book'.sol[a] = book.sol[a] - At(a, Charged, c + p)
                                + At(a, req.commission, c) + At(a, req.platform, p)
    <3>1. book'.sol[a] = book.sol[a] - At(a, Charged, c) + At(a, req.commission, c)
      BY <1>3 DEF Pays
    <3>2. /\ At(a, Charged, c) \in Nat /\ At(a, req.commission, c) \in Nat
          /\ At(a, req.platform, p) = 0 /\ book.sol[a] \in Nat
      BY <1>4
    <3> QED
      BY <1>4, <3>1, <3>2
  <2>2. ASSUME NEW a \in TokenAccounts
        PROVE  book'.tok[a] + book'.excess[a]
                 = (book.tok[a] + book.excess[a]) - At(a, Charged, c + p)
                     + At(a, req.commission, c) + At(a, req.platform, p)
    <3> DEFINE B == book.tok[a] + book.excess[a]
               N == book'.tok[a] + book'.excess[a]
    <3>1. N = B - At(a, Charged, c) + At(a, req.commission, c) /\ B \in Nat
      BY <1>3, <1>4 DEF Pays
    <3> HIDE DEF B, N
    <3>2. N = B - At(a, Charged, c + p) + At(a, req.commission, c) + At(a, req.platform, p)
      <4>1. At(a, Charged, c) \in Nat /\ At(a, req.commission, c) \in Nat /\ At(a, req.platform, p) = 0
        BY <1>4
      <4> QED
        BY <1>4, <3>1, <4>1
    <3> QED
      BY <3>2 DEF B, N
  <2>3. /\ Due(c, CommissionPart(req), req.commission, 0)
        /\ \A y : Due(p, PlatformPart(req), req.platform, y)
    BY DEF Due, c, p
  <2> QED
    BY <1>1, <1>2, <1>3, <1>4, <2>1, <2>2, <2>3 DEF FeesTaken, Pays
<1> QED
  BY <1>5 DEF c, p

LEMMA FeesV2Effect ==
  ASSUME WrapInv, FeesV2
  PROVE  FeesTaken(CommissionPart(req), PlatformPart(req))
<1> DEFINE c == CommissionPart(req)
           p == PlatformPart(req)
           m == PlatformPaid(book)
<1>1. /\ pc = "fees" /\ pc' = "done" /\ UNCHANGED <<committed, req, commits>>
      /\ req.version = 2 /\ PlatformPayable(book)
      /\ CommissionPayable(m) /\ book' = CommissionPaid(m)
  BY DEF FeesV2
<1>2. c \in Nat /\ p \in Nat /\ book \in Books /\ req.wsol \in TokenAccounts
  BY <1>1, FeeParts, Running
<1>3. /\ Pays(book, m, Charged, req.platform, p)
      /\ p > 0 /\ req.platform # Charged =>
           /\ req.platform \in TokenAccounts
           /\ m.tok[req.platform] >= book.tok[req.platform] + p
           /\ m.excess[req.platform] <= book.excess[req.platform]
  BY <1>1, <1>2, PlatformPays DEF Charged
<1>4. /\ Pays(m, book', Charged, req.commission, c)
      /\ \A a \in TokenAccounts : a # Charged => book'.tok[a] >= m.tok[a]
  <2>1. m \in Books
    BY <1>3 DEF Pays
  <2> HIDE DEF m
  <2> QED
    BY <1>1, <1>2, <2>1, CommissionPays DEF Charged
<1> HIDE DEF c, p, m
<1>5. PaysBoth(book, book', Charged, req.platform, p, req.commission, c)
  BY <1>2, <1>3, <1>4, PaysTwice
<1>6. /\ p + c = c + p /\ (\A a, d : At(a, d, c) \in Nat /\ At(a, d, p) \in Nat /\ At(a, d, c + p) \in Nat)
      /\ \A a \in TokenAccounts : book.tok[a] \in Nat /\ book.excess[a] \in Nat
      /\ \A a \in SolAccounts : book.sol[a] \in Nat
  BY <1>1, <1>2, Running DEF At
<1>7. FeesTaken(c, p)
  <2>1. ASSUME NEW a \in SolAccounts
        PROVE  book'.sol[a] = book.sol[a] - At(a, Charged, c + p)
                                + At(a, req.commission, c) + At(a, req.platform, p)
    BY <1>5, <1>6 DEF PaysBoth
  <2>2. ASSUME NEW a \in TokenAccounts
        PROVE  book'.tok[a] + book'.excess[a]
                 = (book.tok[a] + book.excess[a]) - At(a, Charged, c + p)
                     + At(a, req.commission, c) + At(a, req.platform, p)
    BY <1>5, <1>6 DEF PaysBoth
  <2>3. /\ Due(c, CommissionPart(req), req.commission, 0)
        /\ \A y : Due(p, PlatformPart(req), req.platform, y)
    BY DEF Due, c, p
  <2>4. ASSUME p > 0, req.platform # Charged
        PROVE  /\ req.platform \in TokenAccounts
               /\ book'.tok[req.platform] >= book.tok[req.platform] + p
               /\ req.platform # req.commission =>
                    book'.excess[req.platform] <= book.excess[req.platform]
    <3> DEFINE t == req.platform
    <3>1. /\ t \in TokenAccounts /\ m.tok[t] >= book.tok[t] + p
          /\ m.excess[t] <= book.excess[t]
      BY <1>3, <2>4
    <3>2. /\ book'.tok[t] >= m.tok[t]
          /\ t # req.commission => book'.excess[t] = m.excess[t]
      BY <1>4, <2>4, <3>1 DEF Pays
    <3>3. /\ book'.tok[t] \in Nat /\ m.tok[t] \in Nat /\ book.tok[t] \in Nat
      BY <1>2, <1>3, <1>5, <3>1 DEF Pays, PaysBoth, Books
    <3> HIDE DEF t
    <3> QED
      BY <1>2, <3>1, <3>2, <3>3 DEF t
  <2>5. c + p > 0 => Charged \in SolAccounts \cup book.open
    BY <1>2, <1>5 DEF PaysBoth
  <2> QED
    BY <1>1, <1>2, <1>5, <2>1, <2>2, <2>3, <2>4, <2>5 DEF FeesTaken, PaysBoth
<1> QED
  BY <1>7 DEF c, p

(* Both fees of version 3, out of the payer's account or the vault's.      *)
LEMMA BothPay ==
  ASSUME WrapInv, pc = "fees", NEW b \in Books, NEW from, BothPayable(b, from),
         ChargesSol(req) => from \in SolAccounts
  PROVE  LET m == FeePaid(b, from, req.commission, CommissionPart(req))
             c == FeeAmount(b, from, req.commission, CommissionPart(req))
             p == FeeAmount(m, from, req.platform, PlatformPart(req))
         IN  /\ c \in Nat /\ p \in Nat
             /\ Pays(b, m, from, req.commission, c)
             /\ Pays(m, BothPaid(b, from), from, req.platform, p)
             /\ \/ c = CommissionPart(req)
                \/ /\ ChargesSol(req) /\ from # SaAuthority /\ req.commission \in SolAccounts
                   /\ c > CommissionPart(req)
                   /\ b.sol[req.commission] + c = MIN_SOL_ACCOUNT_RENT
             /\ \/ p = PlatformPart(req)
                \/ /\ ChargesSol(req) /\ from # SaAuthority /\ req.platform \in SolAccounts
                   /\ p > PlatformPart(req)
                   /\ m.sol[req.platform] + p = MIN_SOL_ACCOUNT_RENT
<1> DEFINE x == CommissionPart(req)
           y == PlatformPart(req)
           m == FeePaid(b, from, req.commission, x)
           c == FeeAmount(b, from, req.commission, x)
           p == FeeAmount(m, from, req.platform, y)
           n == FeePaid(m, from, req.platform, y)
<1>1. /\ FeePayable(b, from, req.commission, x) /\ FeePayable(m, from, req.platform, y)
      /\ BothPaid(b, from) = n
  BY DEF BothPayable, BothPaid
<1>2. x \in Nat /\ y \in Nat
  BY FeeParts, Running
<1> HIDE DEF x, y
<1>3. Pays(b, m, from, req.commission, c) /\ c \in Nat
  BY <1>1, <1>2, FeePays, FeeLifts
<1>4. m \in Books
  BY <1>3 DEF Pays
<1> HIDE DEF m
<1>5. Pays(m, n, from, req.platform, p) /\ p \in Nat
  BY <1>1, <1>2, <1>4, FeePays, FeeLifts
<1>6. \/ c = x
      \/ /\ ChargesSol(req) /\ from # SaAuthority /\ req.commission \in SolAccounts
         /\ c > x /\ b.sol[req.commission] + c = MIN_SOL_ACCOUNT_RENT
  BY <1>1, <1>2, FeeLifts
<1>7. \/ p = y
      \/ /\ ChargesSol(req) /\ from # SaAuthority /\ req.platform \in SolAccounts
         /\ p > y /\ m.sol[req.platform] + p = MIN_SOL_ACCOUNT_RENT
  BY <1>1, <1>2, <1>4, FeeLifts
<1> QED
  BY <1>1, <1>3, <1>5, <1>6, <1>7 DEF m, x, y

LEMMA FeesV3Effect ==
  ASSUME WrapInv, FeesV3
  PROVE  \E c, p \in Nat : FeesTaken(c, p)
<1> DEFINE m == FeePaid(book, Charged, req.commission, CommissionPart(req))
           c == FeeAmount(book, Charged, req.commission, CommissionPart(req))
           p == FeeAmount(m, Charged, req.platform, PlatformPart(req))
<1>1. /\ pc = "fees" /\ pc' = "done" /\ UNCHANGED <<committed, req, commits>>
      /\ req.version = 3 /\ ~req.tob
      /\ BothPayable(book, Charged) /\ book' = BothPaid(book, Charged)
  BY DEF FeesV3, Charged
<1>2. /\ book \in Books /\ req.wsol \in TokenAccounts
      /\ ChargesSol(req) => Charged = Payer /\ Charged \in SolAccounts
  BY <1>1, Running DEF Charged
<1>3. /\ c \in Nat /\ p \in Nat
      /\ Pays(book, m, Charged, req.commission, c)
      /\ Pays(m, book', Charged, req.platform, p)
      /\ \/ c = CommissionPart(req)
         \/ /\ ChargesSol(req) /\ req.commission \in SolAccounts
            /\ c > CommissionPart(req)
            /\ book.sol[req.commission] + c = MIN_SOL_ACCOUNT_RENT
      /\ \/ p = PlatformPart(req)
         \/ /\ ChargesSol(req) /\ req.platform \in SolAccounts
            /\ p > PlatformPart(req)
            /\ m.sol[req.platform] + p = MIN_SOL_ACCOUNT_RENT
  <2> HIDE DEF Charged
  <2> QED
    BY <1>1, <1>2, BothPay
<1> HIDE DEF c, p, m
<1>4. PaysBoth(book, book', Charged, req.commission, c, req.platform, p)
  BY <1>2, <1>3, PaysTwice
<1>5. Due(c, CommissionPart(req), req.commission, 0)
  <2>1. req.commission \in SolAccounts =>
          book.sol[req.commission] + 0 = book.sol[req.commission]
    BY <1>2 DEF Books
  <2> QED
    BY <1>1, <1>3, <2>1 DEF Due
<1>6. req.platform # Payer =>
        Due(p, PlatformPart(req), req.platform, At(req.platform, req.commission, c))
  <2> SUFFICES ASSUME req.platform # Payer, p # PlatformPart(req)
               PROVE  book.sol[req.platform] + At(req.platform, req.commission, c) + p
                        = MIN_SOL_ACCOUNT_RENT
    BY <1>1, <1>3 DEF Due
  <2> DEFINE t == req.platform
             y == At(t, req.commission, c)
  <2>1. t \in SolAccounts /\ m.sol[t] + p = MIN_SOL_ACCOUNT_RENT /\ Charged = Payer
    BY <1>2, <1>3
  <2>2. m.sol[t] = book.sol[t] - At(t, Charged, c) + y
    BY <1>3, <2>1 DEF Pays
  <2>3. At(t, Charged, c) = 0 /\ y \in Nat /\ book.sol[t] \in Nat
    BY <1>2, <1>3, <2>1 DEF At, Books
  <2> HIDE DEF t, y
  <2>4. m.sol[t] = book.sol[t] + y
    BY <2>2, <2>3
  <2> QED
    BY <2>1, <2>4 DEF t, y
<1>7. c + p > 0 => Charged \in SolAccounts \cup book.open
  BY <1>3, <1>4 DEF PaysBoth
<1>8. FeesTaken(c, p)
  BY <1>1, <1>2, <1>3, <1>4, <1>5, <1>6, <1>7 DEF FeesTaken, PaysBoth
<1> QED
  BY <1>3, <1>8

(* Through the vault: what it is paid is what it pays.                     *)
LEMMA FeesV3ToBEffect ==
  ASSUME WrapInv, FeesV3ToB
  PROVE  \E c, p \in Nat : FeesTaken(c, p)
<1> DEFINE via == IF ChargesSol(req) THEN SaAuthority ELSE WsolSa
           f == Fee(req)
           b == Pulled(book)
           m == FeePaid(b, via, req.commission, CommissionPart(req))
           c == CommissionPart(req)
           p == PlatformPart(req)
<1>1. /\ pc = "fees" /\ pc' = "done" /\ UNCHANGED <<committed, req, commits>>
      /\ req.version = 3 /\ book' = BothPaid(b, via)
  BY DEF FeesV3ToB
<1>2. /\ book \in Books /\ req.wsol \in TokenAccounts /\ req.wsol \notin SolAccounts
      /\ SaAuthority \in SolAccounts /\ Payer \in SolAccounts
      /\ WsolSa # req.wsol
      /\ f \in Nat /\ c \in Nat /\ p \in Nat /\ f = c + p
  BY <1>1, Running, RequestAccounts, FeeParts
<1>3. /\ ChargesSol(req) => SolPayable(book, Payer, SaAuthority, f)
      /\ ~ChargesSol(req) => TokenPayable(book, req.wsol, WsolSa, f)
      /\ BothPayable(b, via)
  <2>1. CASE f > 0
    BY <2>1 DEF FeesV3ToB
  <2>2. CASE f = 0
    <3>1. c = 0 /\ p = 0
      BY <1>2, <2>2
    <3> QED
      BY <2>2, <3>1 DEF SolPayable, TokenPayable, BothPayable, FeePayable
  <2> QED
    BY <1>2, <2>1, <2>2
<1>4. Pays(book, b, Charged, via, f)
  BY <1>2, <1>3, SolPays, TokensPay DEF Pulled, Charged
<1>5. b \in Books /\ (ChargesSol(req) => via = SaAuthority /\ via \in SolAccounts)
  BY <1>2, <1>4 DEF Pays
<1> HIDE DEF b
<1>6. /\ Pays(b, m, via, req.commission, c)
      /\ Pays(m, book', via, req.platform, p)
  <2>1. /\ FeeAmount(b, via, req.commission, c) = c
        /\ FeeAmount(m, via, req.platform, p) = p
    BY <1>5 DEF FeeAmount, Lifted
  <2> HIDE DEF via
  <2> QED
    BY <1>1, <1>3, <1>5, <2>1, BothPay
<1> HIDE DEF m
<1>7. PaysBoth(b, book', via, req.commission, c, req.platform, p)
  <2> HIDE DEF via, c, p
  <2> QED
    BY <1>2, <1>5, <1>6, PaysTwice
<1> HIDE DEF via, f, c, p
<1>8. ASSUME NEW a \in SolAccounts
      PROVE  book'.sol[a] = book.sol[a] - At(a, Charged, c + p)
                              + At(a, req.commission, c) + At(a, req.platform, p)
  <2>1. /\ b.sol[a] = book.sol[a] - At(a, Charged, f) + At(a, via, f)
        /\ book'.sol[a] = b.sol[a] - At(a, via, c + p)
                             + At(a, req.commission, c) + At(a, req.platform, p)
        /\ book.sol[a] \in Nat
    BY <1>2, <1>4, <1>7 DEF Pays, PaysBoth, Books
  <2>2. /\ At(a, Charged, f) \in Nat /\ At(a, via, f) \in Nat
        /\ At(a, req.commission, c) \in Nat /\ At(a, req.platform, p) \in Nat
    BY <1>2 DEF At
  <2> QED
    BY <1>2, <2>1, <2>2
<1>9. ASSUME NEW a \in TokenAccounts
      PROVE  book'.tok[a] + book'.excess[a]
               = (book.tok[a] + book.excess[a]) - At(a, Charged, c + p)
                   + At(a, req.commission, c) + At(a, req.platform, p)
  <2> DEFINE B == book.tok[a] + book.excess[a]
             M == b.tok[a] + b.excess[a]
             N == book'.tok[a] + book'.excess[a]
  <2>1. /\ M = B - At(a, Charged, f) + At(a, via, f)
        /\ N = M - At(a, via, c + p) + At(a, req.commission, c) + At(a, req.platform, p)
        /\ B \in Nat
    BY <1>2, <1>4, <1>7 DEF Pays, PaysBoth, Books
  <2>2. /\ At(a, Charged, f) \in Nat /\ At(a, via, f) \in Nat
        /\ At(a, req.commission, c) \in Nat /\ At(a, req.platform, p) \in Nat
    BY <1>2 DEF At
  <2> HIDE DEF B, M, N
  <2>3. N = B - At(a, Charged, c + p) + At(a, req.commission, c) + At(a, req.platform, p)
    BY <1>2, <2>1, <2>2
  <2> QED
    BY <2>3 DEF B, N
<1>10. /\ book' \in Books /\ book'.open = book.open
       /\ c > 0 => req.commission \in SolAccounts \cup book.open
       /\ p > 0 => req.platform \in SolAccounts \cup book.open
       /\ c + p > 0 => Charged \in SolAccounts \cup book.open
       /\ req.wsol \notin {req.commission, req.platform} =>
            book'.excess[req.wsol] = book.excess[req.wsol]
  BY <1>2, <1>4, <1>7 DEF Pays, PaysBoth, via
<1>11. /\ Due(c, CommissionPart(req), req.commission, 0)
       /\ \A y : Due(p, PlatformPart(req), req.platform, y)
  BY DEF Due, c, p
<1>12. FeesTaken(c, p)
  BY <1>1, <1>2, <1>8, <1>9, <1>10, <1>11 DEF FeesTaken
<1> QED
  BY <1>2, <1>12

-----------------------------------------------------------------------------
(* What the fees leave, against the books before the instruction.          *)

(* What any account holds after the fees.                                  *)
LEMMA FeesHoldings ==
  ASSUME WrapInv, NEW c \in Nat, NEW p \in Nat, FeesTaken(c, p),
         NEW a \in SolAccounts \cup TokenAccounts
  PROVE  /\ Holding(book', a) = Holding(book, a) - At(a, Charged, c + p)
                                  + At(a, req.commission, c) + At(a, req.platform, p)
         /\ Holding(book, a) \in Nat /\ Holding(committed, a) \in Nat
         /\ a \notin {Payer, Temp, req.wsol} => Holding(book, a) = Holding(committed, a)
<1>1. /\ pc = "fees" /\ book' \in Books /\ book \in Books /\ committed \in Books
      /\ a # None /\ (a \in TokenAccounts => a \notin SolAccounts)
  BY Running, RequestAccounts, WrapAccountsAssumption, LedgerAssumption DEF FeesTaken
<1>2. CASE a \in SolAccounts
  <2>1. \A b : Holding(b, a) = b.sol[a]
    BY <1>1, <1>2 DEF Holding
  <2>2. /\ book.sol[a] \in Nat /\ committed.sol[a] \in Nat
        /\ a # Payer => book.sol[a] = committed.sol[a]
    BY <1>1, <1>2, Running DEF WrapInv, ConvertedInv
  <2>3. book'.sol[a] = book.sol[a] - At(a, Charged, c + p)
                         + At(a, req.commission, c) + At(a, req.platform, p)
    BY <1>2 DEF FeesTaken
  <2> QED
    BY <2>1, <2>2, <2>3
<1>3. CASE a \in TokenAccounts
  <2>1. \A b : Holding(b, a) = b.tok[a] + b.excess[a]
    BY <1>1, <1>3 DEF Holding
  <2>2. /\ book.tok[a] + book.excess[a] \in Nat /\ committed.tok[a] + committed.excess[a] \in Nat
        /\ a \notin {Temp, req.wsol} =>
             book.tok[a] + book.excess[a] = committed.tok[a] + committed.excess[a]
    BY <1>1, <1>3, Running DEF WrapInv, ConvertedInv
  <2>3. book'.tok[a] + book'.excess[a]
          = (book.tok[a] + book.excess[a]) - At(a, Charged, c + p)
              + At(a, req.commission, c) + At(a, req.platform, p)
    BY <1>3 DEF FeesTaken
  <2> QED
    BY <2>1, <2>2, <2>3
<1> QED
  BY <1>2, <1>3

(* Third parties are nobody whom the conversion or the fees took from.     *)
LEMMA ThirdPartiesApart ==
  ASSUME WrapInv, NEW c \in Nat, NEW p \in Nat, FeesTaken(c, p), ThirdParties
  PROVE  /\ req.commission \in SolAccounts \cup TokenAccounts \cup {None}
         /\ req.platform \in SolAccounts \cup TokenAccounts \cup {None}
         /\ req.commission \notin {Payer, Temp, req.wsol, Charged}
         /\ req.platform \notin {Payer, Temp, req.wsol, Charged}
         /\ c > 0 => req.commission # None
         /\ p > 0 => req.platform # None
<1>1. pc = "fees" /\ req \in Requests /\ IsRequest(req) /\ book.open \subseteq TokenAccounts
  BY Running DEF FeesTaken, Books
<1>2. /\ req.wsol \in PayerAccounts /\ Temp \in PayerAccounts
      /\ None \notin TokenAccounts \cup SolAccounts
  BY <1>1, RequestAccounts
<1>3. {req.commission, req.platform} \cap ({Payer} \cup PayerAccounts) = {}
  BY DEF ThirdParties, FeeAccounts
<1>4. /\ req.commission \in SolAccounts \cup TokenAccounts \cup {None}
      /\ req.platform \in SolAccounts \cup TokenAccounts \cup {None}
  BY <1>1 DEF IsRequest
<1>5. /\ c > 0 => req.commission \in SolAccounts \cup book.open
      /\ p > 0 => req.platform \in SolAccounts \cup book.open
  BY DEF FeesTaken
<1>6. Charged \in {Payer, req.wsol}
  BY DEF Charged
<1> QED
  BY <1>1, <1>2, <1>3, <1>4, <1>5, <1>6

LEMMA ThirdPartiesReceive ==
  ASSUME WrapInv, NEW c \in Nat, NEW p \in Nat, FeesTaken(c, p), ThirdParties,
         NEW a \in FeeAccounts
  PROVE  LET x == At(a, req.commission, c) + At(a, req.platform, p)
         IN  /\ x \in Nat
             /\ Holding(book', a) - Holding(committed, a) = x
             /\ a # None => Holding(book', a) = Holding(book, a) + x
             /\ x > 0 => a # None
<1> DEFINE x == At(a, req.commission, c) + At(a, req.platform, p)
<1>1. /\ a \in SolAccounts \cup TokenAccounts \cup {None}
      /\ a \notin {Payer, Temp, req.wsol, Charged}
      /\ c > 0 => req.commission # None
      /\ p > 0 => req.platform # None
  BY ThirdPartiesApart DEF FeeAccounts
<1>2. /\ At(a, req.commission, c) \in Nat /\ At(a, req.platform, p) \in Nat
      /\ At(a, Charged, c + p) = 0
  BY <1>1 DEF At
<1>3. CASE a # None
  <2>1. /\ Holding(book', a) = Holding(book, a) - At(a, Charged, c + p)
                                 + At(a, req.commission, c) + At(a, req.platform, p)
        /\ Holding(book, a) \in Nat /\ Holding(book, a) = Holding(committed, a)
    <3>1. a \in SolAccounts \cup TokenAccounts /\ a \notin {Payer, Temp, req.wsol}
      BY <1>1, <1>3
    <3> QED
      BY <3>1, FeesHoldings
  <2> QED
    BY <1>2, <1>3, <2>1
<1>4. CASE a = None
  <2>1. \A b : Holding(b, a) = 0
    BY <1>4 DEF Holding
  <2>2. At(a, req.commission, c) = 0 /\ At(a, req.platform, p) = 0
    BY <1>1, <1>4 DEF At
  <2> QED
    BY <1>4, <2>1, <2>2
<1> QED
  BY <1>3, <1>4

(* The payer loses what is charged.                                        *)
LEMMA FeesPurse ==
  ASSUME WrapInv, NEW c \in Nat, NEW p \in Nat, FeesTaken(c, p), ThirdParties
  PROVE  Purse(committed) - Purse(book') = c + p
<1> DEFINE w == req.wsol
           f == c + p
<1>1. /\ pc = "fees" /\ book \in Books /\ committed \in Books /\ book' \in Books
      /\ book'.open = book.open /\ w \in TokenAccounts /\ Temp \in TokenAccounts
      /\ Payer \in SolAccounts /\ Payer # w /\ Payer # Temp
      /\ f > 0 => Charged \in SolAccounts \cup book.open
      /\ w \notin SolAccounts /\ TOKEN_ACCOUNT_RENT \in Nat
  BY Running DEF FeesTaken
<1>2. req.commission \notin {Payer, Temp, w} /\ req.platform \notin {Payer, Temp, w}
  BY ThirdPartiesApart
<1>3. \A a \in {Payer, Temp, w} :
        At(a, req.commission, c) = 0 /\ At(a, req.platform, p) = 0
  BY <1>2 DEF At
<1>4. Purse(book) = Purse(committed) /\ Purse(committed) \in Int
  BY <1>1, PurseParts DEF WrapInv, ConvertedInv
<1>5. /\ Purse(book) = book.sol[Payer] + Worth(book, Temp)
                           + (IF w = Temp THEN 0 ELSE Worth(book, w))
      /\ Purse(book') = book'.sol[Payer] + Worth(book', Temp)
                           + (IF w = Temp THEN 0 ELSE Worth(book', w))
      /\ book.sol[Payer] \in Nat /\ Worth(book, Temp) \in Nat /\ Worth(book, w) \in Nat
  BY <1>1, PurseParts
<1>6. book'.sol[Payer] = book.sol[Payer] - (IF ChargesSol(req) THEN f ELSE 0)
  <2>1. book'.sol[Payer] = book.sol[Payer] - At(Payer, Charged, f)
                             + At(Payer, req.commission, c) + At(Payer, req.platform, p)
    BY <1>1 DEF FeesTaken
  <2>2. At(Payer, Charged, f) = IF ChargesSol(req) THEN f ELSE 0
    BY <1>1 DEF At, Charged
  <2> QED
    BY <1>3, <1>5, <2>1, <2>2
<1>7. ASSUME NEW a \in {Temp, w}
      PROVE  Worth(book', a) = Worth(book, a) - (IF ~ChargesSol(req) /\ a = w THEN f ELSE 0)
  <2>1. book'.tok[a] + book'.excess[a]
          = (book.tok[a] + book.excess[a]) - At(a, Charged, f)
              + At(a, req.commission, c) + At(a, req.platform, p)
    BY <1>1, <1>7 DEF FeesTaken
  <2>2. At(a, Charged, f) = IF ~ChargesSol(req) /\ a = w THEN f ELSE 0
    BY <1>1, <1>7 DEF At, Charged
  <2>3. book.tok[a] \in Nat /\ book.excess[a] \in Nat
    BY <1>1, <1>7, Running
  <2>4. book'.tok[a] \in Nat /\ book'.excess[a] \in Nat
    BY <1>1, <1>7 DEF Books
  <2>5. ~ChargesSol(req) /\ f > 0 => w \in book.open
    BY <1>1 DEF Charged
  <2> HIDE DEF w, f
  <2>6. book'.tok[a] + book'.excess[a]
          = (book.tok[a] + book.excess[a]) - (IF ~ChargesSol(req) /\ a = w THEN f ELSE 0)
    <3>1. At(a, req.commission, c) = 0 /\ At(a, req.platform, p) = 0 /\ f \in Nat
      BY <1>3, <1>7 DEF f
    <3> QED
      BY <2>1, <2>2, <2>3, <3>1
  <2>7. CASE a \in book.open
    BY <1>1, <2>3, <2>4, <2>6, <2>7 DEF Worth, f
  <2>8. CASE a \notin book.open
    <3>1. ~ChargesSol(req) /\ a = w => f = 0
      BY <2>5, <2>8 DEF f
    <3> QED
      BY <1>1, <2>8, <3>1 DEF Worth
  <2> QED
    BY <2>7, <2>8
<1>8. f \in Nat
  OBVIOUS
<1> HIDE DEF w, f
<1>9. CASE w = Temp
  BY <1>4, <1>5, <1>6, <1>7, <1>8, <1>9 DEF f
<1>10. CASE w # Temp
  <2>1. /\ Worth(book', Temp) = Worth(book, Temp)
        /\ Worth(book', w) = Worth(book, w) - (IF ChargesSol(req) THEN 0 ELSE f)
    BY <1>5, <1>7, <1>8, <1>10
  <2> QED
    BY <1>4, <1>5, <1>6, <1>8, <1>10, <2>1 DEF f
<1> QED
  BY <1>9, <1>10

(* Each fee account has its part, the vault's account as tokens.           *)
LEMMA FeesReceivedStep ==
  ASSUME WrapInv, NEW c \in Nat, NEW p \in Nat, FeesTaken(c, p)
  PROVE  FeesReceived'
<1>1. /\ pc = "fees" /\ UNCHANGED <<committed, req>> /\ req \in Requests
      /\ IsRequest(req) /\ RatesAllowed(req)
  BY Running DEF FeesTaken
<1> SUFFICES ASSUME ThirdParties
             PROVE  PlatformHasTokens' /\ \A a \in FeeAccounts : HasFees(a)'
  BY <1>1 DEF FeesReceived, ThirdParties, FeeAccounts
<1> DEFINE cp == CommissionPart(req)
           pp == PlatformPart(req)
<1>2. cp \in Nat /\ pp \in Nat
  BY <1>1, FeeParts
<1>3. /\ req.commission \notin {Payer, Temp, req.wsol, Charged}
      /\ req.platform \notin {Payer, Temp, req.wsol, Charged}
  BY ThirdPartiesApart
<1>4. /\ Due(c, cp, req.commission, 0)
      /\ Due(p, pp, req.platform, At(req.platform, req.commission, c))
  BY <1>3 DEF FeesTaken
<1>5. PlatformHasTokens'
  <2> SUFFICES ASSUME req.version = 2, pp > 0
               PROVE  /\ book'.tok[req.platform] >= committed.tok[req.platform] + pp
                      /\ req.commission # req.platform =>
                           book'.excess[req.platform] <= committed.excess[req.platform]
    BY <1>1 DEF PlatformHasTokens
  <2>1. p = pp
    BY <1>4 DEF Due
  <2>2. /\ req.platform \in TokenAccounts
        /\ book'.tok[req.platform] >= book.tok[req.platform] + p
        /\ req.commission # req.platform =>
             book'.excess[req.platform] <= book.excess[req.platform]
    BY <1>3, <2>1 DEF FeesTaken
  <2>3. /\ book.tok[req.platform] = committed.tok[req.platform]
        /\ book.excess[req.platform] = committed.excess[req.platform]
    BY <1>1, <1>3, <2>2 DEF WrapInv, ConvertedInv
  <2> QED
    BY <2>1, <2>2, <2>3
<1>6. ASSUME NEW a \in FeeAccounts
      PROVE  \/ Holding(book', a) - Holding(committed, a) = FeesDue(a)
             \/ /\ req.version = 3 /\ ~req.tob /\ ChargesSol(req)
                /\ Holding(book', a) - Holding(committed, a) > FeesDue(a)
                /\ Holding(book', a) \in RentMinima
  <2> DEFINE x == At(a, req.commission, c) + At(a, req.platform, p)
             lifted == req.version = 3 /\ ~req.tob /\ ChargesSol(req)
  <2>1. /\ x \in Nat
        /\ Holding(book', a) - Holding(committed, a) = x
        /\ a # None => Holding(book', a) = Holding(book, a) + x
    BY ThirdPartiesReceive
  <2>2. a \in SolAccounts => /\ a # None /\ Holding(book, a) = book.sol[a]
                             /\ book.sol[a] \in Nat
    BY <1>1, Running, RequestAccounts DEF Holding
  <2>3. MIN_SOL_ACCOUNT_RENT \in Nat
    BY WrapRatesAssumption
  <2>4. /\ \/ c = cp
           \/ /\ lifted /\ req.commission \in SolAccounts /\ c > cp
              /\ (book.sol[req.commission] + 0) + c = MIN_SOL_ACCOUNT_RENT
        /\ \/ p = pp
           \/ /\ lifted /\ req.platform \in SolAccounts /\ p > pp
              /\ (book.sol[req.platform] + At(req.platform, req.commission, c)) + p
                   = MIN_SOL_ACCOUNT_RENT
    BY <1>4 DEF Due
  <2>5. FeesDue(a) = (IF a = req.commission THEN cp ELSE 0)
                       + (IF a = req.platform THEN pp ELSE 0)
    BY DEF FeesDue
  <2>6. a \in {req.commission, req.platform}
    BY DEF FeeAccounts
  <2>7. RentMinima = {MIN_SOL_ACCOUNT_RENT}
                     \cup (IF req.commission = req.platform
                           THEN {MIN_SOL_ACCOUNT_RENT + pp} ELSE {})
    BY DEF RentMinima
  <2> HIDE DEF cp, pp, lifted
  <2>8. \/ x = FeesDue(a)
        \/ /\ lifted /\ a \in SolAccounts
           /\ x > FeesDue(a) /\ book.sol[a] + x \in RentMinima
    <3>1. CASE req.commission = req.platform
      <4>1. a = req.commission /\ x = c + p /\ FeesDue(a) = cp + pp
            /\ At(req.platform, req.commission, c) = c
        BY <2>5, <2>6, <3>1 DEF At
      <4>2. RentMinima = {MIN_SOL_ACCOUNT_RENT, MIN_SOL_ACCOUNT_RENT + pp}
        BY <2>7, <3>1
      <4> DEFINE h == book.sol[a]
      <4>3. /\ c = cp \/ (lifted /\ a \in SolAccounts /\ c > cp /\ h + 0 + c = MIN_SOL_ACCOUNT_RENT)
            /\ p = pp \/ (lifted /\ a \in SolAccounts /\ p > pp /\ h + c + p = MIN_SOL_ACCOUNT_RENT)
            /\ a \in SolAccounts => h \in Nat
        BY <2>2, <2>4, <3>1, <4>1
      <4> HIDE DEF x, h
      <4>4. CASE c = cp /\ p = pp
        BY <4>1, <4>4
      <4>5. CASE c # cp
        <5>1. lifted /\ a \in SolAccounts /\ c > cp /\ h \in Nat /\ h + c = MIN_SOL_ACCOUNT_RENT
          BY <4>3, <4>5
        <5>2. p = pp
          BY <1>2, <2>3, <4>3, <5>1
        <5>3. x > FeesDue(a) /\ h + x = MIN_SOL_ACCOUNT_RENT + pp
          BY <1>2, <2>3, <4>1, <5>1, <5>2
        <5> QED
          BY <4>2, <5>1, <5>3 DEF h
      <4>6. CASE c = cp /\ p # pp
        <5>1. lifted /\ a \in SolAccounts /\ p > pp /\ h \in Nat /\ h + c + p = MIN_SOL_ACCOUNT_RENT
          BY <4>3, <4>6
        <5>2. x > FeesDue(a) /\ h + x = MIN_SOL_ACCOUNT_RENT
          BY <1>2, <2>3, <4>1, <4>6, <5>1
        <5> QED
          BY <4>2, <5>1, <5>2 DEF h
      <4> QED
        BY <4>4, <4>5, <4>6
    <3>2. CASE req.commission # req.platform
      <4>1. At(req.platform, req.commission, c) = 0
        BY <3>2 DEF At
      <4>2. RentMinima = {MIN_SOL_ACCOUNT_RENT}
        BY <2>7, <3>2
      <4>3. CASE a = req.commission
        <5>1. x = c /\ FeesDue(a) = cp
          BY <1>2, <2>5, <3>2, <4>3 DEF At
        <5> HIDE DEF x
        <5> QED
          BY <1>2, <2>2, <2>3, <2>4, <4>2, <4>3, <5>1
      <4>4. CASE a = req.platform
        <5>1. x = p /\ FeesDue(a) = pp
          BY <1>2, <2>5, <3>2, <4>4 DEF At
        <5> HIDE DEF x
        <5> QED
          BY <1>2, <2>2, <2>3, <2>4, <4>1, <4>2, <4>4, <5>1
      <4> QED
        BY <2>6, <4>3, <4>4
    <3> QED
      BY <3>1, <3>2
  <2> HIDE DEF x
  <2> QED
    BY <2>1, <2>2, <2>8 DEF lifted
<1>7. /\ \A a : FeesDue(a)' = FeesDue(a)
      /\ RentMinima' = RentMinima /\ FeeAccounts' = FeeAccounts
      /\ ChargesSol(req)' <=> ChargesSol(req)
  BY <1>1 DEF FeesDue, RentMinima, FeeAccounts, CommissionPart, PlatformPart, Fee, ChargesSol
<1>8. ASSUME NEW a \in FeeAccounts PROVE HasFees(a)'
  BY <1>1, <1>6, <1>7 DEF HasFees, Received, Holding
<1> QED
  BY <1>5, <1>8

(* Fees in wSOL come off the account the amount moved through.             *)
LEMMA AmountConvertedStep ==
  ASSUME WrapInv, NEW c \in Nat, NEW p \in Nat, FeesTaken(c, p)
  PROVE  AmountConverted'
<1> DEFINE fees == IF ChargesSol(req) THEN 0 ELSE Fee(req)
           w == req.wsol
<1>1. /\ pc = "fees" /\ UNCHANGED <<committed, req>> /\ book' \in Books
      /\ book'.open = book.open /\ IsRequest(req) /\ RatesAllowed(req)
      /\ w \in TokenAccounts /\ w \notin SolAccounts /\ Payer \in SolAccounts
      /\ req.amount \in Nat
  BY Running DEF FeesTaken
<1> SUFFICES ASSUME ThirdParties
             PROVE  AmountMoved(book', fees)
  BY <1>1 DEF AmountConverted, ThirdParties, FeeAccounts, AmountMoved, Fee, ChargesSol
<1>2. /\ req.commission \notin {Payer, Temp, w, Charged}
      /\ req.platform \notin {Payer, Temp, w, Charged}
  BY ThirdPartiesApart
<1>3. /\ book.tok[w] \in Nat /\ book.excess[w] \in Nat
      /\ book'.tok[w] \in Nat /\ book'.excess[w] \in Nat
      /\ committed.tok[w] \in Nat /\ committed.excess[w] \in Nat
  BY <1>1, Running DEF Books
<1>4. /\ book'.tok[w] + book'.excess[w]
           = (book.tok[w] + book.excess[w]) - At(w, Charged, c + p)
               + At(w, req.commission, c) + At(w, req.platform, p)
      /\ book'.excess[w] = book.excess[w]
  BY <1>1, <1>2 DEF FeesTaken
<1>5. At(w, req.commission, c) = 0 /\ At(w, req.platform, p) = 0
  BY <1>2 DEF At
<1>6. At(w, Charged, c + p) = fees /\ fees \in Nat
  <2>1. CASE ChargesSol(req)
    BY <1>1, <2>1 DEF Charged, At
  <2>2. CASE ~ChargesSol(req)
    <3>1. c = CommissionPart(req) /\ p = PlatformPart(req)
      BY <1>2, <2>2 DEF FeesTaken, Due
    <3>2. c + p = Fee(req) /\ Fee(req) \in Nat
      BY <1>1, <3>1, FeeParts
    <3> QED
      BY <2>2, <3>2 DEF Charged, At
  <2> QED
    BY <2>1, <2>2
<1> HIDE DEF fees
<1>7. book'.tok[w] + fees = book.tok[w]
  <2>1. book'.tok[w] + book'.excess[w] = (book.tok[w] + book.excess[w]) - fees + 0 + 0
    BY <1>4, <1>5, <1>6
  <2> HIDE DEF w
  <2> QED
    BY <1>3, <1>4, <1>6, <2>1
<1>8. AmountMoved(book, 0)
  BY <1>1 DEF WrapInv, ConvertedInv
<1> QED
  BY <1>1, <1>3, <1>6, <1>7, <1>8 DEF AmountMoved

(* The vault is at most a station, or receives what is its own.            *)
LEMMA VaultKeptStep ==
  ASSUME WrapInv, NEW c \in Nat, NEW p \in Nat, FeesTaken(c, p)
  PROVE  VaultKept'
<1>1. /\ pc = "fees" /\ UNCHANGED <<committed, req>> /\ req \in Requests
  BY Running DEF FeesTaken
<1>2. /\ SaAccounts \subseteq TokenAccounts /\ SaAuthority \in SolAccounts
      /\ req.wsol \notin SaAccounts /\ Temp \notin SaAccounts
      /\ SaAuthority # Payer /\ Payer \in SolAccounts
      /\ req.wsol \in TokenAccounts /\ Temp \in TokenAccounts
      /\ \A a \in TokenAccounts : a \notin SolAccounts
  BY <1>1, RequestAccounts
<1>3. ASSUME NEW a \in SaAccounts \cup {SaAuthority}
      PROVE  /\ Holding(book', a) - Holding(committed, a) >= 0
             /\ {req.commission, req.platform} \cap (SaAccounts \cup {SaAuthority}) = {} =>
                  Holding(book', a) - Holding(committed, a) = 0
  <2>1. /\ a \in SolAccounts \cup TokenAccounts
        /\ a \notin {Payer, Temp, req.wsol} /\ a # Charged
    BY <1>2 DEF Charged
  <2>2. /\ Holding(book', a) = Holding(committed, a) - At(a, Charged, c + p)
                                 + At(a, req.commission, c) + At(a, req.platform, p)
        /\ Holding(committed, a) \in Nat
    BY <2>1, FeesHoldings
  <2>3. /\ At(a, Charged, c + p) = 0
        /\ At(a, req.commission, c) \in Nat /\ At(a, req.platform, p) \in Nat
    BY <2>1 DEF At
  <2>4. {req.commission, req.platform} \cap (SaAccounts \cup {SaAuthority}) = {} =>
          At(a, req.commission, c) = 0 /\ At(a, req.platform, p) = 0
    BY DEF At
  <2> QED
    BY <2>2, <2>3, <2>4
<1> QED
  BY <1>1, <1>3 DEF VaultKept, Received, Holding

LEMMA PaidStep ==
  ASSUME WrapInv, NEW c \in Nat, NEW p \in Nat, FeesTaken(c, p)
  PROVE  WrapInv'
<1>1. /\ pc = "fees" /\ pc' = "done" /\ UNCHANGED <<committed, req, commits>>
      /\ book' \in Books /\ book'.open = book.open /\ book.open \subseteq TokenAccounts
  BY Running DEF FeesTaken, Books
<1>2. TypeOK'
  BY <1>1 DEF WrapInv, TypeOK, Phases
<1>3. EmptyUnlessOpen(book')
  <2> SUFFICES ASSUME NEW a \in TokenAccounts \ book.open
               PROVE  book'.tok[a] = 0 /\ book'.excess[a] = 0
    BY <1>1 DEF EmptyUnlessOpen
  <2>1. book.tok[a] = 0 /\ book.excess[a] = 0 /\ a \notin SolAccounts
    BY LedgerAssumption DEF WrapInv, RunningInv, EmptyUnlessOpen
  <2>2. /\ At(a, Charged, c + p) = 0
        /\ At(a, req.commission, c) = 0 /\ At(a, req.platform, p) = 0
    BY <2>1 DEF FeesTaken, At
  <2>3. book'.tok[a] + book'.excess[a]
          = (book.tok[a] + book.excess[a]) - At(a, Charged, c + p)
              + At(a, req.commission, c) + At(a, req.platform, p)
    BY DEF FeesTaken
  <2>4. book'.tok[a] \in Nat /\ book'.excess[a] \in Nat
    BY <1>1 DEF Books
  <2> QED
    BY <2>1, <2>2, <2>3, <2>4
<1>4. RunningInv'
  BY <1>1, <1>3 DEF WrapInv, RunningInv, EmptyUnlessOpen
<1>5. PayerPaidFees'
  <2> SUFFICES ASSUME ThirdParties
               PROVE  Purse(committed) - Purse(book')
                        = (Holding(book', req.commission) - Holding(committed, req.commission))
                          + (IF req.platform = req.commission THEN 0
                             ELSE Holding(book', req.platform)
                                    - Holding(committed, req.platform))
    BY <1>1 DEF PayerPaidFees, ThirdParties, FeeAccounts, Purse, Worth, Received, Holding
  <2>1. \A a \in {req.commission, req.platform} :
          Holding(book', a) - Holding(committed, a)
            = At(a, req.commission, c) + At(a, req.platform, p)
    BY ThirdPartiesReceive DEF FeeAccounts
  <2>2. /\ At(req.commission, req.commission, c) = c
        /\ At(req.platform, req.platform, p) = p
        /\ At(req.commission, req.platform, p)
             = (IF req.platform = req.commission THEN p ELSE 0)
        /\ req.platform # req.commission => At(req.platform, req.commission, c) = 0
    BY DEF At
  <2>3. Purse(committed) - Purse(book') = c + p
    BY FeesPurse
  <2> QED
    BY <2>1, <2>2, <2>3
<1>6. PaidInv'
  BY <1>5, FeesReceivedStep, AmountConvertedStep, VaultKeptStep DEF PaidInv
<1>7. BegunInv' /\ ConvertedInv'
  BY <1>1 DEF BegunInv, ConvertedInv
<1> QED
  BY <1>2, <1>4, <1>6, <1>7 DEF WrapInv

-----------------------------------------------------------------------------
(* The invariant.                                                          *)

(* Between instructions nothing is owed to any stage.                      *)
LEMMA IdleInv ==
  ASSUME WrapInv, pc' = "idle", req' = None, committed' = book',
         book' \in Books, EmptyUnlessOpen(book'), commits' \in Nat
  PROVE  WrapInv'
<1>1. TypeOK'
  BY DEF TypeOK, Phases
<1>2. RunningInv'
  BY DEF RunningInv, EmptyUnlessOpen
<1>3. BegunInv' /\ ConvertedInv' /\ PaidInv'
  BY DEF BegunInv, ConvertedInv, PaidInv
<1> QED
  BY <1>1, <1>2, <1>3 DEF WrapInv

LEMMA WrapInitial == Init => WrapInv
<1> SUFFICES ASSUME Init
             PROVE  WrapInv
  OBVIOUS
<1>1. TypeOK
  BY WrapAccountsAssumption DEF Init, TypeOK, Phases
<1>2. RunningInv
  BY WrapAccountsAssumption DEF Init, RunningInv, EmptyUnlessOpen
<1>3. BegunInv /\ ConvertedInv /\ PaidInv
  BY DEF Init, BegunInv, ConvertedInv, PaidInv
<1> QED
  BY <1>1, <1>2, <1>3 DEF WrapInv

LEMMA DonateStep ==
  ASSUME WrapInv, NEW a \in TokenAccounts, Donate(a)
  PROVE  WrapInv'
<1>1. /\ pc' = "idle" /\ committed' = book' /\ book \in Books /\ commits' \in Nat
      /\ a \in book.open /\ EmptyUnlessOpen(book) /\ req' = req /\ pc = "idle"
      /\ book' = [book EXCEPT !.excess[a] = @ + 1] /\ req \in Requests \cup {None}
  BY DEF Donate, WrapInv, TypeOK, RunningInv
<1>2. /\ book' \in Books /\ book'.tok = book.tok /\ book'.open = book.open
      /\ \A d \in TokenAccounts : d # a => book'.excess[d] = book.excess[d]
  BY <1>1 DEF Books
<1>3. EmptyUnlessOpen(book')
  BY <1>1, <1>2 DEF EmptyUnlessOpen
<1>4. TypeOK' /\ RunningInv'
  BY <1>1, <1>2, <1>3 DEF TypeOK, Phases, RunningInv, EmptyUnlessOpen
<1>5. BegunInv' /\ ConvertedInv' /\ PaidInv'
  BY <1>1 DEF BegunInv, ConvertedInv, PaidInv
<1> QED
  BY <1>4, <1>5 DEF WrapInv

LEMMA WrapNext == WrapInv /\ [Next]_vars => WrapInv'
<1> SUFFICES ASSUME WrapInv, [Next]_vars
             PROVE  WrapInv'
  OBVIOUS
<1>1. ASSUME NEW r \in Requests, Begin(r)
      PROVE  WrapInv'
  BY <1>1, BeginStep
<1>2. CASE Wrap
  BY <1>2, WrapStep
<1>3. CASE Unwrap
  BY <1>3, UnwrapStep
<1>4. CASE FeesV1 \/ FeesV2
  <2>1. /\ FeesTaken(CommissionPart(req), PlatformPart(req))
        /\ CommissionPart(req) \in Nat /\ PlatformPart(req) \in Nat
    BY <1>4, FeesV1Effect, FeesV2Effect, FeeParts, Running DEF FeesV1, FeesV2
  <2> QED
    BY <2>1, PaidStep
<1>5. CASE FeesV3 \/ FeesV3ToB
  <2>1. PICK c \in Nat, p \in Nat : FeesTaken(c, p)
    BY <1>5, FeesV3Effect, FeesV3ToBEffect
  <2> QED
    BY <2>1, PaidStep
<1>6. CASE Finish
  BY <1>6, IdleInv DEF Finish, WrapInv, TypeOK, RunningInv
<1>7. CASE Fail
  BY <1>7, IdleInv DEF Fail, WrapInv, TypeOK, RunningInv
<1>8. ASSUME NEW a \in TokenAccounts, Donate(a)
      PROVE  WrapInv'
  BY <1>8, DonateStep
<1>9. CASE UNCHANGED vars
  <2>1. UNCHANGED <<book, committed, pc, req, commits>>
    BY <1>9 DEF vars
  <2>2. TypeOK' /\ RunningInv'
    BY <2>1 DEF WrapInv, TypeOK, RunningInv, EmptyUnlessOpen
  <2>3. BegunInv'
    BY <2>1 DEF WrapInv, BegunInv, Purse, Worth
  <2>4. ConvertedInv'
    BY <2>1 DEF WrapInv, ConvertedInv, Purse, Worth, AmountMoved
  <2>5. PayerPaidFees' <=> PayerPaidFees
    BY <2>1 DEF PayerPaidFees, Purse, Worth, Received, Holding, ThirdParties, FeeAccounts
  <2>6. FeesReceived' <=> FeesReceived
    BY <2>1 DEF FeesReceived, Received, Holding, PlatformHasTokens, HasFees, FeesDue,
                RentMinima, ThirdParties, FeeAccounts, CommissionPart, PlatformPart, Fee,
                ChargesSol
  <2>7. AmountConverted' <=> AmountConverted
    BY <2>1 DEF AmountConverted, AmountMoved, ThirdParties, FeeAccounts, Fee, ChargesSol
  <2>8. VaultKept' <=> VaultKept
    BY <2>1 DEF VaultKept, Received, Holding
  <2>9. PaidInv'
    BY <2>1, <2>5, <2>6, <2>7, <2>8 DEF WrapInv, PaidInv
  <2> QED
    BY <2>2, <2>3, <2>4, <2>9 DEF WrapInv
<1> QED
  BY <1>1, <1>2, <1>3, <1>4, <1>5, <1>6, <1>7, <1>8, <1>9 DEF Next

(* WrapInvariance: at every stage of every conversion, what has moved      *)
(* between the payer, the vault and the fee accounts is what that stage    *)
(* was to move.                                                            *)
THEOREM WrapInvariance == Spec => []WrapInv
  BY WrapInitial, WrapNext, PTL DEF Spec

-----------------------------------------------------------------------------
(* What a commit shows.                                                    *)

LEMMA Committing ==
  ASSUME WrapInv, Next, Commits
  PROVE  /\ committed' = book /\ req.wsol \in book.open
         /\ PayerPaidFees /\ FeesReceived /\ AmountConverted /\ VaultKept
<1>1. pc = "done" /\ commits' > commits /\ commits \in Nat
  BY DEF Commits, WrapInv, TypeOK
<1>2. Finish
  BY <1>1 DEF Next, Begin, Wrap, Unwrap, FeesV1, FeesV2, FeesV3, FeesV3ToB, Fail, Donate
<1> QED
  BY <1>1, <1>2 DEF Finish, WrapInv, PaidInv

(* ConversionCostsFees: whatever the accounts, the amounts and the rates,  *)
(* a payer of a wrap or an unwrap loses what the fee accounts gain.        *)
THEOREM ConversionCostsFees == Spec => PayerLosesOnlyFees
<1> DEFINE A == Commits /\ ThirdParties =>
                Purse(committed) - Purse(committed') = FeesGained
<1>1. WrapInv /\ [Next]_vars => [A]_vars
  <2> SUFFICES ASSUME WrapInv, Next, Commits
               PROVE  A
    BY DEF Commits
  <2> QED
    BY Committing DEF PayerPaidFees, Received, Gained, FeesGained
<1> HIDE DEF A
<1>2. Spec => [][A]_vars
  BY <1>1, WrapInvariance, PTL DEF Spec
<1> QED
  BY <1>2 DEF A, PayerLosesOnlyFees

(* ConversionPaysFees: every fee account, the vault's included, gains      *)
(* exactly what is due to it, but for a poor wallet, which is lifted to    *)
(* the rent minimum.                                                       *)
THEOREM ConversionPaysFees == Spec => FeesArrive
<1> DEFINE A == Commits /\ ThirdParties =>
             /\ PlatformFeeIsTokens
             /\ \A a \in FeeAccounts :
                  \/ Gained(a) = FeesDue(a)
                  \/ /\ req.version = 3 /\ ~req.tob /\ ChargesSol(req)
                     /\ Gained(a) > FeesDue(a)
                     /\ Holding(committed', a) \in RentMinima
<1>1. WrapInv /\ [Next]_vars => [A]_vars
  <2> SUFFICES ASSUME WrapInv, Next, Commits, ThirdParties
               PROVE  /\ PlatformFeeIsTokens
                      /\ \A a \in FeeAccounts :
                           \/ Gained(a) = FeesDue(a)
                           \/ /\ req.version = 3 /\ ~req.tob /\ ChargesSol(req)
                              /\ Gained(a) > FeesDue(a)
                              /\ Holding(committed', a) \in RentMinima
    BY DEF Commits
  <2>1. committed' = book /\ FeesReceived
    BY Committing
  <2>2. PlatformFeeIsTokens
    BY <2>1 DEF FeesReceived, PlatformHasTokens, PlatformFeeIsTokens
  <2>3. \A a : Gained(a) = Received(a)
    BY <2>1 DEF Gained, Received
  <2>4. \A a \in FeeAccounts : HasFees(a)
    BY <2>1 DEF FeesReceived
  <2> QED
    BY <2>1, <2>2, <2>3, <2>4 DEF HasFees
<1> HIDE DEF A
<1>2. Spec => [][A]_vars
  BY <1>1, WrapInvariance, PTL DEF Spec
<1> QED
  BY <1>2 DEF A, FeesArrive

(* ConversionIsExact: a wrap adds the amount to the payer's tokens, an     *)
(* unwrap takes it out and leaves no temporary account.                    *)
THEOREM ConversionIsExact == Spec => ConvertsAmount
<1> DEFINE A == Commits /\ ThirdParties =>
       LET fees == IF ChargesSol(req) THEN 0 ELSE Fee(req)
       IN  /\ req.wrap => committed'.tok[req.wsol] + fees
                            = committed.tok[req.wsol] + committed.excess[req.wsol] + req.amount
           /\ ~req.wrap =>
                /\ committed'.tok[req.wsol] + fees + req.amount
                     = committed.tok[req.wsol]
                /\ Temp \notin committed'.open
<1>1. WrapInv /\ [Next]_vars => [A]_vars
  <2> SUFFICES ASSUME WrapInv, Next, Commits, ThirdParties
               PROVE  A
    BY DEF Commits
  <2>1. /\ committed' = book /\ req.wsol \in book.open
        /\ AmountMoved(book, IF ChargesSol(req) THEN 0 ELSE Fee(req))
    BY Committing DEF AmountConverted
  <2> QED
    BY <2>1 DEF AmountMoved
<1> HIDE DEF A
<1>2. Spec => [][A]_vars
  BY <1>1, WrapInvariance, PTL DEF Spec
<1> QED
  BY <1>2 DEF A, ConvertsAmount

(* ConversionLeavesVault: the vault the fees may pass through has what it  *)
(* had, or more where a fee is its own.                                    *)
THEOREM ConversionLeavesVault == Spec => VaultKeepsItsOwn
<1> DEFINE A == Commits =>
       LET own == {req.commission, req.platform} \cap (SaAccounts \cup {SaAuthority})
       IN  \A a \in SaAccounts \cup {SaAuthority} :
             /\ Holding(committed', a) >= Holding(committed, a)
             /\ own = {} => Holding(committed', a) = Holding(committed, a)
<1>1. WrapInv /\ [Next]_vars => [A]_vars
  <2> SUFFICES ASSUME WrapInv, Next, Commits
               PROVE  A
    BY DEF Commits
  <2>1. committed' = book /\ VaultKept /\ book \in Books /\ committed \in Books
    BY Committing DEF WrapInv, TypeOK
  <2>2. ASSUME NEW a \in SaAccounts \cup {SaAuthority}
        PROVE  /\ Holding(book, a) \in Int /\ Holding(committed, a) \in Int
               /\ Holding(book, a) - Holding(committed, a) >= 0
               /\ {req.commission, req.platform} \cap (SaAccounts \cup {SaAuthority}) = {} =>
                    Holding(book, a) - Holding(committed, a) = 0
    BY <2>1, WrapAccountsAssumption, LedgerAssumption
       DEF VaultKept, Received, Holding, Books, SaAccounts
  <2> QED
    BY <2>1, <2>2
<1> HIDE DEF A
<1>2. Spec => [][A]_vars
  BY <1>1, WrapInvariance, PTL DEF Spec
<1> QED
  BY <1>2 DEF A, VaultKeepsItsOwn

=============================================================================
