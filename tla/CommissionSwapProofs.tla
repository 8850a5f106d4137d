------------------------ MODULE CommissionSwapProofs ------------------------
(***************************************************************************)
(* Proofs about CommissionSwap, for every set of accounts, every request   *)
(* and every rate: whatever execute_swap does within its bounds, and       *)
(* whichever of the vault's accounts a request names, every handler        *)
(* accounts for the vault's, the payer's and everybody else's money.       *)
(***************************************************************************)
EXTENDS CommissionSwap, TLAPS

(* CommissionInv is inductive: each of its accounting parts rests on       *)
(* HandlerInv, which knows which accounts are still open, and on the       *)
(* arithmetic of the amounts.                                              *)

-----------------------------------------------------------------------------
(* Arithmetic.                                                             *)

(* Integer division rounds down.                                           *)
LEMMA Division ==
  ASSUME NEW n \in Nat, NEW d \in Nat \ {0}
  PROVE  /\ n \div d \in Nat
         /\ (n \div d) * d <= n
         /\ n < (n \div d) * d + d
OBVIOUS

(* A product grows with its factors.                                       *)
LEMMA Monotone ==
  ASSUME NEW x \in Nat, NEW y \in Nat, NEW z \in Nat, x <= y
  PROVE  x * z <= y * z /\ z * x <= z * y
OBVIOUS

(* A part of a whole, by a rate up to the denominator.                     *)
LEMMA Part ==
  ASSUME NEW x \in Nat, NEW rate \in Nat, NEW d \in Nat \ {0}, rate <= d
  PROVE  (x * rate) \div d \in 0..x
<1>1. x * rate \in Nat /\ x * rate <= x * d
  BY Monotone
<1> DEFINE q == (x * rate) \div d
<1>2. q \in Nat /\ q * d <= x * rate
  BY <1>1, Division
<1>3. q * d <= x * d
  BY <1>1, <1>2
<1> HIDE DEF q
<1>4. q <= x
  <2> SUFFICES ASSUME q >= x + 1 PROVE FALSE
    BY <1>2
  <2>1. (x + 1) * d <= q * d
    BY <1>2, Monotone
  <2>2. (x + 1) * d = x * d + d
    OBVIOUS
  <2> QED
    BY <1>2, <1>3, <2>1, <2>2
<1> QED
  BY <1>2, <1>4 DEF q

(* A share on top of the net amount: the largest within the rate's part of *)
(* both together.                                                          *)
LEMMA ShareOnTop ==
  ASSUME NEW x \in Nat, NEW rate \in Nat, NEW d \in Nat, rate < d
  PROVE  LET q == (x * rate) \div (d - rate)
         IN  q \in Nat /\ q * d <= rate * (x + q) /\ rate * (x + q) < (q + 1) * d
<1> DEFINE e == d - rate
           q == (x * rate) \div e
<1>1. e \in Nat \ {0} /\ d = e + rate
  OBVIOUS
<1>2. x * rate \in Nat
  OBVIOUS
<1> HIDE DEF e
<1>3. q \in Nat /\ q * e <= x * rate /\ x * rate < q * e + e
  BY <1>1, <1>2, Division
<1> HIDE DEF q
<1>4. q * d = q * e + q * rate
  BY <1>1, <1>3
<1>5. rate * (x + q) = x * rate + q * rate
  BY <1>3
<1>6. (q + 1) * d = q * d + d
  BY <1>3
<1>7. q * e \in Int /\ q * rate \in Int /\ q * d \in Int
  BY <1>1, <1>3
<1>8. q * d <= rate * (x + q) /\ rate * (x + q) < (q + 1) * d
  <2> DEFINE qe == q * e
             qr == q * rate
             xr == x * rate
  <2>1. qe \in Int /\ qr \in Int /\ xr \in Nat
    BY <1>2, <1>7
  <2>2. qe <= xr /\ xr < qe + e
    BY <1>3
  <2>3. qe + qr <= xr + qr /\ xr + qr < qe + qr + d
    <3> HIDE DEF qe, qr, xr
    <3> QED
      BY <1>1, <2>1, <2>2
  <2> QED
    BY <1>4, <1>5, <1>6, <2>3
<1> QED
  BY <1>3, <1>8 DEF q, e

-----------------------------------------------------------------------------
(* Requests.                                                               *)

(* What the versions have in common.                                       *)
LEMMA RequestShape ==
  ASSUME NEW r, IsRequest(r)
  PROVE  /\ r.version \in 0..2
         /\ r.version # 2 => r.platformRate = 0 /\ r.trimRate = 0
         /\ r.bridge => r.version # 2 /\ ~r.dstProgram
         /\ {r.inSol, r.onFrom, r.bridge} \subseteq BOOLEAN
         /\ r.src \in TokenAccounts /\ OwnerOf[r.src] = Payer /\ r.dst \in TokenAccounts
         /\ {r.srcSa, r.dstSa, r.trimAccount} \subseteq TokenAccounts \cup SolAccounts \cup {None}
         /\ r.amountIn \in Nat /\ r.expectOut \in Nat /\ r.minReturn \in Nat
         /\ r.rate \in Nat /\ r.platformRate \in Nat /\ r.trimRate \in Nat
         /\ r.commissionAccount \in TokenAccounts \cup SolAccounts
         /\ ~r.inSol => r.commissionAccount \in TokenAccounts
<1>1. CASE PlainSwap(r)
  BY <1>1 DEF IsRequest, PlainSwap, NoPlatformFee, VaultNamed, NoVault
<1>2. CASE ProxySwap(r) \/ DirectSwap(r)
  BY <1>2 DEF IsRequest, ProxySwap, DirectSwap, NoPlatformFee, VaultNamed, NoVault
<1>3. CASE PlatformFeeSwap(r)
  BY <1>3 DEF IsRequest, PlatformFeeSwap, VaultNamed
<1>4. CASE FromSwap(r) \/ CommissionSolFromSwap(r) \/ CommissionSplFromSwap(r)
  BY <1>4 DEF IsRequest, FromSwap, CommissionSolFromSwap, CommissionSplFromSwap,
              NoPlatformFee, NoVault
<1> QED
  BY <1>1, <1>2, <1>3, <1>4 DEF IsRequest

(* The commission is exact, the platform's part within it.                 *)
LEMMA CommissionShare ==
  ASSUME NEW r, IsRequest(r), RatesAllowed(r), out \in Nat
  PROVE  /\ Amount(r) \in Nat /\ PlatformPart(r) \in 0..Amount(r)
         /\ r.version = 0 => Amount(r) = 0 /\ PlatformPart(r) = 0
         /\ r.version > 0 =>
              LET base == IF r.onFrom THEN r.amountIn + Amount(r) ELSE out
                  D == Denominator[r.version]
              IN  Amount(r) * D <= r.rate * base /\ r.rate * base < (Amount(r) + 1) * D
<1>1. /\ r.version \in 0..2 /\ r.rate \in Nat /\ r.platformRate \in Nat
      /\ r.amountIn \in Nat /\ r.onFrom \in BOOLEAN
  BY RequestShape
<1>2. PLATFORM_FEE_DENOMINATOR \in Nat \ {0} /\ r.platformRate <= PLATFORM_FEE_DENOMINATOR
  BY CommissionRatesAssumption DEF RatesAllowed
<1> DEFINE D == Denominator[r.version]
<1>3. r.version > 0 => D \in Nat /\ r.rate < D
  BY <1>1, CommissionRatesAssumption DEF RatesAllowed
<1>4. CASE r.version = 0
  <2>1. Amount(r) = 0
    BY <1>4 DEF Amount, Commission
  <2>2. PlatformPart(r) \in 0..0
    BY <1>1, <1>2, <2>1, Part DEF PlatformPart
  <2> QED
    BY <1>4, <2>1, <2>2
<1>5. CASE r.version > 0 /\ r.onFrom
  <2>1. Amount(r) = (r.amountIn * r.rate) \div (D - r.rate)
    BY <1>1, <1>5 DEF Amount, Commission
  <2>2. /\ Amount(r) \in Nat /\ Amount(r) * D <= r.rate * (r.amountIn + Amount(r))
        /\ r.rate * (r.amountIn + Amount(r)) < (Amount(r) + 1) * D
    <3>1. D \in Nat /\ r.rate < D /\ r.rate \in Nat /\ r.amountIn \in Nat
      BY <1>1, <1>3, <1>5
    <3> HIDE DEF D
    <3> DEFINE a == Amount(r)
    <3>2. a = (r.amountIn * r.rate) \div (D - r.rate)
      BY <2>1
    <3> HIDE DEF a
    <3>3. a \in Nat /\ a * D <= r.rate * (r.amountIn + a) /\ r.rate * (r.amountIn + a) < (a + 1) * D
      BY <3>1, <3>2, ShareOnTop
    <3> QED
      BY <3>3 DEF a
  <2>3. PlatformPart(r) \in 0..Amount(r)
    BY <1>1, <1>2, <2>2, Part DEF PlatformPart
  <2> QED
    BY <1>5, <2>2, <2>3
<1>6. CASE r.version > 0 /\ ~r.onFrom
  <2> DEFINE q == (out * r.rate) \div D
  <2>1. Amount(r) = q
    BY <1>1, <1>6 DEF Amount, Commission
  <2>2. D \in Nat \ {0} /\ r.rate < D
    BY <1>1, <1>3, <1>6
  <2>3. out * r.rate \in Nat /\ out * r.rate = r.rate * out
    BY <1>1
  <2>4. q \in Nat /\ q * D <= r.rate * out /\ r.rate * out < q * D + D
    <3> HIDE DEF D
    <3> QED
      BY <2>2, <2>3, Division
  <2>5. (q + 1) * D = q * D + D
    <3> HIDE DEF D, q
    <3> QED
      BY <2>2, <2>4
  <2>6. PlatformPart(r) \in 0..Amount(r)
    BY <1>1, <1>2, <2>1, <2>4, Part DEF PlatformPart
  <2> HIDE DEF q
  <2> QED
    BY <1>6, <2>1, <2>4, <2>5, <2>6
<1> QED
  BY <1>1, <1>4, <1>5, <1>6

(* A trim takes no more than the surplus, and nothing without a rate.      *)
LEMMA TrimShare ==
  ASSUME NEW r, IsRequest(r), out \in Nat, Amount(r) \in Nat
  PROVE  /\ TrimAmount(r) \in Nat
         /\ r.trimRate = 0 => TrimAmount(r) = 0
         /\ TrimAmount(r) > 0 =>
              out - (IF r.onFrom THEN 0 ELSE Amount(r)) - TrimAmount(r) >= r.expectOut
<1>1. r.trimRate \in Nat /\ r.expectOut \in Nat
  BY RequestShape
<1>2. TRIM_DENOMINATOR \in Nat \ {0}
  BY CommissionRatesAssumption
<1> DEFINE limit == (out * r.trimRate) \div TRIM_DENOMINATOR
<1>3. out * r.trimRate \in Nat /\ (r.trimRate = 0 => out * r.trimRate = 0)
  BY <1>1
<1>4. limit \in Nat /\ (r.trimRate = 0 => limit = 0)
  BY <1>2, <1>3, Division
<1>5. TrimAmount(r) = IF r.trimAccount = None THEN 0
                      ELSE IF Surplus(r) < limit THEN Surplus(r) ELSE limit
  BY DEF TrimAmount
<1> HIDE DEF limit
<1>6. /\ Surplus(r) \in Nat
      /\ Surplus(r) > 0 =>
           Surplus(r) = out - (IF r.onFrom THEN 0 ELSE Amount(r)) - r.expectOut
  BY <1>1 DEF Surplus
<1> QED
  BY <1>1, <1>4, <1>5, <1>6

-----------------------------------------------------------------------------
(* Money.                                                                  *)

(* What account a gets of an amount that goes to one account.              *)
At(a, to, x) == IF a = to THEN x ELSE 0

(* A payment in tokens moves x from one account to the other.              *)
LEMMA PayTokensEffect ==
  ASSUME NEW b \in Books, NEW from, NEW to, NEW x \in Nat,
         x > 0 => from \in TokenAccounts /\ b.tok[from] >= x
  PROVE  LET n == PayTokens(b, from, to, x)
         IN  /\ n \in Books /\ n.sol = b.sol /\ n.open = b.open /\ n.excess = b.excess
             /\ \A a \in TokenAccounts :
                  n.tok[a] = b.tok[a] - At(a, from, x) + At(a, to, x)
<1>1. CASE x = 0
  BY <1>1 DEF PayTokens, Books, At
<1>2. CASE x # 0
  <2> DEFINE tok == [a \in TokenAccounts |->
                b.tok[a] - (IF a = from THEN x ELSE 0) + (IF a = to THEN x ELSE 0)]
  <2>1. PayTokens(b, from, to, x) = [b EXCEPT !.tok = tok]
    BY <1>2 DEF PayTokens
  <2>2. tok \in [TokenAccounts -> Nat]
    <3>1. b.tok \in [TokenAccounts -> Nat] /\ b.tok[from] >= x
      BY <1>2 DEF Books
    <3> QED
      BY <3>1
  <2> HIDE DEF tok
  <2>3. LET n == [b EXCEPT !.tok = tok]
        IN  /\ n \in Books /\ n.tok = tok
            /\ n.sol = b.sol /\ n.open = b.open /\ n.excess = b.excess
    BY <2>2 DEF Books
  <2> QED
    BY <2>1, <2>3 DEF tok, At
<1> QED
  BY <1>1, <1>2

(* A payment in SOL moves x to a wallet, or to where a token account keeps *)
(* what is not synced.                                                     *)
LEMMA PaySolEffect ==
  ASSUME NEW b \in Books, NEW from \in SolAccounts, NEW to, NEW x \in Nat,
         b.sol[from] >= x
  PROVE  LET n == PaySol(b, from, to, x)
         IN  /\ n \in Books /\ n.tok = b.tok /\ n.open = b.open
             /\ \A a \in SolAccounts :
                  n.sol[a] = b.sol[a] - At(a, from, x) + At(a, to, x)
             /\ \A a \in TokenAccounts : n.excess[a] = b.excess[a] + At(a, to, x)
<1>1. CASE x = 0
  BY <1>1 DEF PaySol, Books, At
<1>2. CASE x # 0
  <2> DEFINE sol == [a \in SolAccounts |->
                b.sol[a] - (IF a = from THEN x ELSE 0) + (IF a = to THEN x ELSE 0)]
             excess == [a \in TokenAccounts |-> b.excess[a] + (IF a = to THEN x ELSE 0)]
  <2>1. PaySol(b, from, to, x) = [b EXCEPT !.sol = sol, !.excess = excess]
    BY <1>2 DEF PaySol
  <2>2. sol \in [SolAccounts -> Nat]
    BY DEF Books
  <2>3. excess \in [TokenAccounts -> Nat]
    BY DEF Books
  <2> HIDE DEF sol, excess
  <2>4. /\ [b EXCEPT !.sol = sol, !.excess = excess] \in Books
        /\ [b EXCEPT !.sol = sol, !.excess = excess].sol = sol
        /\ [b EXCEPT !.sol = sol, !.excess = excess].excess = excess
        /\ [b EXCEPT !.sol = sol, !.excess = excess].tok = b.tok
        /\ [b EXCEPT !.sol = sol, !.excess = excess].open = b.open
    BY <2>2, <2>3 DEF Books
  <2> QED
    BY <2>1, <2>4 DEF sol, excess, At
<1> QED
  BY <1>1, <1>2

(* Closing an account gives all of it to its owner.                        *)
LEMMA ClosedEffect ==
  ASSUME NEW b \in Books, NEW d \in TokenAccounts, NEW to \in SolAccounts
  PROVE  LET n == Closed(b, d, to)
         IN  /\ n \in Books /\ n.open = b.open \ {d}
             /\ \A a \in TokenAccounts :
                  /\ n.tok[a] = IF a = d THEN 0 ELSE b.tok[a]
                  /\ n.excess[a] = IF a = d THEN 0 ELSE b.excess[a]
             /\ \A a \in SolAccounts :
                  n.sol[a] =
                    b.sol[a] + At(a, to, b.tok[d] + b.excess[d] + TOKEN_ACCOUNT_RENT)
<1> DEFINE tok == [b.tok EXCEPT ![d] = 0]
           excess == [b.excess EXCEPT ![d] = 0]
           open == b.open \ {d}
           sol == [b.sol EXCEPT ![to] = @ + b.tok[d] + b.excess[d] + TOKEN_ACCOUNT_RENT]
<1>1. Closed(b, d, to) = [b EXCEPT !.tok = tok, !.excess = excess, !.open = open, !.sol = sol]
  BY DEF Closed, Books
<1>2. /\ tok \in [TokenAccounts -> Nat] /\ excess \in [TokenAccounts -> Nat]
      /\ sol \in [SolAccounts -> Nat] /\ open \in SUBSET TokenAccounts
  BY LedgerAssumption DEF Books
<1>3. /\ \A a \in TokenAccounts : tok[a] = (IF a = d THEN 0 ELSE b.tok[a])
      /\ \A a \in TokenAccounts : excess[a] = (IF a = d THEN 0 ELSE b.excess[a])
      /\ \A a \in SolAccounts :
           sol[a] = b.sol[a] + At(a, to, b.tok[d] + b.excess[d] + TOKEN_ACCOUNT_RENT)
  BY LedgerAssumption DEF Books, At
<1>4. open = b.open \ {d}
  OBVIOUS
<1> HIDE DEF tok, excess, open, sol
<1>5. LET n == [b EXCEPT !.tok = tok, !.excess = excess, !.open = open, !.sol = sol]
      IN  /\ n \in Books /\ n.tok = tok /\ n.excess = excess /\ n.open = open /\ n.sol = sol
  BY <1>2 DEF Books
<1> QED
  BY <1>1, <1>3, <1>4, <1>5

(* The accounts of the vault are token accounts of somebody else.          *)
LEMMA VaultApart ==
  ASSUME NEW a \in SaAccounts
  PROVE  /\ a \in TokenAccounts /\ a \notin SolAccounts /\ a # None
         /\ OwnerOf[a] = SaAuthority /\ OwnerOf[a] # Payer
  BY LedgerAssumption, CommissionAccountsAssumption DEF SaAccounts

-----------------------------------------------------------------------------
(* What the steps do to the book.                                          *)

(* The pull into the vault.                                                *)
LEMMA BeginEffect ==
  ASSUME TypeOK, HandlerInv, NEW r \in Requests, Begin(r)
  PROVE  /\ IsRequest(r) /\ req' = r /\ pc' = "swap" /\ Loaded(r) \subseteq book.open
         /\ committed' = committed /\ committed = book /\ commits' = commits
         /\ spent' = 0 /\ swapped' = 0 /\ out' = 0
         /\ PullsIn(r) => r.srcSa \in SaAccounts
         /\ book' \in Books /\ book'.sol = committed.sol /\ book'.open = committed.open
         /\ book'.excess = committed.excess
         /\ \A a \in TokenAccounts :
              book'.tok[a] = committed.tok[a]
                - (IF PullsIn(r) /\ a = r.src THEN r.amountIn ELSE 0)
                + (IF PullsIn(r) /\ a = r.srcSa THEN r.amountIn ELSE 0)
<1>1. /\ IsRequest(r) /\ req' = r /\ pc' = "swap" /\ Loaded(r) \subseteq book.open
      /\ committed' = committed /\ committed = book /\ commits' = commits
      /\ spent' = 0 /\ swapped' = 0 /\ out' = 0 /\ book \in Books
      /\ PullsIn(r) => r.srcSa \in SaAccounts
  BY CommissionRequestsAssumption DEF Begin, TypeOK, HandlerInv, IsVaultAccount
<1>2. r.amountIn \in Nat /\ r.src \in TokenAccounts
  BY <1>1, RequestShape
<1>3. CASE PullsIn(r)
  <2>1. r.amountIn > 0 => book.tok[r.src] >= r.amountIn
    BY <1>3 DEF Begin, TokenPayable
  <2>2. book' = PayTokens(book, r.src, r.srcSa, r.amountIn)
    BY <1>3 DEF Begin
  <2> QED
    BY <1>1, <1>2, <1>3, <2>1, <2>2, PayTokensEffect DEF At
<1>4. CASE ~PullsIn(r)
  BY <1>1, <1>4 DEF Begin, Books
<1> QED
  BY <1>3, <1>4

(* The swap: on a round trip only the difference shows.                    *)
LEMMA SwapEffect ==
  ASSUME TypeOK, HandlerInv, ExecuteSwap
  PROVE  LET from == SwapSource(req)
             to == SwapDestination(req)
         IN  /\ pc = "swap" /\ pc' = "after" /\ UNCHANGED <<committed, req, commits>>
             /\ req.srcSa # None => ThroughSource(req)
             /\ spent' \in 0..req.amountIn /\ out' \in Nat /\ swapped' = out'
             /\ book' \in Books /\ book'.sol = book.sol /\ book'.open = book.open
             /\ book'.excess = book.excess
             /\ \A a \in TokenAccounts :
                  book'.tok[a] = book.tok[a]
                    - (IF a = from /\ from # to THEN spent' ELSE 0)
                    + (IF a = to THEN out' ELSE 0)
<1> DEFINE from == SwapSource(req)
           to == SwapDestination(req)
<1>1. IsRequest(req) /\ book \in Books /\ book.tok \in [TokenAccounts -> Nat]
  BY DEF TypeOK, ExecuteSwap, Books
<1>2. from \in TokenAccounts /\ to \in TokenAccounts /\ req.amountIn \in Nat
  <2>1. Loaded(req) \subseteq TokenAccounts /\ (PullsIn(req) => req.srcSa \in SaAccounts)
    BY DEF TypeOK, HandlerInv, ExecuteSwap, Books
  <2>2. ThroughSource(req) => PullsIn(req)
    BY DEF ThroughSource, PullsIn
  <2> QED
    BY <1>1, <2>1, <2>2, RequestShape, VaultApart DEF SwapSource, SwapDestination, Loaded
<1>3. PICK taken \in 0..req.amountIn, got \in 0..MaxOut :
        LET after == [book.tok EXCEPT ![from] = @ - taken]
        IN  /\ taken <= book.tok[from]
            /\ after[to] + got >= book.tok[to]
            /\ book' = [book EXCEPT !.tok = [after EXCEPT ![to] = @ + got]]
            /\ spent' = taken
            /\ swapped' = after[to] + got - book.tok[to]
            /\ out' = swapped'
  BY DEF ExecuteSwap
<1> DEFINE after == [book.tok EXCEPT ![from] = @ - taken]
           tok == [after EXCEPT ![to] = @ + got]
<1> HIDE DEF from, to
<1>4. taken \in Nat /\ got \in Nat
  BY <1>2, CommissionRatesAssumption
<1>5. after \in [TokenAccounts -> Nat] /\ after[to] = book.tok[to] - (IF from = to THEN taken ELSE 0)
  BY <1>1, <1>2, <1>3, <1>4
<1>6. tok \in [TokenAccounts -> Nat]
  <2> HIDE DEF after
  <2> QED
    BY <1>2, <1>4, <1>5
<1>7. spent' = taken /\ out' = after[to] + got - book.tok[to] /\ out' \in Nat /\ swapped' = out'
  BY <1>1, <1>2, <1>3, <1>4, <1>5
<1>8. \A a \in TokenAccounts :
        tok[a] = book.tok[a] - (IF a = from /\ from # to THEN spent' ELSE 0)
                             + (IF a = to THEN out' ELSE 0)
  BY <1>1, <1>2, <1>3, <1>4, <1>5, <1>7
<1>9. book' = [book EXCEPT !.tok = tok]
  BY <1>3
<1> HIDE DEF tok, after
<1>10. LET n == [book EXCEPT !.tok = tok]
       IN  /\ n \in Books /\ n.tok = tok
           /\ n.sol = book.sol /\ n.open = book.open /\ n.excess = book.excess
  BY <1>1, <1>6 DEF Books
<1>11. /\ pc = "swap" /\ pc' = "after" /\ UNCHANGED <<committed, req, commits>>
       /\ req.srcSa # None => ThroughSource(req)
  BY DEF ExecuteSwap
<1> QED
  BY <1>3, <1>7, <1>8, <1>9, <1>10, <1>11 DEF from, to

(* The output leaves the vault; amount_out is what the destination gained. *)
LEMMA FinishSwapEffect ==
  ASSUME TypeOK, FinishSwap
  PROVE  /\ pc = "after" /\ UNCHANGED <<committed, req, spent, swapped, commits>>
         /\ HandsOver(req) => req.dstSa \in SaAccounts \cap book.open
         /\ out' \in Nat /\ out' = book'.tok[req.dst] - committed.tok[req.dst]
         /\ pc' = AfterSwap
         /\ book' \in Books /\ book'.sol = book.sol /\ book'.open = book.open
         /\ book'.excess = book.excess
         /\ \A a \in TokenAccounts :
              book'.tok[a] = book.tok[a]
                - (IF HandsOver(req) /\ a = req.dstSa THEN out ELSE 0)
                + (IF HandsOver(req) /\ a = req.dst THEN out ELSE 0)
<1>1. /\ pc = "after" /\ UNCHANGED <<committed, req, spent, swapped, commits>>
      /\ HandsOver(req) => req.dstSa \in SaAccounts \cap book.open
      /\ out' = book'.tok[req.dst] - committed.tok[req.dst] /\ pc' = AfterSwap
      /\ book'.tok[req.dst] >= committed.tok[req.dst] + req.minReturn
  BY DEF FinishSwap, IsVaultAccount
<1>2. /\ IsRequest(req) /\ book \in Books /\ committed \in Books /\ out \in Nat
  BY <1>1 DEF TypeOK
<1>3. req.dst \in TokenAccounts /\ req.minReturn \in Nat
  BY <1>2, RequestShape
<1>4. /\ book' \in Books /\ book'.sol = book.sol /\ book'.open = book.open
      /\ book'.excess = book.excess
      /\ \A a \in TokenAccounts :
           book'.tok[a] = book.tok[a]
             - (IF HandsOver(req) /\ a = req.dstSa THEN out ELSE 0)
             + (IF HandsOver(req) /\ a = req.dst THEN out ELSE 0)
  <2>1. CASE HandsOver(req)
    <3>1. book' = PayTokens(book, req.dstSa, req.dst, out)
      BY <2>1 DEF FinishSwap, HandedOver
    <3>2. out > 0 => book.tok[req.dstSa] >= out
      BY <2>1 DEF FinishSwap, HandedOver, TokenPayable
    <3>3. req.dstSa \in TokenAccounts
      BY <1>1, <2>1, VaultApart
    <3> QED
      BY <1>2, <1>3, <2>1, <3>1, <3>2, <3>3, PayTokensEffect DEF At
  <2>2. CASE ~HandsOver(req)
    BY <1>2, <2>2 DEF FinishSwap, Books
  <2> QED
    BY <2>1, <2>2
<1>5. out' \in Nat
  <2>1. book'.tok[req.dst] \in Nat /\ committed.tok[req.dst] \in Nat
    BY <1>2, <1>3, <1>4 DEF Books
  <2> QED
    BY <1>1, <1>3, <2>1
<1> QED
  BY <1>1, <1>4, <1>5

(* Two payments of A, P to account pa and then the rest to account ca.     *)
FirstInSol(b, payer, pa, P) == IF P = 0 THEN b ELSE PaySol(b, payer, pa, P)
FirstInTokens(b, c, pa, P) == IF P = 0 THEN b ELSE PayTokens(b, c, pa, P)

TwoInSol(b, payer, A, pa, P, ca) ==
  PaySol(FirstInSol(b, payer, pa, P), payer, ca, A - P)
TwoInTokens(b, c, A, pa, P, ca) ==
  PayTokens(FirstInTokens(b, c, pa, P), c, ca, A - P)

(* What they make of book b.                                               *)
PaidInSol(b, n, payer, A, pa, P, ca) ==
  /\ n \in Books /\ n.tok = b.tok /\ n.open = b.open
  /\ \A a \in SolAccounts :
       n.sol[a] = b.sol[a] - At(a, payer, A) + At(a, pa, P) + At(a, ca, A - P)
  /\ \A a \in TokenAccounts : n.excess[a] = b.excess[a] + At(a, pa, P) + At(a, ca, A - P)
PaidInTokens(b, n, c, A, pa, P, ca) ==
  /\ n \in Books /\ n.sol = b.sol /\ n.open = b.open /\ n.excess = b.excess
  /\ \A a \in TokenAccounts :
       n.tok[a] = b.tok[a] - At(a, c, A) + At(a, pa, P) + At(a, ca, A - P)

(* In SOL, each while the payer has it.                                    *)
LEMMA TwoInSolEffect ==
  ASSUME NEW b \in Books, NEW payer \in SolAccounts, NEW pa, NEW ca,
         NEW A \in Nat, NEW P \in 0..A,
         P > 0 => b.sol[payer] >= P,
         A - P > 0 => FirstInSol(b, payer, pa, P).sol[payer] >= A - P
  PROVE  PaidInSol(b, TwoInSol(b, payer, A, pa, P, ca), payer, A, pa, P, ca)
<1> DEFINE Q == A - P
           m == FirstInSol(b, payer, pa, P)
           n == PaySol(m, payer, ca, Q)
<1>0. P \in Nat /\ Q \in Nat /\ A = P + Q
  OBVIOUS
<1>0a. Q > 0 => m.sol[payer] >= Q
  OBVIOUS
<1> HIDE DEF Q
<1>1. b.sol \in [SolAccounts -> Nat] /\ b.excess \in [TokenAccounts -> Nat]
  BY DEF Books
<1>2. /\ m \in Books /\ m.tok = b.tok /\ m.open = b.open
      /\ \A a \in SolAccounts : m.sol[a] = b.sol[a] - At(a, payer, P) + At(a, pa, P)
      /\ \A a \in TokenAccounts : m.excess[a] = b.excess[a] + At(a, pa, P)
  <2>1. CASE P = 0
    <3>1. m = b /\ \A a, to : At(a, to, P) = 0
      BY <2>1 DEF At, FirstInSol
    <3> HIDE DEF m
    <3> QED
      BY <1>1, <3>1
  <2>2. CASE P # 0
    <3>1. m = PaySol(b, payer, pa, P) /\ b.sol[payer] >= P
      BY <1>0, <1>1, <2>2 DEF FirstInSol
    <3> HIDE DEF m
    <3> QED
      BY <1>0, <3>1, PaySolEffect
  <2> QED
    BY <2>1, <2>2
<1> HIDE DEF m
<1>3. m.sol[payer] >= Q
  BY <1>0, <1>0a, <1>2 DEF Books
<1>4. /\ n \in Books /\ n.tok = m.tok /\ n.open = m.open
      /\ \A a \in SolAccounts : n.sol[a] = m.sol[a] - At(a, payer, Q) + At(a, ca, Q)
      /\ \A a \in TokenAccounts : n.excess[a] = m.excess[a] + At(a, ca, Q)
  BY <1>0, <1>2, <1>3, PaySolEffect
<1> HIDE DEF n
<1>5. ASSUME NEW a \in SolAccounts
      PROVE  n.sol[a] = b.sol[a] - At(a, payer, A) + At(a, pa, P) + At(a, ca, Q)
  <2>1. b.sol[a] \in Nat /\ m.sol[a] = b.sol[a] - At(a, payer, P) + At(a, pa, P)
    BY <1>1, <1>2
  <2>2. n.sol[a] = m.sol[a] - At(a, payer, Q) + At(a, ca, Q)
    BY <1>4
  <2> QED
    BY <1>0, <2>1, <2>2 DEF At
<1>6. ASSUME NEW a \in TokenAccounts
      PROVE  n.excess[a] = b.excess[a] + At(a, pa, P) + At(a, ca, Q)
  BY <1>2, <1>4
<1> QED
  BY <1>2, <1>4, <1>5, <1>6 DEF Q, m, n, TwoInSol, PaidInSol

(* In tokens, each while the charged account has it.                       *)
LEMMA TwoInTokensEffect ==
  ASSUME NEW b \in Books, NEW c \in TokenAccounts, NEW pa, NEW ca,
         NEW A \in Nat, NEW P \in 0..A,
         P > 0 => b.tok[c] >= P,
         A - P > 0 => FirstInTokens(b, c, pa, P).tok[c] >= A - P
  PROVE  PaidInTokens(b, TwoInTokens(b, c, A, pa, P, ca), c, A, pa, P, ca)
<1> DEFINE Q == A - P
           m == FirstInTokens(b, c, pa, P)
           n == PayTokens(m, c, ca, Q)
<1>0. P \in Nat /\ Q \in Nat /\ A = P + Q
  OBVIOUS
<1>0a. Q > 0 => m.tok[c] >= Q
  OBVIOUS
<1> HIDE DEF Q
<1>1. b.tok \in [TokenAccounts -> Nat]
  BY DEF Books
<1>2. /\ m \in Books /\ m.sol = b.sol /\ m.open = b.open /\ m.excess = b.excess
      /\ \A a \in TokenAccounts : m.tok[a] = b.tok[a] - At(a, c, P) + At(a, pa, P)
  <2>1. CASE P = 0
    <3>1. m = b /\ \A a, to : At(a, to, P) = 0
      BY <2>1 DEF At, FirstInTokens
    <3> HIDE DEF m
    <3> QED
      BY <1>1, <3>1
  <2>2. CASE P # 0
    <3>1. m = PayTokens(b, c, pa, P) /\ b.tok[c] >= P
      BY <1>0, <1>1, <2>2 DEF FirstInTokens
    <3> HIDE DEF m
    <3> QED
      BY <1>0, <3>1, PayTokensEffect
  <2> QED
    BY <2>1, <2>2
<1> HIDE DEF m
<1>4. /\ n \in Books /\ n.sol = m.sol /\ n.open = m.open /\ n.excess = m.excess
      /\ \A a \in TokenAccounts : n.tok[a] = m.tok[a] - At(a, c, Q) + At(a, ca, Q)
  BY <1>0, <1>0a, <1>2, PayTokensEffect
<1> HIDE DEF n
<1>5. ASSUME NEW a \in TokenAccounts
      PROVE  n.tok[a] = b.tok[a] - At(a, c, A) + At(a, pa, P) + At(a, ca, Q)
  <2>1. b.tok[a] \in Nat /\ m.tok[a] = b.tok[a] - At(a, c, P) + At(a, pa, P)
    BY <1>1, <1>2
  <2>2. n.tok[a] = m.tok[a] - At(a, c, Q) + At(a, ca, Q)
    BY <1>4
  <2> QED
    BY <1>0, <2>1, <2>2 DEF At
<1> QED
  BY <1>2, <1>4, <1>5 DEF Q, m, n, TwoInTokens, PaidInTokens

(* The commission, the platform's part of it first.                        *)
LEMMA SplitInSol ==
  ASSUME NEW b \in Books, req.inSol,
         Amount(req) \in Nat, PlatformPart(req) \in 0..Amount(req), CanSplit(b)
  PROVE  /\ PaidInSol(b, Split(b), Payer, Amount(req),
                      PlatformAccount(req), PlatformPart(req), req.commissionAccount)
         /\ PlatformPart(req) > 0 => PlatformAccount(req) \in SolAccounts \cup b.open
<1> DEFINE A == Amount(req)
           P == PlatformPart(req)
           pa == PlatformAccount(req)
           ca == req.commissionAccount
<1>1. A \in Nat /\ P \in 0..A /\ Payer \in SolAccounts
  BY CommissionAccountsAssumption
<1>2. /\ Split(b) = TwoInSol(b, Payer, A, pa, P, ca)
      /\ PlatformPaid(b) = FirstInSol(b, Payer, pa, P)
  BY DEF TwoInSol, FirstInSol, Split, PlatformPaid, Paid
<1>3. /\ P > 0 => b.sol[Payer] >= P /\ pa \in SolAccounts \cup b.open
      /\ A - P > 0 => PlatformPaid(b).sol[Payer] >= A - P
  BY DEF CanSplit, Payable, SolPayable
<1> HIDE DEF A, P, pa, ca
<1>4. PaidInSol(b, TwoInSol(b, Payer, A, pa, P, ca), Payer, A, pa, P, ca)
  BY <1>1, <1>2, <1>3, TwoInSolEffect
<1> QED
  BY <1>2, <1>3, <1>4 DEF A, P, pa, ca

LEMMA SplitInTokens ==
  ASSUME NEW b \in Books, ~req.inSol,
         Amount(req) \in Nat, PlatformPart(req) \in 0..Amount(req),
         ChargedAccount(req) \in TokenAccounts, CanSplit(b)
  PROVE  /\ PaidInTokens(b, Split(b), ChargedAccount(req), Amount(req),
                         PlatformAccount(req), PlatformPart(req), req.commissionAccount)
         /\ PlatformPart(req) > 0 => PlatformAccount(req) \in b.open
<1> DEFINE A == Amount(req)
           P == PlatformPart(req)
           c == ChargedAccount(req)
           pa == PlatformAccount(req)
           ca == req.commissionAccount
<1>1. A \in Nat /\ P \in 0..A /\ c \in TokenAccounts
  OBVIOUS
<1>2. /\ Split(b) = TwoInTokens(b, c, A, pa, P, ca)
      /\ PlatformPaid(b) = FirstInTokens(b, c, pa, P)
  BY DEF TwoInTokens, FirstInTokens, Split, PlatformPaid, Paid
<1>3. /\ P > 0 => b.tok[c] >= P /\ pa \in b.open
      /\ A - P > 0 => PlatformPaid(b).tok[c] >= A - P
  BY DEF CanSplit, Payable, TokenPayable
<1> HIDE DEF A, P, c, pa, ca
<1>4. PaidInTokens(b, TwoInTokens(b, c, A, pa, P, ca), c, A, pa, P, ca)
  BY <1>1, <1>2, <1>3, TwoInTokensEffect
<1> QED
  BY <1>2, <1>3, <1>4 DEF A, P, c, pa, ca

(* What unwrapping the destination frees.                                  *)
Freed ==
  IF ClosesDestination(req) THEN Have(book, req.dst) + TOKEN_ACCOUNT_RENT ELSE 0
Closing == IF ClosesDestination(req) THEN {req.dst} ELSE {}

LEMMA UnwrappedEffect ==
  ASSUME book \in Books, req.dst \in TokenAccounts
  PROVE  LET u == Unwrapped(book)
         IN  /\ u \in Books /\ u.open = book.open \ Closing /\ Freed \in Nat
             /\ \A a \in TokenAccounts : a \in Closing => u.tok[a] = 0 /\ u.excess[a] = 0
             /\ \A a \in TokenAccounts :
                  a \notin Closing => u.tok[a] = book.tok[a] /\ u.excess[a] = book.excess[a]
             /\ \A a \in SolAccounts : u.sol[a] = book.sol[a] + At(a, Payer, Freed)
<1>1. Payer \in SolAccounts /\ TOKEN_ACCOUNT_RENT \in Nat
  BY CommissionAccountsAssumption, LedgerAssumption
<1>2. CASE ClosesDestination(req)
  <2>1. /\ Unwrapped(book) = Closed(book, req.dst, Payer) /\ Closing = {req.dst}
        /\ Freed = book.tok[req.dst] + book.excess[req.dst] + TOKEN_ACCOUNT_RENT
    BY <1>2 DEF Unwrapped, Closing, Freed, Have
  <2>2. Freed \in Nat
    BY <1>1, <2>1 DEF Books
  <2> DEFINE u == Unwrapped(book)
  <2>3. /\ u \in Books /\ u.open = book.open \ {req.dst}
        /\ \A a \in TokenAccounts :
             /\ u.tok[a] = IF a = req.dst THEN 0 ELSE book.tok[a]
             /\ u.excess[a] = IF a = req.dst THEN 0 ELSE book.excess[a]
        /\ \A a \in SolAccounts : u.sol[a] = book.sol[a] + At(a, Payer, Freed)
    BY <1>1, <2>1, ClosedEffect
  <2> HIDE DEF u
  <2>4. /\ \A a \in TokenAccounts : a \in Closing => u.tok[a] = 0 /\ u.excess[a] = 0
        /\ \A a \in TokenAccounts :
             a \notin Closing => u.tok[a] = book.tok[a] /\ u.excess[a] = book.excess[a]
    BY <2>1, <2>3
  <2> QED
    BY <2>1, <2>2, <2>3, <2>4 DEF u
<1>3. CASE ~ClosesDestination(req)
  <2>1. Unwrapped(book) = book /\ Closing = {} /\ Freed = 0
    BY <1>3 DEF Unwrapped, Closing, Freed
  <2>2. \A a \in SolAccounts : book.sol[a] = book.sol[a] + At(a, Payer, 0)
    BY DEF Books, At
  <2> QED
    BY <2>1, <2>2
<1> QED
  BY <1>2, <1>3

(* What both commissions have in common.                                   *)
LEMMA CommissionCommon ==
  ASSUME TypeOK, HandlerInv, CommissionSol \/ CommissionToken
  PROVE  /\ pc = "commission" /\ pc' = AfterCommission /\ req.version > 0
         /\ UNCHANGED <<committed, req, spent, swapped, out, commits>>
         /\ IsRequest(req) /\ RatesAllowed(req) /\ book \in Books
         /\ Amount(req) \in Nat /\ PlatformPart(req) \in 0..Amount(req)
         /\ PlatformPart(req) > 0 => req.platformRate > 0
<1>1. /\ pc = "commission" /\ pc' = AfterCommission
      /\ UNCHANGED <<committed, req, spent, swapped, out, commits>> /\ RatesAllowed(req)
  BY DEF CommissionSol, CommissionToken
<1>2. IsRequest(req) /\ book \in Books /\ out \in Nat /\ req.version > 0
  BY <1>1 DEF TypeOK, HandlerInv
<1>3. Amount(req) \in Nat /\ PlatformPart(req) \in 0..Amount(req)
  BY <1>1, <1>2, CommissionShare
<1>4. PlatformPart(req) > 0 => req.platformRate > 0
  <2> SUFFICES ASSUME req.platformRate = 0 PROVE PlatformPart(req) = 0
    BY <1>2, <1>3, RequestShape
  <2>1. Amount(req) * req.platformRate = 0
    BY <1>3
  <2> QED
    BY <2>1, CommissionRatesAssumption DEF PlatformPart
<1> QED
  BY <1>1, <1>2, <1>3, <1>4

LEMMA CommissionSolEffect ==
  ASSUME TypeOK, HandlerInv, CommissionSol
  PROVE  /\ req.inSol /\ MintOf[IF req.onFrom THEN req.src ELSE req.dst] = Wsol
         /\ ClosesDestination(req) => OwnerOf[req.dst] = Payer
         /\ PaidInSol(Unwrapped(book), book', Payer, Amount(req),
                      PlatformAccount(req), PlatformPart(req), req.commissionAccount)
         /\ PlatformPart(req) > 0 => PlatformAccount(req) \in SolAccounts \cup book.open
<1>1. Unwrapped(book) \in Books /\ Unwrapped(book).open \subseteq book.open
  BY CommissionCommon, UnwrappedEffect, RequestShape
<1>2. book' = Split(Unwrapped(book)) /\ CanSplit(Unwrapped(book)) /\ req.inSol
  BY DEF CommissionSol
<1>3. /\ PaidInSol(Unwrapped(book), book', Payer, Amount(req),
                   PlatformAccount(req), PlatformPart(req), req.commissionAccount)
      /\ PlatformPart(req) > 0 => PlatformAccount(req) \in SolAccounts \cup Unwrapped(book).open
  BY <1>1, <1>2, CommissionCommon, SplitInSol
<1> QED
  BY <1>1, <1>3 DEF CommissionSol

LEMMA CommissionTokenEffect ==
  ASSUME TypeOK, HandlerInv, CommissionToken
  PROVE  /\ ~req.inSol /\ (Amount(req) > 0 => OwnerOf[ChargedAccount(req)] = Payer)
         /\ ChargedAccount(req) \in TokenAccounts
         /\ PaidInTokens(book, book', ChargedAccount(req), Amount(req),
                         PlatformAccount(req), PlatformPart(req), req.commissionAccount)
         /\ PlatformPart(req) > 0 => PlatformAccount(req) \in book.open
<1>1. /\ book' = Split(book) /\ CanSplit(book) /\ ~req.inSol
      /\ Amount(req) > 0 => OwnerOf[ChargedAccount(req)] = Payer
  BY DEF CommissionToken
<1>2. ChargedAccount(req) \in TokenAccounts
  BY CommissionCommon, RequestShape DEF ChargedAccount
<1> QED
  BY <1>1, <1>2, CommissionCommon, SplitInTokens

(* The trim, out of the payer's SOL or out of the destination.             *)
LEMMA TrimEffect ==
  ASSUME TypeOK, HandlerInv, Trim
  PROVE  LET x == TrimAmount(req)
             from == IF TrimInSol(req) THEN Payer ELSE req.dst
         IN  /\ pc = "trim" /\ pc' = "done" /\ ~req.bridge
             /\ UNCHANGED <<committed, req, spent, swapped, out, commits>>
             /\ IsRequest(req) /\ x \in Nat /\ book' \in Books /\ book'.open = book.open
             /\ \A a \in SolAccounts : TrimInSol(req) =>
                  book'.sol[a] = book.sol[a] - At(a, Payer, x) + At(a, req.trimAccount, x)
             /\ \A a \in TokenAccounts : TrimInSol(req) =>
                  book'.excess[a] = book.excess[a] + At(a, req.trimAccount, x)
             /\ TrimInSol(req) => book'.tok = book.tok
             /\ ~TrimInSol(req) => book'.sol = book.sol /\ book'.excess = book.excess
             /\ ~TrimInSol(req) /\ x > 0 => OwnerOf[req.dst] = Payer /\ req.dst \in book.open
             /\ \A a \in TokenAccounts : ~TrimInSol(req) =>
                  book'.tok[a] = book.tok[a] - At(a, req.dst, x) + At(a, req.trimAccount, x)
<1> DEFINE x == TrimAmount(req)
<1>1. /\ pc = "trim" /\ pc' = "done" /\ UNCHANGED <<committed, req, spent, swapped, out, commits>>
      /\ ~req.bridge /\ IsRequest(req) /\ book \in Books /\ RatesAllowed(req) /\ out \in Nat
  BY DEF Trim, TypeOK, HandlerInv, Settled
<1>2. req.dst \in TokenAccounts /\ Payer \in SolAccounts
  BY <1>1, RequestShape, CommissionAccountsAssumption
<1>3. x \in Nat
  BY <1>1, CommissionShare, TrimShare
<1> HIDE DEF x
<1>4. CASE TrimInSol(req)
  <2>1. (x > 0 => book.sol[Payer] >= x) /\ book' = PaySol(book, Payer, req.trimAccount, x)
    BY <1>4 DEF Trim, x, SolPayable
  <2>2. book.sol[Payer] >= x
    BY <1>1, <1>2, <1>3, <2>1 DEF Books
  <2>3. /\ book' \in Books /\ book'.tok = book.tok /\ book'.open = book.open
        /\ \A a \in SolAccounts :
             book'.sol[a] = book.sol[a] - At(a, Payer, x) + At(a, req.trimAccount, x)
        /\ \A a \in TokenAccounts : book'.excess[a] = book.excess[a] + At(a, req.trimAccount, x)
    BY <1>1, <1>2, <1>3, <2>1, <2>2, PaySolEffect
  <2> QED
    BY <1>1, <1>3, <1>4, <2>3 DEF x
<1>5. CASE ~TrimInSol(req)
  <2>1. /\ x > 0 => OwnerOf[req.dst] = Payer /\ req.dst \in book.open /\ book.tok[req.dst] >= x
        /\ book' = PayTokens(book, req.dst, req.trimAccount, x)
    BY <1>5 DEF Trim, x, TokenPayable
  <2>2. /\ book' \in Books /\ book'.sol = book.sol /\ book'.open = book.open
        /\ book'.excess = book.excess
        /\ \A a \in TokenAccounts :
             book'.tok[a] = book.tok[a] - At(a, req.dst, x) + At(a, req.trimAccount, x)
    BY <1>1, <1>2, <1>3, <2>1, PayTokensEffect
  <2> QED
    BY <1>1, <1>3, <1>5, <2>1, <2>2 DEF x
<1> QED
  BY <1>4, <1>5

(* A bridge takes amount_out from the destination.                         *)
LEMMA BridgeEffect ==
  ASSUME TypeOK, HandlerInv, BridgeToLog
  PROVE  /\ pc = "bridge" /\ pc' = "done" /\ req.bridge /\ OwnerOf[req.dst] = Payer
         /\ UNCHANGED <<committed, req, spent, swapped, out, commits>>
         /\ IsRequest(req) /\ book' \in Books /\ book'.open = book.open
         /\ book'.sol = book.sol /\ book'.excess = book.excess
         /\ \A a \in TokenAccounts : book'.tok[a] = book.tok[a] - At(a, req.dst, out)
<1>1. /\ pc = "bridge" /\ pc' = "done" /\ req.bridge /\ OwnerOf[req.dst] = Payer
      /\ UNCHANGED <<committed, req, spent, swapped, out, commits>>
      /\ IsRequest(req) /\ book \in Books /\ out \in Nat
      /\ book.tok[req.dst] >= out /\ book' = [book EXCEPT !.tok[req.dst] = @ - out]
  BY DEF BridgeToLog, BridgedAmount, TypeOK, HandlerInv
<1>2. req.dst \in TokenAccounts /\ book.tok \in [TokenAccounts -> Nat]
  BY <1>1, RequestShape DEF Books
<1> DEFINE tok == [book.tok EXCEPT ![req.dst] = @ - out]
<1>3. book' = [book EXCEPT !.tok = tok]
  BY <1>1 DEF Books
<1>4. /\ tok \in [TokenAccounts -> Nat]
      /\ \A a \in TokenAccounts : tok[a] = book.tok[a] - At(a, req.dst, out)
  BY <1>1, <1>2 DEF At
<1> HIDE DEF tok
<1> QED
  BY <1>1, <1>3, <1>4 DEF Books

-----------------------------------------------------------------------------
(* The types and what the handlers rely on.                                *)

LEMMA Initial == Init => CommissionInv
<1> SUFFICES ASSUME Init PROVE CommissionInv
  OBVIOUS
<1>1. pc = "idle" /\ book \in Books /\ committed = book /\ req = None
      /\ spent = 0 /\ swapped = 0 /\ out = 0 /\ commits = 0
  BY CommissionAccountsAssumption DEF Init
<1>2. TypeOK
  BY <1>1 DEF TypeOK
<1>3. HandlerInv /\ CommissionExact
  BY <1>1 DEF HandlerInv, CommissionExact
<1>4. VaultCovered /\ PayerCovered /\ OutputKept /\ FeesSoFar
  BY <1>1 DEF VaultCovered, PayerCovered, OutputKept, FeesSoFar, Settled
<1> QED
  BY <1>2, <1>3, <1>4 DEF CommissionInv

LEMMA TypeStep ==
  ASSUME CommissionInv, [Next]_vars
  PROVE  TypeOK'
<1>0. TypeOK /\ HandlerInv
  BY DEF CommissionInv
<1>1. ASSUME NEW r \in Requests, Begin(r) PROVE TypeOK'
  BY <1>0, <1>1, BeginEffect DEF TypeOK
<1>2. CASE ExecuteSwap
  <2>1. spent' \in Nat
    BY <1>0, <1>2, SwapEffect, RequestShape DEF TypeOK
  <2> QED
    BY <1>0, <1>2, <2>1, SwapEffect DEF TypeOK
<1>3. CASE FinishSwap
  <2>1. pc' \in {"commission", "bridge", "done"}
    BY <1>0, <1>3, FinishSwapEffect DEF AfterSwap
  <2> QED
    BY <1>0, <1>3, <2>1, FinishSwapEffect DEF TypeOK
<1>4. CASE CommissionSol \/ CommissionToken
  <2>1. pc' \in {"bridge", "trim"}
    BY <1>0, <1>4, CommissionCommon DEF AfterCommission
  <2>2. book' \in Books
    BY <1>0, <1>4, CommissionSolEffect, CommissionTokenEffect DEF PaidInSol, PaidInTokens
  <2> QED
    BY <1>0, <1>4, <2>1, <2>2, CommissionCommon DEF TypeOK
<1>5. CASE Trim
  BY <1>0, <1>5, TrimEffect DEF TypeOK
<1>6. CASE BridgeToLog
  BY <1>0, <1>6, BridgeEffect DEF TypeOK
<1>7. CASE Finish
  BY <1>0, <1>7 DEF TypeOK, Finish, Forgotten
<1>8. CASE Fail
  BY <1>0, <1>8 DEF TypeOK, Fail, Forgotten
<1>9. CASE UNCHANGED vars
  BY <1>0, <1>9 DEF TypeOK, vars
<1> QED
  BY <1>1, <1>2, <1>3, <1>4, <1>5, <1>6, <1>7, <1>8, <1>9 DEF Next

(* What depends on the instruction alone is the same in every step of it.  *)
LEMMA SameRequest ==
  ASSUME req' = req
  PROVE  /\ Loaded(req)' = Loaded(req)
         /\ ThroughSource(req)' <=> ThroughSource(req)
         /\ PullsIn(req)' <=> PullsIn(req)
         /\ HandsOver(req)' <=> HandsOver(req)
         /\ ThroughDestination(req)' <=> ThroughDestination(req)
         /\ Unserved(req)' <=> Unserved(req)
         /\ SwapDestination(req)' = SwapDestination(req)
         /\ PlatformAccount(req)' = PlatformAccount(req)
         /\ FeeAccounts' = FeeAccounts
         /\ ClosesDestination(req)' <=> ClosesDestination(req)
         /\ ThirdParties' <=> ThirdParties
         /\ TrimInSol(req)' <=> TrimInSol(req)
BY DEF Loaded, ThroughSource, PullsIn, HandsOver, ThroughDestination, Unserved,
       SwapDestination, PlatformAccount, FeeAccounts, ClosesDestination, ThirdParties, TrimInSol

LEMMA SameAmounts ==
  ASSUME req' = req, out' = out
  PROVE  /\ Amount(req)' = Amount(req) /\ PlatformPart(req)' = PlatformPart(req)
         /\ TrimAmount(req)' = TrimAmount(req)
         /\ RatesAllowed(req)' <=> RatesAllowed(req)
<1>1. Amount(req)' = Amount(req)
  BY DEF Amount, Commission
<1>2. Surplus(req)' = Surplus(req)
  BY <1>1 DEF Surplus
<1> QED
  BY <1>1, <1>2 DEF PlatformPart, TrimAmount, RatesAllowed

(* Without a version there is no commission, and without a rate no trim.   *)
LEMMA NothingDue ==
  ASSUME IsRequest(req), req' = req, req.version = 0
  PROVE  Amount(req)' = 0 /\ PlatformPart(req)' = 0
<1>1. Amount(req)' = 0
  BY DEF Amount, Commission
<1>2. req.platformRate \in Nat /\ PLATFORM_FEE_DENOMINATOR \in Nat \ {0}
  BY RequestShape, CommissionRatesAssumption
<1>3. PlatformPart(req)' = (0 * req.platformRate) \div PLATFORM_FEE_DENOMINATOR
  BY <1>1 DEF PlatformPart
<1> QED
  BY <1>1, <1>2, <1>3, Part

LEMMA HandlerStep ==
  ASSUME CommissionInv, [Next]_vars
  PROVE  HandlerInv'
<1>0. TypeOK /\ HandlerInv
  BY DEF CommissionInv
<1>1. ASSUME NEW r \in Requests, Begin(r) PROVE HandlerInv'
  <2>1. r.amountIn \in Nat
    BY <1>0, <1>1, BeginEffect, RequestShape
  <2> QED
    BY <1>0, <1>1, <2>1, BeginEffect DEF HandlerInv, Settled, ClosedSoFar, Loaded, PullsIn
<1>2. CASE ExecuteSwap
  <2>1. spent' <= req.amountIn
    BY <1>0, <1>2, SwapEffect, RequestShape DEF TypeOK
  <2> QED
    BY <1>0, <1>2, <2>1, SwapEffect, SameRequest DEF HandlerInv, Settled, ClosedSoFar
<1>3. CASE FinishSwap
  <2>1. IsRequest(req)
    BY <1>0, <1>3, FinishSwapEffect DEF TypeOK
  <2>2. pc' \in {"commission", "bridge", "done"}
    BY <1>0, <1>3, FinishSwapEffect DEF AfterSwap
  <2>3. (pc' = "commission" => req.version > 0) /\ (pc' # "commission" => req.version = 0)
        /\ (pc' = "bridge" => req.bridge)
    <3>1. pc' = AfterSwap
      BY <1>0, <1>3, FinishSwapEffect
    <3>2. req.version \in 0..2 /\ req.bridge \in BOOLEAN
      BY <2>1, RequestShape
    <3>3. CASE req.version > 0
      BY <3>1, <3>3 DEF AfterSwap
    <3>4. CASE req.version = 0 /\ req.bridge
      BY <3>1, <3>4 DEF AfterSwap
    <3>5. CASE req.version = 0 /\ ~req.bridge
      BY <3>1, <3>5 DEF AfterSwap
    <3> QED
      BY <3>2, <3>3, <3>4, <3>5
  <2>4. pc' # "commission" => RatesAllowed(req)'
    <3>1. req.version = 0 => req.platformRate = 0 /\ req.trimRate = 0
      BY <2>1, RequestShape
    <3> QED
      BY <1>0, <1>3, <2>3, <3>1, FinishSwapEffect, CommissionRatesAssumption DEF RatesAllowed
  <2>5. ClosedSoFar' = {} /\ ClosedSoFar = {}
    BY <1>0, <1>3, <2>2, <2>3, FinishSwapEffect DEF ClosedSoFar, Settled
  <2>6. Settled' => PlatformPart(req)' = 0
    BY <1>0, <1>3, <2>1, <2>2, <2>3, FinishSwapEffect, NothingDue DEF Settled
  <2>7. HandsOver(req) => req.dstSa \in SaAccounts \cap committed.open
    BY <1>0, <1>3, <2>5, FinishSwapEffect DEF HandlerInv
  <2> QED
    BY <1>0, <1>3, <2>2, <2>3, <2>4, <2>5, <2>6, <2>7, FinishSwapEffect, SameRequest
    DEF HandlerInv, Settled
<1>4. CASE CommissionSol \/ CommissionToken
  <2>1. /\ pc' \in {"bridge", "trim"} /\ (pc' = "bridge" <=> req.bridge) /\ Settled' /\ ~Settled
    BY <1>0, <1>4, CommissionCommon, RequestShape DEF AfterCommission, Settled
  <2>2. ClosedSoFar' = Closing /\ ClosedSoFar = {}
    BY <1>0, <1>4, <2>1, CommissionCommon, SameRequest DEF ClosedSoFar, Closing
  <2>3. book'.open = book.open \ Closing
    <3>1. CASE CommissionSol
      BY <1>0, <3>1, CommissionCommon, CommissionSolEffect, UnwrappedEffect, RequestShape
      DEF PaidInSol
    <3>2. CASE CommissionToken
      BY <1>0, <3>2, CommissionTokenEffect DEF PaidInTokens, Closing, ClosesDestination
    <3> QED
      BY <1>4, <3>1, <3>2
  <2>4. Closing # {} => OwnerOf[req.dst] = Payer
    BY <1>0, <1>4, CommissionSolEffect, CommissionTokenEffect DEF Closing, ClosesDestination
  <2>5. PlatformPart(req) > 0 => PlatformAccount(req) \in SolAccounts \cup committed.open
    BY <1>0, <1>4, <2>2, CommissionCommon, CommissionSolEffect, CommissionTokenEffect
    DEF HandlerInv
  <2> QED
    BY <1>0, <1>4, <2>1, <2>2, <2>3, <2>4, <2>5, CommissionCommon, SameRequest, SameAmounts
    DEF HandlerInv
<1>5. CASE Trim \/ BridgeToLog
  <2>1. /\ pc \in {"trim", "bridge"} /\ pc' = "done" /\ book'.open = book.open
        /\ UNCHANGED <<committed, req, spent, swapped, out, commits>>
    BY <1>0, <1>5, TrimEffect, BridgeEffect
  <2>2. ClosedSoFar' = ClosedSoFar /\ Settled /\ Settled'
    BY <2>1, SameRequest DEF ClosedSoFar, Settled
  <2> QED
    BY <1>0, <2>1, <2>2, SameRequest, SameAmounts DEF HandlerInv
<1>6. CASE Finish
  BY <1>0, <1>6 DEF HandlerInv, Finish, Forgotten
<1>7. CASE Fail
  BY <1>0, <1>7 DEF HandlerInv, Fail, Forgotten
<1>8. CASE UNCHANGED vars
  <2>1. req' = req /\ out' = out /\ pc' = pc /\ UNCHANGED vars
    BY <1>8 DEF vars
  <2>2. ClosedSoFar' = ClosedSoFar /\ (Settled' <=> Settled)
    BY <2>1, SameRequest DEF ClosedSoFar, Settled
  <2> QED
    BY <1>0, <2>1, <2>2, SameRequest, SameAmounts DEF HandlerInv, vars
<1> QED
  BY <1>1, <1>2, <1>3, <1>4, <1>5, <1>6, <1>7, <1>8 DEF Next

-----------------------------------------------------------------------------
(* The vault.                                                              *)

(* What is held, step by step.                                             *)
LEMMA HeldAfterBegin ==
  ASSUME NEW r \in Requests, NEW a, IsRequest(r), req' = r, pc' = "swap", spent' = 0, out' = 0
  PROVE  HeldFor(a)' = IF PullsIn(r) /\ a = r.srcSa THEN r.amountIn ELSE 0
<1>1. r.amountIn \in Nat
  BY RequestShape
<1> QED
  BY <1>1 DEF HeldFor, PullsIn, ThroughDestination

LEMMA HeldInSwap ==
  ASSUME NEW a, pc \in {"swap", "after"}
  PROVE  HeldFor(a) =
           (IF PullsIn(req) /\ a = req.srcSa
            THEN req.amountIn - (IF a = SwapDestination(req) THEN 0 ELSE spent) ELSE 0)
           + (IF ThroughDestination(req) /\ a = req.dstSa THEN out ELSE 0)
BY DEF HeldFor

LEMMA HeldAfterSwap ==
  ASSUME NEW a, req' = req, pc' = "after"
  PROVE  HeldFor(a)' =
           (IF PullsIn(req) /\ a = req.srcSa
            THEN req.amountIn - (IF a = SwapDestination(req) THEN 0 ELSE spent') ELSE 0)
           + (IF ThroughDestination(req) /\ a = req.dstSa THEN out' ELSE 0)
BY SameRequest DEF HeldFor

LEMMA HeldElse ==
  ASSUME NEW a, pc \notin {"swap", "after"}
  PROVE  HeldFor(a) = (IF Settled /\ a = PlatformAccount(req) THEN PlatformPart(req) ELSE 0)
                      - (IF a = req.dstSa /\ Unserved(req) THEN swapped ELSE 0)
BY DEF HeldFor

LEMMA HeldNext ==
  ASSUME NEW a, req' = req, pc' \notin {"swap", "after"}
  PROVE  HeldFor(a)' = (IF Settled' /\ a = PlatformAccount(req) THEN PlatformPart(req)' ELSE 0)
                       - (IF a = req.dstSa /\ Unserved(req) THEN swapped' ELSE 0)
BY SameRequest DEF HeldFor

(* A step that changes what the vault has as much as what it holds.        *)
LEMMA VaultChange ==
  ASSUME TypeOK, VaultCovered, pc \notin {"idle", "swap"}, pc' # "swap",
         UNCHANGED <<committed, req, spent>>, book' \in Books,
         book'.sol[SaAuthority] >= book.sol[SaAuthority],
         \A a \in SaAccounts :
           /\ HeldFor(a) \in Int /\ HeldFor(a)' \in Int
           /\ Have(book, a)' >= Have(book, a) + HeldFor(a)' - HeldFor(a)
           /\ NoGain => Have(book, a)' = Have(book, a) + HeldFor(a)' - HeldFor(a)
  PROVE  VaultCovered'
<1>1. book \in Books /\ committed \in Books /\ SaAuthority \in SolAccounts
  BY CommissionAccountsAssumption DEF TypeOK
<1>2. NoGain' <=> NoGain
  BY DEF NoGain
<1>3. ASSUME NEW a \in SaAccounts
      PROVE  /\ Have(book, a)' >= Have(committed, a)' + HeldFor(a)'
             /\ NoGain' => Have(book, a)' = Have(committed, a)' + HeldFor(a)'
  <2>1. /\ Have(book, a) >= Have(committed, a) + HeldFor(a)
        /\ NoGain => Have(book, a) = Have(committed, a) + HeldFor(a)
    BY DEF VaultCovered
  <2>2. /\ Have(book, a) \in Int /\ Have(committed, a) \in Int /\ Have(book, a)' \in Int
        /\ Have(committed, a)' = Have(committed, a)
    BY <1>1, VaultApart DEF Books, Have
  <2>3. /\ HeldFor(a) \in Int /\ HeldFor(a)' \in Int
        /\ Have(book, a)' >= Have(book, a) + HeldFor(a)' - HeldFor(a)
        /\ NoGain => Have(book, a)' = Have(book, a) + HeldFor(a)' - HeldFor(a)
    OBVIOUS
  <2> QED
    BY <1>2, <2>1, <2>2, <2>3
<1>4. book'.sol[SaAuthority] >= committed'.sol[SaAuthority]
  BY <1>1 DEF VaultCovered, Books
<1> QED
  BY <1>3, <1>4 DEF VaultCovered

LEMMA VaultStep ==
  ASSUME CommissionInv, [Next]_vars
  PROVE  VaultCovered'
<1>0. /\ TypeOK /\ HandlerInv /\ VaultCovered
      /\ SaAuthority \in SolAccounts /\ SaAuthority # Payer
  BY CommissionAccountsAssumption DEF CommissionInv
<1>1. ASSUME NEW r \in Requests, Begin(r) PROVE VaultCovered'
  <2>1. /\ IsRequest(r) /\ committed \in Books /\ committed' = committed
        /\ OwnerOf[r.src] = Payer /\ r.amountIn \in Nat /\ pc' = "swap"
        /\ book' \in Books /\ book'.sol = committed.sol /\ book'.excess = committed.excess
    BY <1>0, <1>1, BeginEffect, RequestShape DEF TypeOK
  <2>2. ASSUME NEW a \in SaAccounts
        PROVE  Have(book, a)' = Have(committed, a)' + HeldFor(a)'
    <3>1. HeldFor(a)' = IF PullsIn(r) /\ a = r.srcSa THEN r.amountIn ELSE 0
      BY <1>0, <1>1, BeginEffect, HeldAfterBegin
    <3>2. a \in TokenAccounts /\ a # r.src
      BY <2>1, VaultApart
    <3>3. book'.tok[a] = committed.tok[a]
                - (IF PullsIn(r) /\ a = r.src THEN r.amountIn ELSE 0)
                + (IF PullsIn(r) /\ a = r.srcSa THEN r.amountIn ELSE 0)
      BY <1>0, <1>1, <3>2, BeginEffect
    <3>4. committed.tok[a] \in Nat /\ committed.excess[a] \in Nat
      BY <2>1, <3>2 DEF Books
    <3> QED
      BY <2>1, <3>1, <3>2, <3>3, <3>4 DEF Have
  <2>3. ASSUME NEW a \in SaAccounts
        PROVE  Have(committed, a)' + HeldFor(a)' \in Int
    <3>1. a \in TokenAccounts
      BY VaultApart
    <3>2. Have(book, a)' \in Int
      BY <2>1, <3>1 DEF Books, Have
    <3> QED
      BY <2>2, <3>2
  <2>4. book'.sol[SaAuthority] >= committed'.sol[SaAuthority]
    BY <1>0, <2>1 DEF Books
  <2> QED
    BY <2>2, <2>3, <2>4 DEF VaultCovered
<1>2. CASE ExecuteSwap
  <2>1. /\ pc = "swap" /\ pc' = "after" /\ committed' = committed /\ req' = req
        /\ IsRequest(req) /\ spent = 0 /\ out = 0 /\ spent' \in Nat /\ out' \in Nat
        /\ OwnerOf[req.src] = Payer /\ req.amountIn \in Nat
        /\ book \in Books /\ committed \in Books
        /\ book'.sol = book.sol /\ book'.excess = book.excess
    BY <1>0, <1>2, SwapEffect, RequestShape DEF TypeOK, HandlerInv
  <2>2. /\ SwapSource(req) = IF PullsIn(req) THEN req.srcSa ELSE req.src
        /\ SwapDestination(req) = IF ThroughDestination(req) THEN req.dstSa ELSE req.dst
    BY <1>0, <1>2, SwapEffect DEF SwapSource, SwapDestination, PullsIn, ThroughSource
  <2>3. ASSUME NEW a \in SaAccounts
        PROVE  /\ Have(book, a)' >= Have(committed, a)' + HeldFor(a)'
               /\ req.dst \notin SaAccounts =>
                    Have(book, a)' = Have(committed, a)' + HeldFor(a)'
    <3>1. a \in TokenAccounts /\ a # req.src
      BY <2>1, VaultApart
    <3>2. /\ book.tok[a] \in Nat /\ book.excess[a] \in Nat
          /\ committed.tok[a] \in Nat /\ committed.excess[a] \in Nat
      BY <2>1, <3>1 DEF Books
    <3>3. Have(book, a) = Have(committed, a)
                            + (IF PullsIn(req) /\ a = req.srcSa THEN req.amountIn ELSE 0)
      <4>1. Have(book, a) = Have(committed, a) + HeldFor(a)
        BY <1>0, <2>1 DEF VaultCovered
      <4>2. HeldFor(a) = IF PullsIn(req) /\ a = req.srcSa THEN req.amountIn ELSE 0
        BY <2>1, HeldInSwap
      <4> QED
        BY <4>1, <4>2
    <3>4. book'.tok[a] = book.tok[a]
            - (IF a = SwapSource(req) /\ SwapSource(req) # SwapDestination(req)
               THEN spent' ELSE 0)
            + (IF a = SwapDestination(req) THEN out' ELSE 0)
      BY <1>0, <1>2, <3>1, SwapEffect
    <3>5. HeldFor(a)' =
            (IF PullsIn(req) /\ a = req.srcSa
             THEN req.amountIn - (IF a = SwapDestination(req) THEN 0 ELSE spent') ELSE 0)
            + (IF ThroughDestination(req) /\ a = req.dstSa THEN out' ELSE 0)
      BY <2>1, HeldAfterSwap
    <3>6. Have(book, a)' = book'.tok[a] + book.excess[a] /\ Have(committed, a)' = Have(committed, a)
          /\ Have(book, a) = book.tok[a] + book.excess[a]
      BY <2>1 DEF Have
    <3>7. Have(committed, a) \in Nat
      BY <3>2 DEF Have
    <3>8. CASE ThroughDestination(req)
      BY <2>1, <2>2, <3>1, <3>2, <3>3, <3>4, <3>5, <3>6, <3>7, <3>8
    <3>9. CASE ~ThroughDestination(req)
      BY <2>1, <2>2, <3>1, <3>2, <3>3, <3>4, <3>5, <3>6, <3>7, <3>9
    <3> QED
      BY <3>8, <3>9
  <2>4. book'.sol[SaAuthority] >= committed'.sol[SaAuthority]
    BY <1>0, <2>1 DEF VaultCovered
  <2>5. NoGain' => req.dst \notin SaAccounts
    BY <2>1 DEF NoGain
  <2> QED
    BY <2>1, <2>3, <2>4, <2>5 DEF VaultCovered
<1>3. CASE FinishSwap
  <2>1. /\ pc = "after" /\ UNCHANGED <<committed, req, spent, swapped>> /\ swapped = out
        /\ IsRequest(req) /\ spent \in Nat /\ out \in Nat /\ spent <= req.amountIn
        /\ OwnerOf[req.src] = Payer /\ req.amountIn \in Nat
        /\ book \in Books /\ book' \in Books
        /\ book'.sol = book.sol /\ book'.excess = book.excess
    BY <1>0, <1>3, FinishSwapEffect, RequestShape DEF TypeOK, HandlerInv
  <2>2. pc' \in {"commission", "bridge", "done"} /\ (pc' # "commission" => req.version = 0)
    <3>1. pc' = AfterSwap /\ req.version \in 0..2 /\ req.bridge \in BOOLEAN
      BY <1>0, <1>3, <2>1, FinishSwapEffect, RequestShape
    <3> QED
      BY <3>1 DEF AfterSwap
  <2>3. ASSUME NEW a \in SaAccounts
        PROVE  /\ HeldFor(a) \in Int /\ HeldFor(a)' \in Int
               /\ Have(book, a)' >= Have(book, a) + HeldFor(a)' - HeldFor(a)
               /\ NoGain => Have(book, a)' = Have(book, a) + HeldFor(a)' - HeldFor(a)
    <3>1. HeldFor(a)' = 0 - (IF a = req.dstSa /\ Unserved(req) THEN out ELSE 0)
      <4>1. Settled' => PlatformPart(req)' = 0
        BY <2>1, <2>2, NothingDue DEF Settled
      <4>2. HeldFor(a)' = (IF Settled' /\ a = PlatformAccount(req) THEN PlatformPart(req)' ELSE 0)
                           - (IF a = req.dstSa /\ Unserved(req) THEN out ELSE 0)
        BY <2>1, <2>2, HeldNext
      <4> QED
        BY <4>1, <4>2
    <3>2. HeldFor(a) =
            (IF PullsIn(req) /\ a = req.srcSa
             THEN req.amountIn - (IF a = SwapDestination(req) THEN 0 ELSE spent) ELSE 0)
            + (IF ThroughDestination(req) /\ a = req.dstSa THEN out ELSE 0)
      BY <2>1, HeldInSwap
    <3>3. /\ SwapDestination(req) = IF ThroughDestination(req) THEN req.dstSa ELSE req.dst
          /\ ThroughDestination(req) => HandsOver(req)
          /\ Unserved(req) <=> HandsOver(req) /\ ~ThroughDestination(req)
      BY DEF SwapDestination, HandsOver, ThroughDestination, Unserved
    <3>4. NoGain => /\ spent = req.amountIn /\ req.dst # a
                    /\ PullsIn(req) /\ a = req.srcSa => a # req.dstSa
      BY VaultApart DEF NoGain
    <3>5. a \in TokenAccounts /\ book.tok[a] \in Nat /\ book.excess[a] \in Nat
      BY <2>1, VaultApart DEF Books
    <3>6. book'.tok[a] = book.tok[a]
            - (IF HandsOver(req) /\ a = req.dstSa THEN out ELSE 0)
            + (IF HandsOver(req) /\ a = req.dst THEN out ELSE 0)
      BY <1>0, <1>3, <3>5, FinishSwapEffect
    <3>7. Have(book, a)' = book'.tok[a] + book.excess[a]
          /\ Have(book, a) = book.tok[a] + book.excess[a]
      BY <2>1 DEF Have
    <3> DEFINE o == IF HandsOver(req) /\ a = req.dstSa THEN out ELSE 0
               i == IF HandsOver(req) /\ a = req.dst THEN out ELSE 0
               h == IF PullsIn(req) /\ a = req.srcSa
                    THEN req.amountIn - (IF a = SwapDestination(req) THEN 0 ELSE spent) ELSE 0
    <3>8. o \in Nat /\ i \in Nat /\ h \in Nat
      BY <2>1
    <3>9. NoGain => h = 0 /\ i = 0
      BY <2>1, <3>3, <3>4
    <3>10. HeldFor(a) - HeldFor(a)' = h + o /\ HeldFor(a) \in Int /\ HeldFor(a)' \in Int
      <4> DEFINE t == IF ThroughDestination(req) /\ a = req.dstSa THEN out ELSE 0
                 v == IF a = req.dstSa /\ Unserved(req) THEN out ELSE 0
      <4>1. t \in Nat /\ v \in Nat /\ t + v = o
        BY <2>1, <3>3
      <4>2. HeldFor(a) = h + t /\ HeldFor(a)' = 0 - v
        BY <3>1, <3>2
      <4> HIDE DEF t, v, h, o
      <4> QED
        BY <3>8, <4>1, <4>2
    <3>11. book'.tok[a] = book.tok[a] - o + i
      BY <3>6
    <3> HIDE DEF o, i, h
    <3>12. Have(book, a)' = Have(book, a) - o + i /\ Have(book, a) \in Int
      BY <3>5, <3>7, <3>8, <3>11
    <3> QED
      BY <3>8, <3>9, <3>10, <3>12
  <2>4. book'.sol[SaAuthority] >= book.sol[SaAuthority]
    BY <1>0, <2>1 DEF Books
  <2> QED
    BY <1>0, <2>1, <2>2, <2>3, <2>4, VaultChange
<1>4. CASE CommissionSol \/ CommissionToken
  <2>1. /\ pc = "commission" /\ UNCHANGED <<committed, req, spent, swapped, out>>
        /\ IsRequest(req) /\ book \in Books
        /\ Amount(req) \in Nat /\ PlatformPart(req) \in 0..Amount(req) /\ swapped \in Nat
    BY <1>0, <1>4, CommissionCommon DEF TypeOK
  <2>2. pc' \in {"bridge", "trim"}
    BY <1>0, <1>4, CommissionCommon DEF AfterCommission
  <2> DEFINE A == Amount(req)
             P == PlatformPart(req)
             pa == PlatformAccount(req)
             ca == req.commissionAccount
  <2>3. P \in Nat /\ A - P \in Nat
    BY <2>1
  <2>4. ASSUME NEW a \in SaAccounts
        PROVE  HeldFor(a) \in Int /\ HeldFor(a)' = HeldFor(a) + At(a, pa, P)
    <3> DEFINE v == IF a = req.dstSa /\ Unserved(req) THEN swapped ELSE 0
    <3>0. v \in Nat
      BY <2>1
    <3>1. HeldFor(a) = 0 - v
      BY <2>1, HeldElse DEF Settled
    <3>2. HeldFor(a)' = (IF a = pa THEN PlatformPart(req)' ELSE 0) - v
      BY <2>1, <2>2, HeldNext DEF Settled
    <3>3. HeldFor(a)' = At(a, pa, P) - v
      BY <2>1, <3>2, SameAmounts DEF At
    <3>4. At(a, pa, P) \in Nat
      BY <2>3 DEF At
    <3> HIDE DEF v, pa, P
    <3> QED
      BY <3>0, <3>1, <3>3, <3>4
  <2>5. /\ book' \in Books
        /\ book'.sol[SaAuthority] >= book.sol[SaAuthority]
        /\ \A a \in SaAccounts : Have(book, a)' = Have(book, a) + At(a, pa, P) + At(a, ca, A - P)
    <3>1. CASE CommissionSol
      <4> DEFINE u == Unwrapped(book)
      <4>1. req.dst \in TokenAccounts
        BY <2>1, RequestShape
      <4>2. /\ u \in Books /\ Freed \in Nat
            /\ u.sol[SaAuthority] = book.sol[SaAuthority] + At(SaAuthority, Payer, Freed)
        BY <1>0, <2>1, <4>1, UnwrappedEffect
      <4>3. PaidInSol(u, book', Payer, A, pa, P, ca)
        BY <1>0, <3>1, CommissionSolEffect
      <4>4. ASSUME NEW a \in SaAccounts
            PROVE  u.tok[a] = book.tok[a] /\ u.excess[a] = book.excess[a]
        <5>1. a \in TokenAccounts /\ a \notin Closing
          BY <1>0, <3>1, VaultApart, CommissionSolEffect DEF Closing
        <5> QED
          BY <2>1, <4>1, <5>1, UnwrappedEffect
      <4> HIDE DEF u, A, P, pa, ca
      <4>5. /\ book' \in Books /\ book'.tok = u.tok
            /\ book'.sol[SaAuthority] =
                 u.sol[SaAuthority] - At(SaAuthority, Payer, A) + At(SaAuthority, pa, P)
                   + At(SaAuthority, ca, A - P)
        BY <1>0, <4>3 DEF PaidInSol
      <4>6. ASSUME NEW a \in SaAccounts
            PROVE  Have(book, a)' = Have(book, a) + At(a, pa, P) + At(a, ca, A - P)
        <5>1. a \in TokenAccounts
          BY VaultApart
        <5>2. book'.excess[a] = u.excess[a] + At(a, pa, P) + At(a, ca, A - P)
          BY <4>3, <5>1 DEF PaidInSol
        <5>3. book.tok[a] \in Nat /\ book.excess[a] \in Nat
          BY <2>1, <5>1 DEF Books
        <5>4. At(a, pa, P) \in Nat /\ At(a, ca, A - P) \in Nat
          BY <2>3 DEF At
        <5> QED
          BY <4>4, <4>5, <5>2, <5>3, <5>4 DEF Have
      <4>7. book'.sol[SaAuthority] >= book.sol[SaAuthority]
        BY <1>0, <2>1, <2>3, <4>2, <4>5 DEF At, Books
      <4> QED
        BY <4>5, <4>6, <4>7
    <3>2. CASE CommissionToken
      <4> DEFINE c == ChargedAccount(req)
      <4>1. (A > 0 => OwnerOf[c] = Payer) /\ PaidInTokens(book, book', c, A, pa, P, ca) /\ A \in Nat
        BY <1>0, <2>1, <3>2, CommissionTokenEffect
      <4> HIDE DEF c, A, P, pa, ca
      <4>2. book' \in Books /\ book'.sol = book.sol /\ book'.excess = book.excess
        BY <4>1 DEF PaidInTokens
      <4>3. ASSUME NEW a \in SaAccounts
            PROVE  Have(book, a)' = Have(book, a) + At(a, pa, P) + At(a, ca, A - P)
        <5>1. a \in TokenAccounts /\ (A > 0 => a # c)
          BY <4>1, VaultApart
        <5>2. book'.tok[a] = book.tok[a] - At(a, c, A) + At(a, pa, P) + At(a, ca, A - P)
          BY <4>1, <5>1 DEF PaidInTokens
        <5>3. book.tok[a] \in Nat /\ book.excess[a] \in Nat
          BY <2>1, <5>1 DEF Books
        <5>4. At(a, pa, P) \in Nat /\ At(a, ca, A - P) \in Nat /\ At(a, c, A) = 0
          BY <2>3, <4>1, <5>1 DEF At
        <5> QED
          BY <4>2, <5>2, <5>3, <5>4 DEF Have
      <4>4. book'.sol[SaAuthority] >= book.sol[SaAuthority]
        BY <1>0, <2>1, <4>2 DEF Books
      <4> QED
        BY <4>2, <4>3, <4>4
    <3> QED
      BY <1>4, <3>1, <3>2
  <2>6. ASSUME NEW a \in SaAccounts
        PROVE  /\ HeldFor(a) \in Int /\ HeldFor(a)' \in Int
               /\ Have(book, a)' >= Have(book, a) + HeldFor(a)' - HeldFor(a)
               /\ NoGain => Have(book, a)' = Have(book, a) + HeldFor(a)' - HeldFor(a)
    <3>1. At(a, pa, P) \in Nat /\ At(a, ca, A - P) \in Nat
      BY <2>3 DEF At
    <3>2. NoGain => At(a, ca, A - P) = 0
      BY DEF NoGain, At
    <3>3. Have(book, a) \in Int
      BY <2>1, VaultApart DEF Books, Have
    <3> HIDE DEF A, P, pa, ca
    <3>4. HeldFor(a) \in Int /\ HeldFor(a)' = HeldFor(a) + At(a, pa, P)
          /\ Have(book, a)' = Have(book, a) + At(a, pa, P) + At(a, ca, A - P)
      BY <2>4, <2>5
    <3> QED
      BY <3>1, <3>2, <3>3, <3>4
  <2> QED
    BY <1>0, <2>1, <2>2, <2>5, <2>6, VaultChange
<1>5. CASE Trim \/ BridgeToLog
  <2>1. /\ pc \in {"trim", "bridge"} /\ pc' = "done"
        /\ UNCHANGED <<committed, req, spent, swapped, out>>
        /\ IsRequest(req) /\ book \in Books /\ book' \in Books /\ RatesAllowed(req)
        /\ out \in Nat /\ swapped \in Nat
    BY <1>0, <1>5, TrimEffect, BridgeEffect DEF TypeOK, HandlerInv, Settled
  <2>2. ASSUME NEW a \in SaAccounts
        PROVE  HeldFor(a)' = HeldFor(a) /\ HeldFor(a) \in Int
    <3>1. PlatformPart(req) \in Int
      BY <2>1, CommissionShare
    <3> DEFINE v == IF a = req.dstSa /\ Unserved(req) THEN swapped ELSE 0
    <3>2. HeldFor(a) = (IF a = PlatformAccount(req) THEN PlatformPart(req) ELSE 0) - v
      BY <2>1, HeldElse DEF Settled
    <3>3. HeldFor(a)' = (IF a = PlatformAccount(req) THEN PlatformPart(req)' ELSE 0) - v
      BY <2>1, HeldNext DEF Settled
    <3>4. PlatformPart(req)' = PlatformPart(req)
      BY <2>1, SameAmounts
    <3> QED
      BY <2>1, <3>1, <3>2, <3>3, <3>4
  <2>3. ASSUME NEW a \in SaAccounts
        PROVE  /\ Have(book, a)' >= Have(book, a)
               /\ NoGain => Have(book, a)' = Have(book, a)
    <3>1. a \in TokenAccounts /\ OwnerOf[a] # Payer
      BY VaultApart
    <3>2. book.tok[a] \in Nat /\ book.excess[a] \in Nat
      BY <2>1, <3>1 DEF Books
    <3>3. CASE Trim
      <4> DEFINE x == TrimAmount(req)
      <4>1. x \in Nat /\ At(a, req.trimAccount, x) \in Nat
        BY <1>0, <3>3, TrimEffect DEF At
      <4>2. NoGain => At(a, req.trimAccount, x) = 0
        BY DEF NoGain, At
      <4> HIDE DEF x
      <4>3. CASE TrimInSol(req)
        <5>1. book'.tok = book.tok /\ book'.excess[a] = book.excess[a] + At(a, req.trimAccount, x)
          BY <1>0, <3>1, <3>3, <4>3, TrimEffect DEF x
        <5> QED
          BY <3>2, <4>1, <4>2, <5>1 DEF Have
      <4>4. CASE ~TrimInSol(req)
        <5>1. /\ book'.excess = book.excess
              /\ book'.tok[a] = book.tok[a] - At(a, req.dst, x) + At(a, req.trimAccount, x)
              /\ x > 0 => OwnerOf[req.dst] = Payer
          BY <1>0, <3>1, <3>3, <4>4, TrimEffect DEF x
        <5>2. At(a, req.dst, x) = 0
          BY <3>1, <4>1, <5>1 DEF At
        <5> QED
          BY <3>2, <4>1, <4>2, <5>1, <5>2 DEF Have
      <4> QED
        BY <4>3, <4>4
    <3>4. CASE BridgeToLog
      <4>1. book'.tok[a] = book.tok[a] - At(a, req.dst, out) /\ book'.excess = book.excess
            /\ OwnerOf[req.dst] = Payer
        BY <1>0, <3>1, <3>4, BridgeEffect
      <4>2. At(a, req.dst, out) = 0
        BY <3>1, <4>1 DEF At
      <4> QED
        BY <3>2, <4>1, <4>2 DEF Have
    <3> QED
      BY <1>5, <3>3, <3>4
  <2>4. ASSUME NEW a \in SaAccounts
        PROVE  /\ HeldFor(a) \in Int /\ HeldFor(a)' \in Int
               /\ Have(book, a)' >= Have(book, a) + HeldFor(a)' - HeldFor(a)
               /\ NoGain => Have(book, a)' = Have(book, a) + HeldFor(a)' - HeldFor(a)
    <3>1. Have(book, a) \in Int
      BY <2>1, VaultApart DEF Books, Have
    <3> QED
      BY <2>2, <2>3, <3>1
  <2>5. book'.sol[SaAuthority] >= book.sol[SaAuthority]
    <3>1. CASE Trim
      <4> DEFINE x == TrimAmount(req)
      <4>1. x \in Nat
        BY <1>0, <3>1, TrimEffect
      <4>2. TrimInSol(req) =>
              book'.sol[SaAuthority] = book.sol[SaAuthority] - At(SaAuthority, Payer, x)
                                         + At(SaAuthority, req.trimAccount, x)
        BY <1>0, <3>1, TrimEffect
      <4>3. ~TrimInSol(req) => book'.sol = book.sol
        BY <1>0, <3>1, TrimEffect
      <4> HIDE DEF x
      <4> QED
        BY <1>0, <2>1, <4>1, <4>2, <4>3 DEF At, Books
    <3>2. CASE BridgeToLog
      BY <1>0, <2>1, <3>2, BridgeEffect DEF Books
    <3> QED
      BY <1>5, <3>1, <3>2
  <2> QED
    BY <1>0, <2>1, <2>4, <2>5, VaultChange
<1>6. CASE Finish \/ Fail
  BY <1>6 DEF VaultCovered, Finish, Fail
<1>7. CASE UNCHANGED vars
  <2>1. req' = req /\ out' = out /\ pc' = pc /\ spent' = spent /\ book' = book
        /\ committed' = committed /\ swapped' = swapped
    BY <1>7 DEF vars
  <2>2. ASSUME NEW a PROVE HeldFor(a)' = HeldFor(a)
    <3>1. PlatformPart(req)' = PlatformPart(req)
      BY <2>1, SameAmounts
    <3> QED
      BY <2>1, <3>1, SameRequest DEF HeldFor, Settled
  <2>3. NoGain' <=> NoGain
    BY <2>1 DEF NoGain
  <2> QED
    BY <1>0, <2>1, <2>2, <2>3 DEF VaultCovered, Have
<1> QED
  BY <1>1, <1>2, <1>3, <1>4, <1>5, <1>6, <1>7 DEF Next

-----------------------------------------------------------------------------
(* The payer and everybody else.                                           *)

LEMMA NoShare ==
  ASSUME NEW x \in Nat, NEW rate, rate = 0, NEW d \in Nat \ {0}
  PROVE  (x * rate) \div d = 0
<1>1. x * 0 = 0 /\ 0 \div d = 0
  OBVIOUS
<1> QED
  BY <1>1

LEMMA NoTrim ==
  ASSUME IsRequest(req), req' = req, req.version = 0, out' \in Nat
  PROVE  TrimAmount(req)' = 0
<1>1. /\ req.trimRate = 0 /\ req.expectOut \in Nat /\ Amount(req)' = 0
      /\ TRIM_DENOMINATOR \in Nat \ {0}
  BY RequestShape, NothingDue, CommissionRatesAssumption
<1>2. Surplus(req)' \in Nat
  BY <1>1 DEF Surplus
<1>3. (out' * req.trimRate) \div TRIM_DENOMINATOR = 0
  BY <1>1, NoShare
<1>4. TrimAmount(req)' =
        LET limit == (out' * req.trimRate) \div TRIM_DENOMINATOR
        IN  IF req.trimAccount = None THEN 0
            ELSE IF Surplus(req)' < limit THEN Surplus(req)' ELSE limit
  BY DEF TrimAmount
<1> QED
  BY <1>2, <1>3, <1>4

LEMMA PaidNext ==
  ASSUME req' = req
  PROVE  /\ SourcePaid' =
              (IF PullsIn(req) THEN req.amountIn ELSE spent')
              + (IF Settled' /\ req.onFrom /\ ~req.inSol THEN Amount(req)' ELSE 0)
         /\ SolPaid' =
              (IF Settled' /\ req.inSol THEN Amount(req)' ELSE 0)
              + (IF pc' = "done" /\ TrimInSol(req) THEN TrimAmount(req)' ELSE 0)
BY SameRequest DEF SourcePaid, SolPaid, PullsIn

(* A step that takes no more from the payer than it adds to what is paid.  *)
LEMMA PayerChange ==
  ASSUME TypeOK, PayerCovered, pc # "idle", UNCHANGED <<committed, req>>, book' \in Books,
         {SourcePaid, SolPaid, SourcePaid', SolPaid'} \subseteq Int,
         \A a \in TokenAccounts \ {req.dst} :
           /\ OwnerOf[a] \notin {Payer, SaAuthority} => Have(book, a)' >= Have(book, a)
           /\ OwnerOf[a] = Payer =>
                book'.tok[a] >= book.tok[a] - At(a, req.src, SourcePaid' - SourcePaid),
         book'.sol[Payer] >= book.sol[Payer] - (SolPaid' - SolPaid),
         \A a \in SolAccounts \ {Payer, SaAuthority} : book'.sol[a] >= book.sol[a]
  PROVE  PayerCovered'
<1>1. book \in Books /\ committed \in Books /\ Payer \in SolAccounts
  BY CommissionAccountsAssumption DEF TypeOK
<1>2. ASSUME NEW a \in TokenAccounts \ {req.dst}, OwnerOf[a] \notin {Payer, SaAuthority}
      PROVE  Have(book, a)' >= Have(committed, a)'
  <2>1. Have(book, a)' >= Have(book, a) /\ Have(book, a) >= Have(committed, a)
    BY <1>2 DEF PayerCovered
  <2>2. /\ Have(book, a) \in Int /\ Have(committed, a) \in Int /\ Have(book, a)' \in Int
        /\ Have(committed, a)' = Have(committed, a)
    BY <1>1 DEF Books, Have
  <2> QED
    BY <2>1, <2>2
<1>3. ASSUME NEW a \in TokenAccounts \ {req.dst}, OwnerOf[a] = Payer
      PROVE  book'.tok[a] >= committed'.tok[a] - (IF a = req'.src THEN SourcePaid' ELSE 0)
  <2>1. /\ book'.tok[a] >= book.tok[a] - At(a, req.src, SourcePaid' - SourcePaid)
        /\ book.tok[a] >= committed.tok[a] - (IF a = req.src THEN SourcePaid ELSE 0)
    BY <1>3 DEF PayerCovered
  <2>2. book.tok[a] \in Int /\ committed.tok[a] \in Int /\ book'.tok[a] \in Int
    BY <1>1 DEF Books
  <2>3. SourcePaid \in Int /\ SourcePaid' \in Int
    OBVIOUS
  <2> QED
    BY <2>1, <2>2, <2>3 DEF At
<1>4. book'.sol[Payer] >= committed'.sol[Payer] - SolPaid'
  <2>1. book.sol[Payer] >= committed.sol[Payer] - SolPaid
    BY DEF PayerCovered
  <2>2. book.sol[Payer] \in Int /\ committed.sol[Payer] \in Int /\ book'.sol[Payer] \in Int
    BY <1>1 DEF Books
  <2>3. SolPaid \in Int /\ SolPaid' \in Int
    OBVIOUS
  <2> QED
    BY <2>1, <2>2, <2>3
<1>5. ASSUME NEW a \in SolAccounts \ {Payer, SaAuthority}
      PROVE  book'.sol[a] >= committed'.sol[a]
  <2>1. book'.sol[a] >= book.sol[a] /\ book.sol[a] >= committed.sol[a]
    BY DEF PayerCovered
  <2> QED
    BY <1>1, <2>1 DEF Books
<1> QED
  BY <1>2, <1>3, <1>4, <1>5 DEF PayerCovered

LEMMA PayerStep ==
  ASSUME CommissionInv, [Next]_vars
  PROVE  PayerCovered'
<1>0. /\ TypeOK /\ HandlerInv /\ PayerCovered
      /\ SaAuthority \in SolAccounts /\ Payer \in SolAccounts /\ SaAuthority # Payer
  BY CommissionAccountsAssumption DEF CommissionInv
<1>1. ASSUME NEW r \in Requests, Begin(r) PROVE PayerCovered'
  <2>1. /\ IsRequest(r) /\ committed \in Books /\ committed' = committed /\ req' = r
        /\ OwnerOf[r.src] = Payer /\ r.amountIn \in Nat /\ pc' = "swap" /\ spent' = 0
        /\ book' \in Books /\ book'.sol = committed.sol /\ book'.excess = committed.excess
        /\ PullsIn(r) => r.srcSa \in SaAccounts
    BY <1>0, <1>1, BeginEffect, RequestShape DEF TypeOK, PullsIn
  <2>2. /\ SourcePaid' = IF PullsIn(r) THEN r.amountIn ELSE 0
        /\ SolPaid' = 0
    BY <2>1 DEF SourcePaid, SolPaid, Settled, PullsIn
  <2>3. ASSUME NEW a \in TokenAccounts
        PROVE  /\ OwnerOf[a] \notin {Payer, SaAuthority} => Have(book, a)' >= Have(committed, a)'
               /\ OwnerOf[a] = Payer => book'.tok[a] >= committed'.tok[a]
                                           - (IF a = req'.src THEN SourcePaid' ELSE 0)
    <3>1. book'.tok[a] = committed.tok[a]
                - (IF PullsIn(r) /\ a = r.src THEN r.amountIn ELSE 0)
                + (IF PullsIn(r) /\ a = r.srcSa THEN r.amountIn ELSE 0)
      BY <1>0, <1>1, BeginEffect
    <3>2. committed.tok[a] \in Nat /\ committed.excess[a] \in Nat
      BY <2>1 DEF Books
    <3> QED
      BY <2>1, <2>2, <3>1, <3>2 DEF Have
  <2>4. \A a \in SolAccounts : book'.sol[a] >= committed'.sol[a] - 0 /\ book'.sol[a] >= committed'.sol[a]
    BY <2>1 DEF Books
  <2> QED
    BY <1>0, <2>2, <2>3, <2>4 DEF PayerCovered
<1>2. CASE ExecuteSwap
  <2>1. /\ pc = "swap" /\ pc' = "after" /\ UNCHANGED <<committed, req>>
        /\ IsRequest(req) /\ spent = 0 /\ spent' \in Nat /\ out' \in Nat
        /\ OwnerOf[req.src] = Payer /\ req.amountIn \in Nat
        /\ book \in Books /\ book' \in Books
        /\ book'.sol = book.sol /\ book'.excess = book.excess
        /\ req.srcSa # None => ThroughSource(req)
        /\ PullsIn(req) => req.srcSa \in SaAccounts
    BY <1>0, <1>2, SwapEffect, RequestShape DEF TypeOK, HandlerInv
  <2>2. /\ PullsIn(req) => SwapSource(req) = req.srcSa /\ req.srcSa \in SaAccounts
        /\ ~PullsIn(req) => SwapSource(req) = req.src
    BY <2>1 DEF PullsIn, SwapSource, ThroughSource
  <2>3. /\ SourcePaid = IF PullsIn(req) THEN req.amountIn ELSE 0
        /\ SourcePaid' = IF PullsIn(req) THEN req.amountIn ELSE spent'
        /\ SolPaid = 0 /\ SolPaid' = 0
    <3>1. SourcePaid = (IF PullsIn(req) THEN req.amountIn ELSE 0) + 0 /\ SolPaid = 0
      BY <2>1 DEF SourcePaid, SolPaid, Settled
    <3>2. SourcePaid' = (IF PullsIn(req) THEN req.amountIn ELSE spent') + 0 /\ SolPaid' = 0
      BY <2>1, PaidNext DEF Settled
    <3> QED
      BY <2>1, <3>1, <3>2
  <2>3a. SourcePaid' - SourcePaid = IF PullsIn(req) THEN 0 ELSE spent'
    BY <2>1, <2>3
  <2>4. ASSUME NEW a \in TokenAccounts
        PROVE  /\ OwnerOf[a] \notin {Payer, SaAuthority} => Have(book, a)' >= Have(book, a)
               /\ OwnerOf[a] = Payer =>
                    book'.tok[a] >= book.tok[a] - At(a, req.src, SourcePaid' - SourcePaid)
    <3>1. book'.tok[a] = book.tok[a]
            - (IF a = SwapSource(req) /\ SwapSource(req) # SwapDestination(req)
               THEN spent' ELSE 0)
            + (IF a = SwapDestination(req) THEN out' ELSE 0)
      BY <1>0, <1>2, SwapEffect
    <3>2. book.tok[a] \in Nat /\ book.excess[a] \in Nat
      BY <2>1 DEF Books
    <3>3. OwnerOf[a] # SaAuthority => book'.tok[a] >= book.tok[a] - At(a, req.src, SourcePaid' - SourcePaid)
      <4>1. CASE PullsIn(req)
        <5>1. OwnerOf[a] # SaAuthority => a # SwapSource(req)
          BY <2>2, <4>1, VaultApart
        <5>2. At(a, req.src, SourcePaid' - SourcePaid) = 0
          BY <2>1, <2>3, <4>1 DEF At
        <5> QED
          BY <2>1, <3>1, <3>2, <5>1, <5>2
      <4>2. CASE ~PullsIn(req)
        <5>0. SwapSource(req) = req.src /\ SourcePaid = 0 /\ SourcePaid' = spent' /\ spent' \in Nat
          BY <2>1, <2>2, <2>3, <4>2
        <5>1. SourcePaid' - SourcePaid = spent'
          BY <2>3a, <4>2
        <5>2. At(a, req.src, SourcePaid' - SourcePaid) = IF a = req.src THEN spent' ELSE 0
          BY <5>1 DEF At
        <5> DEFINE minus == IF a = SwapSource(req) /\ SwapSource(req) # SwapDestination(req)
                            THEN spent' ELSE 0
                   plus == IF a = SwapDestination(req) THEN out' ELSE 0
        <5>3. plus \in Nat /\ minus \in Nat /\ minus <= At(a, req.src, SourcePaid' - SourcePaid)
          BY <2>1, <5>0, <5>1, <5>2
        <5>4. book'.tok[a] = book.tok[a] - minus + plus
          BY <3>1
        <5>5. At(a, req.src, SourcePaid' - SourcePaid) \in Int
          BY <2>1, <5>2
        <5> HIDE DEF minus, plus
        <5> QED
          BY <3>2, <5>3, <5>4, <5>5
      <4> QED
        BY <4>1, <4>2
    <3>4. OwnerOf[a] # Payer => At(a, req.src, SourcePaid' - SourcePaid) = 0
      BY <2>1 DEF At
    <3>5. OwnerOf[a] \notin {Payer, SaAuthority} => Have(book, a)' >= Have(book, a)
      <4> SUFFICES ASSUME OwnerOf[a] \notin {Payer, SaAuthority} PROVE Have(book, a)' >= Have(book, a)
        OBVIOUS
      <4>1. book'.tok[a] >= book.tok[a]
        BY <3>2, <3>3, <3>4
      <4>2. book'.tok[a] \in Nat /\ book'.excess[a] = book.excess[a]
        BY <2>1 DEF Books
      <4> QED
        BY <3>2, <4>1, <4>2 DEF Have
    <3> QED
      BY <1>0, <3>3, <3>5
  <2>5. /\ book'.sol[Payer] >= book.sol[Payer] - (SolPaid' - SolPaid)
        /\ \A a \in SolAccounts : book'.sol[a] >= book.sol[a]
    BY <1>0, <2>1, <2>3 DEF Books
  <2>6. {SourcePaid, SolPaid, SourcePaid', SolPaid'} \subseteq Int
    BY <2>1, <2>3
  <2> QED
    BY <1>0, <2>1, <2>4, <2>5, <2>6, PayerChange
<1>3. CASE FinishSwap
  <2>1. /\ pc = "after" /\ UNCHANGED <<committed, req, spent>>
        /\ IsRequest(req) /\ spent \in Nat /\ out \in Nat /\ out' \in Nat
        /\ book \in Books /\ book' \in Books /\ req.amountIn \in Nat
        /\ book'.sol = book.sol /\ book'.excess = book.excess
    BY <1>0, <1>3, FinishSwapEffect, RequestShape DEF TypeOK
  <2>2. pc' \in {"commission", "bridge", "done"} /\ (pc' # "commission" => req.version = 0)
    <3>1. pc' = AfterSwap /\ req.version \in 0..2 /\ req.bridge \in BOOLEAN
      BY <1>0, <1>3, <2>1, FinishSwapEffect, RequestShape
    <3> QED
      BY <3>1 DEF AfterSwap
  <2>3. /\ SourcePaid = IF PullsIn(req) THEN req.amountIn ELSE spent
        /\ SourcePaid' = IF PullsIn(req) THEN req.amountIn ELSE spent
        /\ SolPaid = 0 /\ SolPaid' = 0
    <3>1. SourcePaid = (IF PullsIn(req) THEN req.amountIn ELSE spent) + 0 /\ SolPaid = 0
      BY <2>1 DEF SourcePaid, SolPaid, Settled
    <3>2. /\ Settled' => Amount(req)' = 0 /\ TrimAmount(req)' = 0
          /\ pc' = "done" => Settled'
      BY <2>1, <2>2, NothingDue, NoTrim DEF Settled
    <3>3. SourcePaid' = (IF PullsIn(req) THEN req.amountIn ELSE spent) + 0 /\ SolPaid' = 0
      BY <2>1, <3>2, PaidNext
    <3> QED
      BY <2>1, <3>1, <3>3
  <2>4. {SourcePaid, SolPaid, SourcePaid', SolPaid'} \subseteq Int
        /\ SourcePaid' - SourcePaid = 0 /\ SolPaid' - SolPaid = 0
    BY <2>1, <2>3
  <2>5. ASSUME NEW a \in TokenAccounts
        PROVE  /\ OwnerOf[a] \notin {Payer, SaAuthority} => Have(book, a)' >= Have(book, a)
               /\ OwnerOf[a] = Payer =>
                    book'.tok[a] >= book.tok[a] - At(a, req.src, SourcePaid' - SourcePaid)
    <3>1. book'.tok[a] = book.tok[a]
            - (IF HandsOver(req) /\ a = req.dstSa THEN out ELSE 0)
            + (IF HandsOver(req) /\ a = req.dst THEN out ELSE 0)
      BY <1>0, <1>3, FinishSwapEffect
    <3>2. book.tok[a] \in Nat /\ book.excess[a] \in Nat
      BY <2>1 DEF Books
    <3>3. HandsOver(req) /\ a = req.dstSa => OwnerOf[a] = SaAuthority
      BY <1>0, <1>3, FinishSwapEffect, VaultApart
    <3>4. OwnerOf[a] # SaAuthority => book'.tok[a] >= book.tok[a] /\ book'.tok[a] \in Nat
      BY <2>1, <3>1, <3>2, <3>3
    <3>5. At(a, req.src, SourcePaid' - SourcePaid) = 0
      BY <2>4 DEF At
    <3> QED
      BY <1>0, <2>1, <3>2, <3>4, <3>5 DEF Have
  <2>6. /\ book'.sol[Payer] >= book.sol[Payer] - (SolPaid' - SolPaid)
        /\ \A a \in SolAccounts : book'.sol[a] >= book.sol[a]
    BY <1>0, <2>1, <2>4 DEF Books
  <2> QED
    BY <1>0, <2>1, <2>4, <2>5, <2>6, PayerChange
<1>4. CASE CommissionSol \/ CommissionToken
  <2>1. /\ pc = "commission" /\ UNCHANGED <<committed, req, spent, swapped, out>>
        /\ IsRequest(req) /\ book \in Books /\ spent \in Nat /\ req.amountIn \in Nat
        /\ Amount(req) \in Nat /\ PlatformPart(req) \in 0..Amount(req)
        /\ req.inSol \in BOOLEAN /\ req.onFrom \in BOOLEAN
        /\ req.dst \in TokenAccounts /\ OwnerOf[req.src] = Payer
    BY <1>0, <1>4, CommissionCommon, RequestShape DEF TypeOK
  <2>2. pc' \in {"bridge", "trim"}
    BY <1>0, <1>4, CommissionCommon DEF AfterCommission
  <2> DEFINE A == Amount(req)
             P == PlatformPart(req)
             pa == PlatformAccount(req)
             ca == req.commissionAccount
             paid == IF PullsIn(req) THEN req.amountIn ELSE spent
  <2>3. P \in Nat /\ A \in Nat /\ A - P \in Nat /\ paid \in Nat
    BY <2>1
  <2>4. /\ SourcePaid = paid /\ SourcePaid' = paid + (IF req.onFrom /\ ~req.inSol THEN A ELSE 0)
        /\ SolPaid = 0 /\ SolPaid' = IF req.inSol THEN A ELSE 0
    <3>1. SourcePaid = paid + 0 /\ SolPaid = 0
      BY <2>1 DEF SourcePaid, SolPaid, Settled
    <3>2. A' = A /\ Settled' /\ pc' # "done"
      BY <2>1, <2>2, SameAmounts DEF Settled
    <3>3. /\ SourcePaid' = paid + (IF req.onFrom /\ ~req.inSol THEN A ELSE 0)
          /\ SolPaid' = (IF req.inSol THEN A ELSE 0) + 0
      BY <2>1, <3>2, PaidNext
    <3> QED
      BY <2>3, <3>1, <3>3
  <2> HIDE DEF A, P, pa, ca, paid
  <2>5. /\ {SourcePaid, SolPaid, SourcePaid', SolPaid'} \subseteq Int
        /\ SourcePaid' - SourcePaid = IF req.onFrom /\ ~req.inSol THEN A ELSE 0
        /\ SolPaid' - SolPaid = IF req.inSol THEN A ELSE 0
    BY <2>1, <2>3, <2>4
  <2>6. CASE CommissionSol
    <3> DEFINE u == Unwrapped(book)
    <3>1. /\ u \in Books /\ Freed \in Nat /\ Closing \subseteq {req.dst}
          /\ \A a \in TokenAccounts : a \notin Closing => u.tok[a] = book.tok[a] /\ u.excess[a] = book.excess[a]
          /\ \A a \in SolAccounts : u.sol[a] = book.sol[a] + At(a, Payer, Freed)
      BY <1>0, <2>1, UnwrappedEffect DEF Closing
    <3>2. PaidInSol(u, book', Payer, A, pa, P, ca) /\ req.inSol
      BY <1>0, <2>6, CommissionSolEffect DEF A, pa, P, ca
    <3> HIDE DEF u
    <3>3. /\ book' \in Books /\ book'.tok = u.tok
          /\ \A a \in SolAccounts :
               book'.sol[a] = u.sol[a] - At(a, Payer, A) + At(a, pa, P) + At(a, ca, A - P)
          /\ \A a \in TokenAccounts : book'.excess[a] = u.excess[a] + At(a, pa, P) + At(a, ca, A - P)
      BY <3>2 DEF PaidInSol
    <3>4. ASSUME NEW a \in TokenAccounts \ {req.dst}
          PROVE  /\ OwnerOf[a] \notin {Payer, SaAuthority} => Have(book, a)' >= Have(book, a)
                 /\ OwnerOf[a] = Payer =>
                      book'.tok[a] >= book.tok[a] - At(a, req.src, SourcePaid' - SourcePaid)
      <4>1. book'.tok[a] = book.tok[a] /\ book'.excess[a] = book.excess[a] + At(a, pa, P) + At(a, ca, A - P)
        BY <3>1, <3>3
      <4>2. book.tok[a] \in Nat /\ book.excess[a] \in Nat
        BY <2>1 DEF Books
      <4>3. At(a, pa, P) \in Nat /\ At(a, ca, A - P) \in Nat
            /\ At(a, req.src, SourcePaid' - SourcePaid) = 0
        BY <2>3, <2>5, <3>2 DEF At
      <4> QED
        BY <4>1, <4>2, <4>3 DEF Have
    <3>5. ASSUME NEW a \in SolAccounts
          PROVE  book'.sol[a] >= book.sol[a] - At(a, Payer, A)
      <4>1. book.sol[a] \in Nat /\ At(a, Payer, Freed) \in Nat /\ At(a, ca, A - P) \in Nat
            /\ At(a, Payer, A) \in Nat /\ At(a, pa, P) \in Nat
        BY <2>1, <2>3, <3>1 DEF Books, At
      <4>2. book'.sol[a] = u.sol[a] - At(a, Payer, A) + At(a, pa, P) + At(a, ca, A - P)
            /\ u.sol[a] = book.sol[a] + At(a, Payer, Freed)
        BY <3>1, <3>3
      <4> QED
        BY <4>1, <4>2
    <3>6. book'.sol[Payer] >= book.sol[Payer] - (SolPaid' - SolPaid)
      BY <1>0, <2>5, <3>2, <3>5 DEF At
    <3>7. ASSUME NEW a \in SolAccounts \ {Payer, SaAuthority}
          PROVE  book'.sol[a] >= book.sol[a]
      <4>1. At(a, Payer, A) = 0 /\ book.sol[a] \in Int
        BY <2>1 DEF At, Books
      <4>2. book'.sol[a] >= book.sol[a] - At(a, Payer, A)
        BY <3>5
      <4> QED
        BY <4>1, <4>2
    <3> QED
      BY <1>0, <2>1, <2>5, <3>3, <3>4, <3>6, <3>7, PayerChange
  <2>7. CASE CommissionToken
    <3> DEFINE c == ChargedAccount(req)
    <3>1. /\ A > 0 => OwnerOf[c] = Payer
          /\ PaidInTokens(book, book', c, A, pa, P, ca) /\ ~req.inSol
      BY <1>0, <2>7, CommissionTokenEffect DEF A, pa, P, ca
    <3>2. c = IF req.onFrom THEN req.src ELSE req.dst
      BY DEF ChargedAccount
    <3> HIDE DEF c
    <3>3. /\ book' \in Books /\ book'.sol = book.sol /\ book'.excess = book.excess
          /\ \A a \in TokenAccounts :
               book'.tok[a] = book.tok[a] - At(a, c, A) + At(a, pa, P) + At(a, ca, A - P)
      BY <3>1 DEF PaidInTokens
    <3>4. ASSUME NEW a \in TokenAccounts \ {req.dst}
          PROVE  /\ OwnerOf[a] \notin {Payer, SaAuthority} => Have(book, a)' >= Have(book, a)
                 /\ OwnerOf[a] = Payer =>
                      book'.tok[a] >= book.tok[a] - At(a, req.src, SourcePaid' - SourcePaid)
      <4>1. book'.tok[a] = book.tok[a] - At(a, c, A) + At(a, pa, P) + At(a, ca, A - P)
        BY <3>3
      <4>2. book.tok[a] \in Nat /\ book.excess[a] \in Nat
        BY <2>1 DEF Books
      <4>3. At(a, pa, P) \in Nat /\ At(a, ca, A - P) \in Nat
        BY <2>3 DEF At
      <4>4. At(a, c, A) = At(a, req.src, SourcePaid' - SourcePaid) /\ At(a, c, A) \in Nat
        BY <2>3, <2>5, <3>1, <3>2 DEF At
      <4>5. OwnerOf[a] # Payer => At(a, c, A) = 0
        BY <2>3, <3>1 DEF At
      <4> QED
        BY <3>3, <4>1, <4>2, <4>3, <4>4, <4>5 DEF Have
    <3>5. /\ book'.sol[Payer] >= book.sol[Payer] - (SolPaid' - SolPaid)
          /\ \A a \in SolAccounts : book'.sol[a] >= book.sol[a]
      BY <1>0, <2>1, <2>5, <3>1, <3>3 DEF Books
    <3> QED
      BY <1>0, <2>1, <2>5, <3>3, <3>4, <3>5, PayerChange
  <2> QED
    BY <1>4, <2>6, <2>7
<1>5. CASE Trim \/ BridgeToLog
  <2>1. /\ pc \in {"trim", "bridge"} /\ pc' = "done" /\ (pc = "bridge" <=> req.bridge)
        /\ UNCHANGED <<committed, req, spent, swapped, out>>
        /\ IsRequest(req) /\ book \in Books /\ book' \in Books /\ RatesAllowed(req)
        /\ out \in Nat /\ spent \in Nat /\ req.amountIn \in Nat
    BY <1>0, <1>5, TrimEffect, BridgeEffect, RequestShape DEF TypeOK, HandlerInv, Settled
  <2> DEFINE A == Amount(req)
             x == TrimAmount(req)
             paid == (IF PullsIn(req) THEN req.amountIn ELSE spent)
                     + (IF req.onFrom /\ ~req.inSol THEN A ELSE 0)
             owed == IF req.inSol THEN A ELSE 0
  <2>2. A \in Nat /\ x \in Nat /\ paid \in Nat /\ owed \in Nat
    BY <2>1, CommissionShare, TrimShare
  <2>3. pc = "bridge" => x = 0
    BY <2>1, <2>2, RequestShape, TrimShare
  <2>4. /\ SourcePaid = paid /\ SourcePaid' = paid
        /\ SolPaid = owed + 0 /\ SolPaid' = owed + (IF TrimInSol(req) THEN x ELSE 0)
    <3>1. A' = A /\ x' = x /\ Settled /\ Settled'
      BY <2>1, SameAmounts DEF Settled
    <3>2. SourcePaid = paid /\ SolPaid = owed + 0
      BY <2>1, <3>1 DEF SourcePaid, SolPaid
    <3>3. SourcePaid' = paid /\ SolPaid' = owed + (IF TrimInSol(req) THEN x ELSE 0)
      BY <2>1, <3>1, PaidNext
    <3> QED
      BY <3>2, <3>3
  <2> HIDE DEF A, x, paid, owed
  <2>5. /\ {SourcePaid, SolPaid, SourcePaid', SolPaid'} \subseteq Int
        /\ SourcePaid' - SourcePaid = 0
        /\ SolPaid' - SolPaid = IF TrimInSol(req) THEN x ELSE 0
    BY <2>2, <2>4
  <2>6. CASE Trim
    <3>1. ASSUME NEW a \in TokenAccounts \ {req.dst}
          PROVE  /\ OwnerOf[a] \notin {Payer, SaAuthority} => Have(book, a)' >= Have(book, a)
                 /\ OwnerOf[a] = Payer =>
                      book'.tok[a] >= book.tok[a] - At(a, req.src, SourcePaid' - SourcePaid)
      <4>1. book.tok[a] \in Nat /\ book.excess[a] \in Nat
        BY <2>1 DEF Books
      <4>2. /\ At(a, req.trimAccount, x) \in Nat /\ At(a, req.dst, x) = 0
            /\ At(a, req.src, SourcePaid' - SourcePaid) = 0
        BY <2>2, <2>5 DEF At
      <4>3. CASE TrimInSol(req)
        <5>1. book'.tok = book.tok /\ book'.excess[a] = book.excess[a] + At(a, req.trimAccount, x)
          BY <1>0, <2>6, <4>3, TrimEffect DEF x
        <5> QED
          BY <4>1, <4>2, <5>1 DEF Have
      <4>4. CASE ~TrimInSol(req)
        <5>1. /\ book'.excess = book.excess
              /\ book'.tok[a] = book.tok[a] - At(a, req.dst, x) + At(a, req.trimAccount, x)
          BY <1>0, <2>6, <4>4, TrimEffect DEF x
        <5> QED
          BY <4>1, <4>2, <5>1 DEF Have
      <4> QED
        BY <4>3, <4>4
    <3>2. ASSUME NEW a \in SolAccounts
          PROVE  book'.sol[a] >= book.sol[a] - At(a, Payer, SolPaid' - SolPaid)
      <4>1. book.sol[a] \in Nat /\ At(a, req.trimAccount, x) \in Nat
        BY <2>1, <2>2 DEF Books, At
      <4>2. TrimInSol(req) =>
              book'.sol[a] = book.sol[a] - At(a, Payer, x) + At(a, req.trimAccount, x)
        BY <1>0, <2>6, TrimEffect DEF x
      <4>3. ~TrimInSol(req) => book'.sol = book.sol
        BY <1>0, <2>6, TrimEffect
      <4> QED
        BY <2>2, <2>5, <4>1, <4>2, <4>3 DEF At
    <3>3. book'.sol[Payer] >= book.sol[Payer] - (SolPaid' - SolPaid)
      BY <1>0, <3>2 DEF At
    <3>4. ASSUME NEW a \in SolAccounts \ {Payer, SaAuthority}
          PROVE  book'.sol[a] >= book.sol[a]
      <4>1. At(a, Payer, SolPaid' - SolPaid) = 0 /\ book.sol[a] \in Int
        BY <2>1 DEF At, Books
      <4>2. book'.sol[a] >= book.sol[a] - At(a, Payer, SolPaid' - SolPaid)
        BY <3>2
      <4> QED
        BY <4>1, <4>2
    <3> QED
      BY <1>0, <2>1, <2>5, <3>1, <3>3, <3>4, PayerChange
  <2>7. CASE BridgeToLog
    <3>0. pc = "bridge" /\ x = 0
      BY <1>0, <2>3, <2>7, BridgeEffect
    <3>1. book'.sol = book.sol /\ book'.excess = book.excess
          /\ \A a \in TokenAccounts : book'.tok[a] = book.tok[a] - At(a, req.dst, out)
      BY <1>0, <2>7, BridgeEffect
    <3>2. ASSUME NEW a \in TokenAccounts \ {req.dst}
          PROVE  /\ OwnerOf[a] \notin {Payer, SaAuthority} => Have(book, a)' >= Have(book, a)
                 /\ OwnerOf[a] = Payer =>
                      book'.tok[a] >= book.tok[a] - At(a, req.src, SourcePaid' - SourcePaid)
      <4>1. book.tok[a] \in Nat /\ book.excess[a] \in Nat
        BY <2>1 DEF Books
      <4>2. At(a, req.dst, out) = 0 /\ At(a, req.src, SourcePaid' - SourcePaid) = 0
        BY <2>5 DEF At
      <4> QED
        BY <3>1, <4>1, <4>2 DEF Have
    <3>3. /\ book'.sol[Payer] >= book.sol[Payer] - (SolPaid' - SolPaid)
          /\ \A a \in SolAccounts : book'.sol[a] >= book.sol[a]
      BY <1>0, <2>1, <2>5, <3>0, <3>1 DEF Books
    <3> QED
      BY <1>0, <2>1, <2>5, <3>2, <3>3, PayerChange
  <2> QED
    BY <1>5, <2>6, <2>7
<1>6. CASE Finish \/ Fail
  BY <1>6 DEF PayerCovered, Finish, Fail
<1>7. CASE UNCHANGED vars
  <2>1. req' = req /\ out' = out /\ pc' = pc /\ spent' = spent /\ book' = book
        /\ committed' = committed /\ swapped' = swapped
    BY <1>7 DEF vars
  <2>2. SourcePaid' = SourcePaid /\ SolPaid' = SolPaid
    <3>1. Amount(req)' = Amount(req) /\ TrimAmount(req)' = TrimAmount(req)
      BY <2>1, SameAmounts
    <3> QED
      BY <2>1, <3>1, PaidNext DEF SourcePaid, SolPaid, Settled
  <2> QED
    BY <1>0, <2>1, <2>2 DEF PayerCovered, Have
<1> QED
  BY <1>1, <1>2, <1>3, <1>4, <1>5, <1>6, <1>7 DEF Next

-----------------------------------------------------------------------------
(* The accounts of the fees.                                               *)

Payees == FeeAccounts \ (SaAccounts \cup {None})

(* No account doubles as another one's, nor the output as a fee's.         *)
PayeesApart ==
  ThirdParties /\ (ThroughDestination(req) => req.dstSa \in SaAccounts)

LEMMA FeesNext ==
  ASSUME req' = req, NEW a
  PROVE  FeesDue(a)' =
           (IF Settled' /\ a = req.commissionAccount
            THEN Amount(req)' - PlatformPart(req)' ELSE 0)
           + (IF Settled' /\ a = PlatformAccount(req) THEN PlatformPart(req)' ELSE 0)
           + (IF pc' = "done" /\ a = req.trimAccount THEN TrimAmount(req)' ELSE 0)
BY SameRequest DEF FeesDue

(* What the platform gets comes with a rate, so its account is one of them. *)
LEMMA PayeesType ==
  ASSUME IsRequest(req)
  PROVE  /\ Payees \subseteq TokenAccounts \cup SolAccounts
         /\ req.platformRate > 0 => PlatformAccount(req) \in FeeAccounts
BY RequestShape DEF Payees, FeeAccounts, PlatformAccount

(* They are no accounts of the payer's or the vault's that the swap touches. *)
LEMMA FeesApart ==
  ASSUME IsRequest(req), PayeesApart, NEW a \in Payees,
         PullsIn(req) => req.srcSa \in SaAccounts
  PROVE  /\ a \in SolAccounts \/ (a \in TokenAccounts /\ a \notin SolAccounts)
         /\ a # Payer /\ a # req.src /\ a # req.dst
         /\ PullsIn(req) => a # req.srcSa
         /\ SwapSource(req) # a /\ SwapDestination(req) # a
<1>1. a \in TokenAccounts \cup SolAccounts /\ a \in FeeAccounts /\ a \notin SaAccounts
  BY PayeesType DEF Payees
<1>2. a \notin {Payer, req.src, req.dst}
  BY <1>1 DEF PayeesApart, ThirdParties
<1>3. PullsIn(req) => a # req.srcSa
  BY <1>1
<1>4. ThroughSource(req) => PullsIn(req)
  BY DEF ThroughSource, PullsIn
<1> QED
  BY <1>1, <1>2, <1>3, <1>4, LedgerAssumption DEF PayeesApart, SwapSource, SwapDestination

(* A step that gives each account what it adds to what it is due.          *)
LEMMA FeesChange ==
  ASSUME TypeOK, FeesSoFar, pc # "idle", IsRequest(req), UNCHANGED <<committed, req>>,
         book' \in Books,
         \A a \in Payees : PayeesApart =>
           /\ FeesDue(a) \in Int /\ FeesDue(a)' \in Int
           /\ Holding(book', a) = Holding(book, a) + (FeesDue(a)' - FeesDue(a))
  PROVE  FeesSoFar'
<1>1. ASSUME NEW a \in Payees, PayeesApart
      PROVE  Holding(book', a) = Holding(committed, a) + FeesDue(a)'
  <2>1. a \in TokenAccounts \cup SolAccounts
    BY PayeesType
  <2>2. Holding(committed, a) \in Int /\ Holding(book, a) \in Int
    BY <2>1 DEF TypeOK, Books, Holding
  <2>3. Holding(book, a) = Holding(committed, a) + FeesDue(a)
    BY <1>1 DEF FeesSoFar, Payees, PayeesApart
  <2>4. /\ FeesDue(a) \in Int /\ FeesDue(a)' \in Int
        /\ Holding(book', a) = Holding(book, a) + (FeesDue(a)' - FeesDue(a))
    BY <1>1
  <2> QED
    BY <2>2, <2>3, <2>4
<1>2. Payees' = Payees /\ (PayeesApart' <=> PayeesApart)
  BY SameRequest DEF Payees, PayeesApart
<1>3. ASSUME NEW a \in Payees', PayeesApart'
      PROVE  Holding(book, a)' = Holding(committed, a)' + FeesDue(a)'
  BY <1>1, <1>2, <1>3 DEF Holding
<1> QED
  BY <1>3 DEF FeesSoFar, Payees, PayeesApart

LEMMA FeesStep ==
  ASSUME CommissionInv, [Next]_vars
  PROVE  FeesSoFar'
<1>0. TypeOK /\ HandlerInv /\ FeesSoFar
  BY DEF CommissionInv
<1>1. ASSUME NEW r \in Requests, Begin(r) PROVE FeesSoFar'
  <2>1. /\ IsRequest(r) /\ committed \in Books /\ committed' = committed /\ req' = r
        /\ pc' = "swap" /\ book' \in Books /\ book'.sol = committed.sol
        /\ book'.excess = committed.excess
        /\ PullsIn(r) => r.srcSa \in SaAccounts
    BY <1>0, <1>1, BeginEffect DEF TypeOK
  <2>2. ASSUME NEW a \in Payees', ThirdParties'
        PROVE  Holding(book, a)' = Holding(committed, a)' + FeesDue(a)'
    <3>0. FeesDue(a)' = 0
      BY <2>1 DEF FeesDue, Settled
    <3>1. /\ a \in {r.commissionAccount, r.trimAccount}
                     \cup (IF r.platformRate > 0 THEN {PlatformAccount(r)} ELSE {})
          /\ a # None /\ a \notin SaAccounts
      BY <2>1 DEF Payees, FeeAccounts, PlatformAccount
    <3>2. a \in TokenAccounts \cup SolAccounts
      BY <2>1, <3>1, RequestShape DEF PlatformAccount
    <3>3. a # r.src /\ (PullsIn(r) => a # r.srcSa)
      BY <2>1, <2>2, <3>1 DEF ThirdParties, Payees
    <3>4. a \in TokenAccounts => book'.tok[a] = committed.tok[a] - 0 + 0
      BY <1>0, <1>1, <3>3, BeginEffect
    <3>5. Holding(book', a) = Holding(committed, a) /\ Holding(committed, a) \in Int
      BY <2>1, <3>2, <3>4 DEF Holding, Books
    <3> QED
      BY <2>1, <3>0, <3>5 DEF Holding
  <2> QED
    BY <2>1, <2>2 DEF FeesSoFar, Payees
<1>2. CASE ExecuteSwap
  <2>1. /\ pc = "swap" /\ pc' = "after" /\ UNCHANGED <<committed, req>>
        /\ IsRequest(req) /\ book \in Books /\ book' \in Books
        /\ book'.sol = book.sol /\ book'.excess = book.excess
        /\ PullsIn(req) => req.srcSa \in SaAccounts
    BY <1>0, <1>2, SwapEffect DEF TypeOK, HandlerInv
  <2>2. ASSUME NEW a \in Payees, PayeesApart
        PROVE  /\ FeesDue(a) \in Int /\ FeesDue(a)' \in Int
               /\ Holding(book', a) = Holding(book, a) + (FeesDue(a)' - FeesDue(a))
    <3>1. FeesDue(a) = 0 /\ FeesDue(a)' = 0
      BY <2>1, FeesNext DEF FeesDue, Settled
    <3>2. a \in TokenAccounts \cup SolAccounts /\ SwapSource(req) # a /\ SwapDestination(req) # a
      BY <2>1, <2>2, FeesApart
    <3>3. a \in TokenAccounts => book'.tok[a] = book.tok[a] - 0 + 0
      BY <1>0, <1>2, <3>2, SwapEffect
    <3>4. Holding(book', a) = Holding(book, a) /\ Holding(book, a) \in Int
      BY <2>1, <3>2, <3>3 DEF Holding, Books
    <3> QED
      BY <3>1, <3>4
  <2> QED
    BY <1>0, <2>1, <2>2, FeesChange
<1>3. CASE FinishSwap
  <2>1. /\ pc = "after" /\ UNCHANGED <<committed, req>>
        /\ IsRequest(req) /\ out' \in Nat /\ book \in Books /\ book' \in Books
        /\ book'.sol = book.sol /\ book'.excess = book.excess
        /\ PullsIn(req) => req.srcSa \in SaAccounts
        /\ HandsOver(req) => req.dstSa \in SaAccounts
    BY <1>0, <1>3, FinishSwapEffect DEF TypeOK, HandlerInv
  <2>2. pc' \in {"commission", "bridge", "done"} /\ (pc' # "commission" => req.version = 0)
    <3>1. pc' = AfterSwap /\ req.version \in 0..2 /\ req.bridge \in BOOLEAN
      BY <1>0, <1>3, <2>1, FinishSwapEffect, RequestShape
    <3> QED
      BY <3>1 DEF AfterSwap
  <2>3. /\ Settled' => Amount(req)' = 0 /\ PlatformPart(req)' = 0 /\ TrimAmount(req)' = 0
        /\ pc' = "done" => Settled'
    BY <2>1, <2>2, NothingDue, NoTrim DEF Settled
  <2>4. ASSUME NEW a \in Payees, PayeesApart
        PROVE  /\ FeesDue(a) \in Int /\ FeesDue(a)' \in Int
               /\ Holding(book', a) = Holding(book, a) + (FeesDue(a)' - FeesDue(a))
    <3>1. FeesDue(a) = 0
      BY <2>1 DEF FeesDue, Settled
    <3>2. FeesDue(a)' = 0
      BY <2>1, <2>3, FeesNext
    <3>3. /\ a \in TokenAccounts \cup SolAccounts /\ a # req.dst
          /\ HandsOver(req) => a # req.dstSa
      BY <2>1, <2>4, FeesApart DEF Payees
    <3>4. a \in TokenAccounts => book'.tok[a] = book.tok[a] - 0 + 0
      BY <1>0, <1>3, <3>3, FinishSwapEffect
    <3>5. Holding(book', a) = Holding(book, a) /\ Holding(book, a) \in Int
      BY <2>1, <3>3, <3>4 DEF Holding, Books
    <3> QED
      BY <3>1, <3>2, <3>5
  <2> QED
    BY <1>0, <2>1, <2>4, FeesChange
<1>4. CASE CommissionSol \/ CommissionToken
  <2>1. /\ pc = "commission" /\ UNCHANGED <<committed, req, spent, swapped, out>>
        /\ IsRequest(req) /\ book \in Books /\ Payer \in SolAccounts
        /\ Amount(req) \in Nat /\ PlatformPart(req) \in 0..Amount(req)
        /\ req.dst \in TokenAccounts
        /\ PullsIn(req) => req.srcSa \in SaAccounts
    BY <1>0, <1>4, CommissionCommon, RequestShape, CommissionAccountsAssumption DEF HandlerInv
  <2>2. pc' \in {"bridge", "trim"}
    BY <1>0, <1>4, CommissionCommon DEF AfterCommission
  <2> DEFINE A == Amount(req)
             P == PlatformPart(req)
             pa == PlatformAccount(req)
             ca == req.commissionAccount
  <2>3. P \in Nat /\ A \in Nat /\ A - P \in Nat
    BY <2>1
  <2>4. ASSUME NEW a
        PROVE  FeesDue(a) = 0 /\ FeesDue(a)' = At(a, ca, A - P) + At(a, pa, P)
    <3>1. FeesDue(a) = 0
      BY <2>1 DEF FeesDue, Settled
    <3>2. A' = A /\ P' = P /\ Settled' /\ pc' # "done"
      BY <2>1, <2>2, SameAmounts DEF Settled
    <3>3. FeesDue(a)' = (IF a = ca THEN A - P ELSE 0) + (IF a = pa THEN P ELSE 0) + 0
      BY <2>1, <3>2, FeesNext
    <3> QED
      BY <2>3, <3>1, <3>3 DEF At
  <2>5. ~req.inSol => ca \in TokenAccounts
    BY <2>1, RequestShape
  <2> HIDE DEF A, P, pa, ca
  <2>6. ASSUME NEW a \in Payees, PayeesApart
        PROVE  Holding(book', a) = Holding(book, a) + At(a, ca, A - P) + At(a, pa, P)
    <3>0. /\ a \in SolAccounts \/ (a \in TokenAccounts /\ a \notin SolAccounts)
          /\ a # Payer /\ a # req.src /\ a # req.dst
      BY <2>1, <2>6, FeesApart
    <3>1. /\ At(a, ca, A - P) \in Nat /\ At(a, pa, P) \in Nat
          /\ At(a, Payer, A) = 0 /\ At(a, Payer, Freed) = 0
      BY <2>3, <3>0 DEF At
    <3>2. CASE CommissionSol
      <4> DEFINE u == Unwrapped(book)
      <4>1. /\ u \in Books
            /\ \A t \in TokenAccounts : t # req.dst => u.tok[t] = book.tok[t] /\ u.excess[t] = book.excess[t]
            /\ \A t \in SolAccounts : u.sol[t] = book.sol[t] + At(t, Payer, Freed)
        BY <1>0, <2>1, UnwrappedEffect DEF Closing
      <4>2. PaidInSol(u, book', Payer, A, pa, P, ca)
        BY <1>0, <3>2, CommissionSolEffect DEF A, pa, P, ca
      <4> HIDE DEF u
      <4>3. /\ book'.tok = u.tok
            /\ \A t \in SolAccounts :
                 book'.sol[t] = u.sol[t] - At(t, Payer, A) + At(t, pa, P) + At(t, ca, A - P)
            /\ \A t \in TokenAccounts : book'.excess[t] = u.excess[t] + At(t, pa, P) + At(t, ca, A - P)
        BY <4>2 DEF PaidInSol
      <4>4. CASE a \in SolAccounts
        <5>1. /\ u.sol[a] = book.sol[a] + 0 /\ book.sol[a] \in Nat
              /\ book'.sol[a] = u.sol[a] - 0 + At(a, pa, P) + At(a, ca, A - P)
          BY <2>1, <3>1, <4>1, <4>3, <4>4 DEF Books
        <5>2. book'.sol[a] = book.sol[a] + At(a, ca, A - P) + At(a, pa, P)
          BY <3>1, <5>1
        <5> QED
          BY <4>4, <5>2 DEF Holding
      <4>5. CASE a \notin SolAccounts
        <5>1. /\ book'.tok[a] = book.tok[a] /\ book.tok[a] \in Nat /\ book.excess[a] \in Nat
              /\ book'.excess[a] = book.excess[a] + At(a, pa, P) + At(a, ca, A - P)
          BY <2>1, <3>0, <4>1, <4>3, <4>5 DEF Books
        <5>2. book'.tok[a] + book'.excess[a]
                = book.tok[a] + book.excess[a] + At(a, ca, A - P) + At(a, pa, P)
          BY <3>1, <5>1
        <5> QED
          BY <4>5, <5>2 DEF Holding
      <4> QED
        BY <4>4, <4>5
    <3>3. CASE CommissionToken
      <4> DEFINE c == ChargedAccount(req)
      <4>1. /\ PaidInTokens(book, book', c, A, pa, P, ca) /\ ~req.inSol
            /\ P > 0 => pa \in book.open
        BY <1>0, <3>3, CommissionTokenEffect DEF A, pa, P, ca
      <4>2. c = req.src \/ c = req.dst
        BY DEF ChargedAccount
      <4> HIDE DEF c
      <4>3. ca \in TokenAccounts /\ (P > 0 => pa \in TokenAccounts)
        BY <2>1, <2>5, <4>1 DEF Books
      <4>4. /\ book'.sol = book.sol /\ book'.excess = book.excess
            /\ \A t \in TokenAccounts :
                 book'.tok[t] = book.tok[t] - At(t, c, A) + At(t, pa, P) + At(t, ca, A - P)
        BY <4>1 DEF PaidInTokens
      <4>5. CASE a \in SolAccounts
        <5>1. At(a, ca, A - P) = 0 /\ At(a, pa, P) = 0 /\ book.sol[a] \in Nat
          BY <2>1, <2>3, <4>3, <4>5, LedgerAssumption DEF At, Books
        <5> QED
          BY <4>4, <4>5, <5>1 DEF Holding
      <4>6. CASE a \notin SolAccounts
        <5>1. At(a, c, A) = 0
          BY <3>0, <4>2 DEF At
        <5>2. /\ book'.tok[a] = book.tok[a] - 0 + At(a, pa, P) + At(a, ca, A - P)
              /\ book'.excess[a] = book.excess[a] /\ book.tok[a] \in Nat /\ book.excess[a] \in Nat
          BY <2>1, <3>0, <4>4, <4>6, <5>1 DEF Books
        <5>3. book'.tok[a] + book'.excess[a]
                = book.tok[a] + book.excess[a] + At(a, ca, A - P) + At(a, pa, P)
          BY <3>1, <5>2
        <5> QED
          BY <4>6, <5>3 DEF Holding
      <4> QED
        BY <4>5, <4>6
    <3> QED
      BY <1>4, <3>2, <3>3
  <2>7. ASSUME NEW a \in Payees, PayeesApart
        PROVE  /\ FeesDue(a) \in Int /\ FeesDue(a)' \in Int
               /\ Holding(book', a) = Holding(book, a) + (FeesDue(a)' - FeesDue(a))
    <3>1. Holding(book, a) \in Int
      BY <2>1, PayeesType DEF Holding, Books
    <3>2. At(a, ca, A - P) \in Nat /\ At(a, pa, P) \in Nat
      BY <2>3 DEF At
    <3>3. Holding(book', a) = Holding(book, a) + At(a, ca, A - P) + At(a, pa, P)
      BY <2>6, <2>7
    <3> QED
      BY <2>4, <3>1, <3>2, <3>3
  <2>8. book' \in Books
    BY <1>0, <1>4, CommissionSolEffect, CommissionTokenEffect DEF PaidInSol, PaidInTokens
  <2> QED
    BY <1>0, <2>1, <2>7, <2>8, FeesChange
<1>5. CASE Trim \/ BridgeToLog
  <2>1. /\ pc \in {"trim", "bridge"} /\ pc' = "done" /\ (pc = "bridge" <=> req.bridge)
        /\ UNCHANGED <<committed, req, spent, swapped, out>> /\ Payer \in SolAccounts
        /\ IsRequest(req) /\ book \in Books /\ book' \in Books /\ RatesAllowed(req)
        /\ out \in Nat /\ (PullsIn(req) => req.srcSa \in SaAccounts)
    BY <1>0, <1>5, TrimEffect, BridgeEffect, RequestShape, CommissionAccountsAssumption
    DEF TypeOK, HandlerInv, Settled
  <2> DEFINE x == TrimAmount(req)
             ta == req.trimAccount
  <2>2. Amount(req) \in Nat /\ PlatformPart(req) \in Nat /\ x \in Nat
    <3>1. Amount(req) \in Nat /\ PlatformPart(req) \in 0..Amount(req)
      BY <2>1, CommissionShare
    <3> QED
      BY <2>1, <3>1, TrimShare
  <2>3. pc = "bridge" => x = 0
    BY <2>1, <2>2, RequestShape, TrimShare
  <2>4. ASSUME NEW a
        PROVE  FeesDue(a) \in Int /\ FeesDue(a)' = FeesDue(a) + At(a, ta, x)
    <3> DEFINE due == (IF a = req.commissionAccount THEN Amount(req) - PlatformPart(req) ELSE 0)
                      + (IF a = PlatformAccount(req) THEN PlatformPart(req) ELSE 0)
    <3>0. due \in Int
      BY <2>2
    <3>1. due' = due /\ x' = x /\ Settled /\ Settled'
      BY <2>1, SameAmounts, SameRequest DEF Settled
    <3>2. FeesDue(a) = due + 0
      BY <2>1, <3>1 DEF FeesDue
    <3>3. FeesDue(a)' = due' + (IF a = ta THEN x' ELSE 0)
      BY <2>1, <3>1, FeesNext, SameRequest
    <3> HIDE DEF due, x
    <3> QED
      BY <2>2, <3>0, <3>1, <3>2, <3>3 DEF At
  <2> HIDE DEF x, ta
  <2>5. ASSUME NEW a \in Payees, PayeesApart
        PROVE  Holding(book', a) = Holding(book, a) + At(a, ta, x)
    <3>1. /\ a \in SolAccounts \/ (a \in TokenAccounts /\ a \notin SolAccounts)
          /\ a # Payer /\ a # req.dst
      BY <2>1, <2>5, FeesApart
    <3>2. /\ a \in SolAccounts => book.sol[a] \in Nat
          /\ a \in TokenAccounts => book.tok[a] \in Nat /\ book.excess[a] \in Nat
          /\ At(a, ta, x) \in Nat
      BY <2>1, <2>2 DEF Books, At
    <3>3. At(a, Payer, x) = 0 /\ At(a, req.dst, x) = 0 /\ At(a, req.dst, out) = 0
      BY <3>1 DEF At
    <3>4. CASE Trim /\ TrimInSol(req)
      <4>1. /\ a \in SolAccounts => book'.sol[a] = book.sol[a] - 0 + At(a, ta, x)
            /\ a \in TokenAccounts => book'.excess[a] = book.excess[a] + At(a, ta, x)
            /\ book'.tok = book.tok
        BY <1>0, <3>3, <3>4, TrimEffect DEF x, ta
      <4> QED
        BY <3>1, <3>2, <4>1 DEF Holding
    <3>5. CASE Trim /\ ~TrimInSol(req)
      <4>1. /\ a \in TokenAccounts => book'.tok[a] = book.tok[a] - 0 + At(a, ta, x)
            /\ book'.excess = book.excess /\ book'.sol = book.sol
        BY <1>0, <3>3, <3>5, TrimEffect DEF x, ta
      <4>2. x > 0 => ta \in TokenAccounts
        BY <3>5 DEF Trim, x, ta
      <4>3. a \in SolAccounts => At(a, ta, x) = 0
        BY <2>2, <4>2, LedgerAssumption DEF At
      <4> QED
        BY <3>1, <3>2, <4>1, <4>3 DEF Holding
    <3>6. CASE BridgeToLog
      <4>1. /\ a \in TokenAccounts => book'.tok[a] = book.tok[a] - 0
            /\ book'.excess = book.excess /\ book'.sol = book.sol /\ pc = "bridge"
        BY <1>0, <3>3, <3>6, BridgeEffect
      <4>2. At(a, ta, x) = 0
        BY <2>3, <4>1 DEF At
      <4> QED
        BY <3>1, <3>2, <4>1, <4>2 DEF Holding
    <3> QED
      BY <1>5, <3>4, <3>5, <3>6
  <2>6. ASSUME NEW a \in Payees, PayeesApart
        PROVE  /\ FeesDue(a) \in Int /\ FeesDue(a)' \in Int
               /\ Holding(book', a) = Holding(book, a) + (FeesDue(a)' - FeesDue(a))
    <3>1. Holding(book, a) \in Int /\ At(a, ta, x) \in Int
      BY <2>1, <2>2, PayeesType DEF Holding, Books, At
    <3>2. Holding(book', a) = Holding(book, a) + At(a, ta, x)
      BY <2>5, <2>6
    <3> QED
      BY <2>4, <3>1, <3>2
  <2> QED
    BY <1>0, <2>1, <2>6, FeesChange
<1>6. CASE Finish \/ Fail
  BY <1>6 DEF FeesSoFar, Finish, Fail
<1>7. CASE UNCHANGED vars
  <2>1. req' = req /\ out' = out /\ pc' = pc /\ spent' = spent /\ book' = book
        /\ committed' = committed /\ swapped' = swapped
    BY <1>7 DEF vars
  <2>2. ASSUME NEW a PROVE FeesDue(a)' = FeesDue(a)
    <3>1. /\ Amount(req)' = Amount(req) /\ TrimAmount(req)' = TrimAmount(req)
          /\ PlatformPart(req)' = PlatformPart(req)
      BY <2>1, SameAmounts
    <3> QED
      BY <2>1, <3>1, FeesNext DEF FeesDue, Settled
  <2>3. /\ ThirdParties' <=> ThirdParties
        /\ ThroughDestination(req)' <=> ThroughDestination(req)
        /\ FeeAccounts' = FeeAccounts
    BY <2>1, SameRequest
  <2> QED
    BY <1>0, <2>1, <2>2, <2>3 DEF FeesSoFar, Holding
<1> QED
  BY <1>1, <1>2, <1>3, <1>4, <1>5, <1>6, <1>7 DEF Next

-----------------------------------------------------------------------------
(* The output.                                                             *)

LEMMA TakenNext ==
  ASSUME req' = req
  PROVE  TakenSoFar' =
           (IF Settled' /\ (~req.onFrom \/ (req.inSol /\ MintOf[req.dst] = Wsol))
            THEN Amount(req)' ELSE 0)
           + (IF pc' = "done" THEN TrimAmount(req)' + (IF req.bridge THEN out' ELSE 0) ELSE 0)
BY DEF TakenSoFar

(* Unwrapping the output moves it within the purse.                        *)
LEMMA PurseUnwrapped ==
  ASSUME book \in Books, IsRequest(req), req.dst \in book.open,
         ClosesDestination(req) => MintOf[req.dst] = Wsol
  PROVE  /\ OutputPurse(Unwrapped(book)) = OutputPurse(book)
         /\ OutputPurse(book) \in Int
<1>1. req.dst \in TokenAccounts /\ Payer \in SolAccounts /\ TOKEN_ACCOUNT_RENT \in Nat
  BY RequestShape, LedgerAssumption, CommissionAccountsAssumption
<1>2. /\ book.tok[req.dst] \in Nat /\ book.excess[req.dst] \in Nat /\ book.sol[Payer] \in Nat
      /\ Worth(book, req.dst) = book.tok[req.dst] + book.excess[req.dst] + TOKEN_ACCOUNT_RENT
  BY <1>1 DEF Books, Worth
<1>3. OutputPurse(book) \in Int
  BY <1>1, <1>2 DEF OutputPurse
<1>4. CASE ClosesDestination(req)
  <2> DEFINE u == Unwrapped(book)
  <2>1. u.open = book.open \ {req.dst}
        /\ u.sol[Payer] = book.sol[Payer] + At(Payer, Payer, Freed)
    BY <1>1, <1>4, UnwrappedEffect DEF Closing
  <2>2. Freed = book.tok[req.dst] + book.excess[req.dst] + TOKEN_ACCOUNT_RENT
    BY <1>4 DEF Freed, Have
  <2> HIDE DEF u
  <2>3. Worth(u, req.dst) = 0
    BY <2>1 DEF Worth
  <2>4. OutputPurse(u) = u.sol[Payer] + 0 /\ u.sol[Payer] = book.sol[Payer] + Freed
    BY <1>4, <2>1, <2>3 DEF OutputPurse, At
  <2>5. OutputPurse(book) = book.sol[Payer] + Worth(book, req.dst)
    BY <1>4 DEF OutputPurse
  <2> QED
    BY <1>1, <1>2, <1>3, <2>2, <2>4, <2>5 DEF u
<1>5. CASE ~ClosesDestination(req)
  BY <1>3, <1>5 DEF Unwrapped
<1> QED
  BY <1>4, <1>5

(* A purse by its parts: x is taken out of the SOL, y out of the tokens.   *)
PurseParts(b, n, x, y) ==
  /\ req.dst \in n.open <=> req.dst \in b.open
  /\ n.sol[Payer] = b.sol[Payer] - x
  /\ n.tok[req.dst] = b.tok[req.dst] - y
  /\ n.excess[req.dst] = b.excess[req.dst]
  /\ y # 0 => req.dst \in b.open

PurseLess(b, n, x, y) ==
  OutputPurse(n) = OutputPurse(b) - y - (IF MintOf[req.dst] = Wsol THEN x ELSE 0)

LEMMA PurseMoves ==
  ASSUME NEW b \in Books, NEW n \in Books, IsRequest(req), NEW x \in Int, NEW y \in Int,
         PurseParts(b, n, x, y)
  PROVE  PurseLess(b, n, x, y)
<1>0. /\ req.dst \in n.open <=> req.dst \in b.open
      /\ n.sol[Payer] = b.sol[Payer] - x
      /\ n.tok[req.dst] = b.tok[req.dst] - y
      /\ n.excess[req.dst] = b.excess[req.dst]
      /\ y # 0 => req.dst \in b.open
  BY DEF PurseParts
<1>1. req.dst \in TokenAccounts /\ Payer \in SolAccounts /\ TOKEN_ACCOUNT_RENT \in Nat
  BY RequestShape, LedgerAssumption, CommissionAccountsAssumption
<1>2. b.tok[req.dst] \in Nat /\ b.excess[req.dst] \in Nat /\ b.sol[Payer] \in Nat
  BY <1>1 DEF Books
<1>3. Worth(n, req.dst) = Worth(b, req.dst) - y /\ Worth(b, req.dst) \in Int
  <2>1. CASE req.dst \in b.open
    BY <1>0, <1>1, <1>2, <2>1 DEF Worth
  <2>2. CASE req.dst \notin b.open
    <3>1. Worth(n, req.dst) = 0 /\ Worth(b, req.dst) = 0 /\ y = 0
      BY <1>0, <2>2 DEF Worth
    <3> QED
      BY <3>1
  <2> QED
    BY <2>1, <2>2
<1>4. CASE MintOf[req.dst] = Wsol
  <2>1. /\ OutputPurse(n) = n.sol[Payer] + Worth(n, req.dst)
        /\ OutputPurse(b) = b.sol[Payer] + Worth(b, req.dst)
    BY <1>4 DEF OutputPurse
  <2> QED
    BY <1>0, <1>2, <1>3, <1>4, <2>1 DEF PurseLess
<1>5. CASE MintOf[req.dst] # Wsol
  <2>1. OutputPurse(n) = n.tok[req.dst] /\ OutputPurse(b) = b.tok[req.dst]
    BY <1>5 DEF OutputPurse
  <2> QED
    BY <1>0, <1>2, <1>5, <2>1 DEF PurseLess
<1> QED
  BY <1>4, <1>5

LEMMA PurseInt ==
  ASSUME NEW b \in Books, IsRequest(req)
  PROVE  OutputPurse(b) \in Int
<1>1. req.dst \in TokenAccounts /\ Payer \in SolAccounts /\ TOKEN_ACCOUNT_RENT \in Nat
  BY RequestShape, LedgerAssumption, CommissionAccountsAssumption
<1>2. b.tok[req.dst] \in Nat /\ b.excess[req.dst] \in Nat /\ b.sol[Payer] \in Nat
  BY <1>1 DEF Books
<1> QED
  BY <1>1, <1>2 DEF OutputPurse, Worth

(* A step that takes from the purse what it adds to what was taken.        *)
LEMMA OutputChange ==
  ASSUME TypeOK, OutputKept, pc = "commission" \/ Settled, IsRequest(req),
         UNCHANGED <<committed, req, out>>, out \in Int,
         book \in Books, book' \in Books, TakenSoFar \in Int, TakenSoFar' \in Int,
         ThirdParties =>
           OutputPurse(book') = OutputPurse(book) - (TakenSoFar' - TakenSoFar)
  PROVE  OutputKept'
<1>1. /\ OutputPurse(book)' = OutputPurse(book')
      /\ OutputPurse(committed)' = OutputPurse(committed)
      /\ ThirdParties' <=> ThirdParties
  BY SameRequest DEF OutputPurse
<1> SUFFICES ASSUME ThirdParties
             PROVE  OutputPurse(book') = OutputPurse(committed) + out - TakenSoFar'
  BY <1>1 DEF OutputKept
<1>2. OutputPurse(book) = OutputPurse(committed) + out - TakenSoFar
  BY DEF OutputKept
<1>3. OutputPurse(committed) \in Int
  BY PurseInt DEF TypeOK
<1>4. OutputPurse(book') = OutputPurse(book) - (TakenSoFar' - TakenSoFar)
  OBVIOUS
<1>5. TakenSoFar \in Int /\ TakenSoFar' \in Int /\ out \in Int
  OBVIOUS
<1> QED
  BY <1>2, <1>3, <1>4, <1>5

LEMMA OutputStep ==
  ASSUME CommissionInv, [Next]_vars
  PROVE  OutputKept'
<1>0. TypeOK /\ HandlerInv /\ OutputKept /\ Payer \in SolAccounts
  BY CommissionAccountsAssumption DEF CommissionInv
<1>1. CASE (\E r \in Requests : Begin(r)) \/ ExecuteSwap \/ Finish \/ Fail
  <2>1. pc' \in {"idle", "swap", "after"}
    BY <1>1 DEF Begin, ExecuteSwap, Finish, Fail
  <2> QED
    BY <2>1 DEF OutputKept, Settled
<1>2. CASE FinishSwap
  <2>1. /\ pc = "after" /\ UNCHANGED <<committed, req>>
        /\ IsRequest(req) /\ out' \in Nat /\ book \in Books /\ book' \in Books
        /\ committed \in Books /\ req.dst \in TokenAccounts
        /\ out' = book'.tok[req.dst] - committed.tok[req.dst]
        /\ book'.sol = committed.sol /\ book'.excess = committed.excess
        /\ book'.open = committed.open /\ req.dst \in committed.open
    BY <1>0, <1>2, FinishSwapEffect, RequestShape
    DEF TypeOK, HandlerInv, Settled, ClosedSoFar, Loaded
  <2>2. /\ pc' \in {"commission", "bridge", "done"}
        /\ pc' # "commission" => req.version = 0
        /\ pc' = "done" => ~req.bridge
    <3>1. pc' = AfterSwap /\ req.version \in 0..2 /\ req.bridge \in BOOLEAN
      BY <1>0, <1>2, <2>1, FinishSwapEffect, RequestShape
    <3> QED
      BY <3>1 DEF AfterSwap
  <2>3. TakenSoFar' = 0
    <3>1. /\ Settled' => Amount(req)' = 0 /\ TrimAmount(req)' = 0
          /\ pc' = "done" => Settled'
      BY <2>1, <2>2, NothingDue, NoTrim DEF Settled
    <3>2. TakenSoFar' = 0 + 0
      <4>1. 0 + 0 = 0
        OBVIOUS
      <4> QED
        BY <2>1, <2>2, <3>1, <4>1, TakenNext
    <3> QED
      BY <3>2
  <2>4. book'.tok[req.dst] \in Nat /\ committed.tok[req.dst] \in Nat /\ committed.sol[Payer] \in Nat
    BY <1>0, <2>1 DEF Books
  <2>5. 0 - out' \in Int /\ book'.tok[req.dst] = committed.tok[req.dst] - (0 - out')
        /\ book'.sol[Payer] = committed.sol[Payer] - 0
    BY <2>1, <2>4
  <2>6. OutputPurse(book') = OutputPurse(committed) - (0 - out')
                               - (IF MintOf[req.dst] = Wsol THEN 0 ELSE 0)
    <3>1. PurseParts(committed, book', 0, 0 - out')
      BY <2>1, <2>5 DEF PurseParts
    <3>2. PurseLess(committed, book', 0, 0 - out')
      BY <2>1, <2>5, <3>1, PurseMoves
    <3> QED
      BY <3>2 DEF PurseLess
  <2>7. OutputPurse(committed) \in Int
    BY <2>1, PurseInt
  <2>8. OutputPurse(book') = OutputPurse(committed) + out' - 0
    BY <2>1, <2>6, <2>7
  <2>9. OutputPurse(book)' = OutputPurse(book') /\ OutputPurse(committed)' = OutputPurse(committed)
    BY <2>1 DEF OutputPurse
  <2> QED
    BY <2>3, <2>8, <2>9 DEF OutputKept
<1>3. CASE CommissionSol \/ CommissionToken
  <2>1. /\ pc = "commission" /\ UNCHANGED <<committed, req, spent, swapped, out>>
        /\ IsRequest(req) /\ book \in Books /\ out \in Int
        /\ Amount(req) \in Nat /\ PlatformPart(req) \in 0..Amount(req)
        /\ PlatformPart(req) > 0 => req.platformRate > 0
        /\ req.dst \in TokenAccounts /\ req.src \in TokenAccounts
        /\ req.onFrom \in BOOLEAN /\ req.inSol \in BOOLEAN
        /\ req.dst \in book.open
    BY <1>0, <1>3, CommissionCommon, RequestShape
    DEF TypeOK, HandlerInv, Settled, ClosedSoFar, Loaded
  <2>2. pc' \in {"bridge", "trim"}
    BY <1>0, <1>3, CommissionCommon DEF AfterCommission
  <2> DEFINE A == Amount(req)
             P == PlatformPart(req)
             pa == PlatformAccount(req)
             ca == req.commissionAccount
             taken == IF ~req.onFrom \/ (req.inSol /\ MintOf[req.dst] = Wsol) THEN A ELSE 0
  <2>3. P \in Nat /\ A \in Nat /\ A - P \in Nat /\ taken \in Nat
    BY <2>1
  <2>4. TakenSoFar = 0 /\ TakenSoFar' = taken
    <3>1. TakenSoFar = 0 + 0
      BY <2>1 DEF TakenSoFar, Settled
    <3>2. A' = A /\ Settled' /\ pc' # "done"
      BY <2>1, <2>2, SameAmounts DEF Settled
    <3>3. TakenSoFar' = taken + 0
      BY <2>1, <3>2, TakenNext
    <3> QED
      BY <2>3, <3>1, <3>3
  <2>5. TakenSoFar' - TakenSoFar = taken /\ TakenSoFar \in Int /\ TakenSoFar' \in Int
    BY <2>3, <2>4
  <2>6. ThirdParties =>
          /\ At(Payer, ca, A - P) = 0 /\ At(req.dst, ca, A - P) = 0 /\ At(req.dst, pa, P) = 0
          /\ At(Payer, pa, P) = 0 /\ At(Payer, Payer, A) = A /\ req.src # req.dst
    <3>1. ThirdParties => /\ ca # Payer /\ ca # req.dst /\ req.src # req.dst
                          /\ P > 0 => pa # Payer /\ pa # req.dst
      BY <2>1, PayeesType DEF ThirdParties, FeeAccounts
    <3> QED
      BY <2>3, <3>1 DEF At
  <2>7. book' \in Books /\ (ThirdParties => OutputPurse(book') = OutputPurse(book) - taken)
    <3>1. CASE CommissionSol
      <4> DEFINE u == Unwrapped(book)
      <4>1. PaidInSol(u, book', Payer, A, pa, P, ca)
        BY <1>0, <3>1, CommissionSolEffect
      <4>2. req.inSol /\ MintOf[IF req.onFrom THEN req.src ELSE req.dst] = Wsol
        BY <1>0, <3>1, CommissionSolEffect
      <4>3. OutputPurse(u) = OutputPurse(book) /\ OutputPurse(book) \in Int
        <5>1. ClosesDestination(req) => MintOf[req.dst] = Wsol
          BY <4>2 DEF ClosesDestination
        <5> QED
          BY <2>1, <5>1, PurseUnwrapped
      <4>4. u \in Books
        BY <2>1, UnwrappedEffect
      <4>5. taken = IF MintOf[req.dst] = Wsol THEN A ELSE 0
        BY <2>1, <4>2
      <4> HIDE DEF u, A, P, pa, ca, taken
      <4>6. /\ book' \in Books /\ book'.tok = u.tok /\ book'.open = u.open
            /\ book'.sol[Payer] =
                 u.sol[Payer] - At(Payer, Payer, A) + At(Payer, pa, P) + At(Payer, ca, A - P)
            /\ book'.excess[req.dst] =
                 u.excess[req.dst] + At(req.dst, pa, P) + At(req.dst, ca, A - P)
        BY <1>0, <2>1, <4>1 DEF PaidInSol
      <4>7. ASSUME ThirdParties
            PROVE  OutputPurse(book') = OutputPurse(book) - taken
        <5>1. u.sol[Payer] \in Nat /\ u.excess[req.dst] \in Nat /\ u.tok[req.dst] \in Nat
          BY <1>0, <2>1, <4>4 DEF Books
        <5>2. /\ book'.sol[Payer] = u.sol[Payer] - A
              /\ book'.excess[req.dst] = u.excess[req.dst]
              /\ book'.tok[req.dst] = u.tok[req.dst] - 0
          BY <2>3, <2>6, <4>6, <4>7, <5>1
        <5>3. OutputPurse(book') = OutputPurse(u) - 0 - (IF MintOf[req.dst] = Wsol THEN A ELSE 0)
          <6>1. PurseParts(u, book', A, 0)
            BY <4>6, <5>2 DEF PurseParts
          <6>2. PurseLess(u, book', A, 0)
            BY <2>1, <2>3, <4>4, <4>6, <6>1, PurseMoves
          <6> QED
            BY <6>2 DEF PurseLess
        <5> QED
          BY <2>3, <4>3, <4>5, <5>3
      <4> QED
        BY <4>6, <4>7
    <3>2. CASE CommissionToken
      <4> DEFINE c == ChargedAccount(req)
      <4>1. PaidInTokens(book, book', c, A, pa, P, ca) /\ ~req.inSol
        BY <1>0, <3>2, CommissionTokenEffect
      <4>2. ThirdParties => At(req.dst, c, A) = taken
        BY <2>1, <4>1 DEF ChargedAccount, At, ThirdParties
      <4>3. OutputPurse(book) \in Int
        BY <2>1, PurseInt
      <4> HIDE DEF c, A, P, pa, ca, taken
      <4>4. /\ book' \in Books /\ book'.sol = book.sol /\ book'.open = book.open
            /\ book'.excess = book.excess
            /\ book'.tok[req.dst] = book.tok[req.dst] - At(req.dst, c, A)
                                      + At(req.dst, pa, P) + At(req.dst, ca, A - P)
        BY <2>1, <4>1 DEF PaidInTokens
      <4>5. ASSUME ThirdParties
            PROVE  OutputPurse(book') = OutputPurse(book) - taken
        <5>1. book.sol[Payer] \in Nat /\ book.tok[req.dst] \in Nat
          BY <1>0, <2>1 DEF Books
        <5>2. book'.sol[Payer] = book.sol[Payer] - 0
              /\ book'.tok[req.dst] = book.tok[req.dst] - taken
          BY <2>3, <2>6, <4>2, <4>4, <4>5, <5>1
        <5>3. OutputPurse(book') = OutputPurse(book) - taken
                                     - (IF MintOf[req.dst] = Wsol THEN 0 ELSE 0)
          <6>1. PurseParts(book, book', 0, taken)
            BY <2>1, <4>4, <5>2 DEF PurseParts
          <6>2. PurseLess(book, book', 0, taken)
            BY <2>1, <2>3, <4>4, <6>1, PurseMoves
          <6> QED
            BY <6>2 DEF PurseLess
        <5> QED
          BY <2>3, <4>3, <5>3
      <4> QED
        BY <4>4, <4>5
    <3> QED
      BY <1>3, <3>1, <3>2
  <2> HIDE DEF A, P, pa, ca, taken
  <2> QED
    BY <1>0, <2>1, <2>5, <2>7, OutputChange
<1>4. CASE Trim \/ BridgeToLog
  <2>1. /\ pc \in {"trim", "bridge"} /\ pc' = "done" /\ (pc = "bridge" <=> req.bridge)
        /\ UNCHANGED <<committed, req, spent, swapped, out>>
        /\ IsRequest(req) /\ book \in Books /\ book' \in Books /\ RatesAllowed(req)
        /\ out \in Nat /\ req.dst \in TokenAccounts /\ req.inSol \in BOOLEAN
        /\ req.bridge \in BOOLEAN /\ Settled
        /\ req.bridge => ~req.dstProgram /\ req.version # 2
        /\ req.version # 2 => req.trimRate = 0
        /\ book'.open = book.open /\ book.open = committed.open \ ClosedSoFar
        /\ req.dst \in committed.open
    BY <1>0, <1>4, TrimEffect, BridgeEffect, RequestShape DEF TypeOK, HandlerInv, Settled, Loaded
  <2>2. req.bridge \/ ~req.inSol => req.dst \in book.open
    <3>1. req.bridge \/ ~req.inSol => ClosedSoFar = {}
      BY <2>1 DEF ClosedSoFar, ClosesDestination
    <3> QED
      BY <2>1, <3>1
  <2> DEFINE A == Amount(req)
             x == TrimAmount(req)
             before == IF ~req.onFrom \/ (req.inSol /\ MintOf[req.dst] = Wsol) THEN A ELSE 0
             more == x + (IF req.bridge THEN out ELSE 0)
  <2>3. A \in Nat /\ x \in Nat /\ (req.bridge => x = 0)
    <3>1. A \in Nat
      BY <2>1, CommissionShare
    <3> QED
      BY <2>1, <3>1, TrimShare
  <2>4. before \in Nat /\ more \in Nat /\ more = IF req.bridge THEN out ELSE x
    BY <2>1, <2>3
  <2>5. TakenSoFar = before + 0 /\ TakenSoFar' = before + more
    <3>1. A' = A /\ x' = x /\ Settled /\ Settled' /\ out' = out
      BY <2>1, SameAmounts DEF Settled
    <3>2. TakenSoFar = before + 0
      BY <2>1, <3>1 DEF TakenSoFar
    <3>3. TakenSoFar' = before + more
      BY <2>1, <3>1, TakenNext
    <3> QED
      BY <3>2, <3>3
  <2> HIDE DEF A, x, before, more
  <2>6. TakenSoFar' - TakenSoFar = more /\ TakenSoFar \in Int /\ TakenSoFar' \in Int
    BY <2>4, <2>5
  <2>7. ASSUME ThirdParties
        PROVE  OutputPurse(book') = OutputPurse(book) - more
    <3>1. At(req.dst, req.trimAccount, x) = 0 /\ At(Payer, req.trimAccount, x) = 0
          /\ At(Payer, Payer, x) = x /\ At(req.dst, req.dst, x) = x /\ At(req.dst, req.dst, out) = out
      BY <2>7 DEF ThirdParties, FeeAccounts, At
    <3>2. /\ book.sol[Payer] \in Nat /\ book.tok[req.dst] \in Nat /\ book.excess[req.dst] \in Nat
          /\ OutputPurse(book) \in Int
      BY <1>0, <2>1, PurseInt DEF Books
    <3>3. CASE Trim /\ TrimInSol(req)
      <4>1. /\ book'.sol[Payer] = book.sol[Payer] - x + 0
            /\ book'.excess[req.dst] = book.excess[req.dst] + 0 /\ book'.tok = book.tok
        BY <1>0, <2>1, <3>1, <3>3, TrimEffect DEF x
      <4>2. /\ book'.sol[Payer] = book.sol[Payer] - x /\ book'.tok[req.dst] = book.tok[req.dst] - 0
            /\ book'.excess[req.dst] = book.excess[req.dst]
        BY <2>3, <3>2, <4>1
      <4>3. OutputPurse(book') = OutputPurse(book) - 0 - (IF MintOf[req.dst] = Wsol THEN x ELSE 0)
        <5>1. PurseParts(book, book', x, 0)
          BY <2>1, <4>2 DEF PurseParts
        <5>2. PurseLess(book, book', x, 0)
          BY <2>1, <2>3, <5>1, PurseMoves
        <5> QED
          BY <5>2 DEF PurseLess
      <4>4. MintOf[req.dst] = Wsol /\ more = x
        BY <1>0, <2>4, <3>3, TrimEffect DEF TrimInSol
      <4> QED
        BY <2>3, <3>2, <4>3, <4>4
    <3>4. CASE Trim /\ ~TrimInSol(req)
      <4>1. /\ book'.tok[req.dst] = book.tok[req.dst] - x + 0
            /\ book'.excess = book.excess /\ book'.sol = book.sol /\ ~req.bridge
            /\ x > 0 => req.dst \in book.open
        BY <1>0, <2>1, <3>1, <3>4, TrimEffect DEF x
      <4>2. /\ book'.sol[Payer] = book.sol[Payer] - 0 /\ book'.tok[req.dst] = book.tok[req.dst] - x
            /\ book'.excess[req.dst] = book.excess[req.dst] /\ (x # 0 => req.dst \in book.open)
        BY <2>3, <3>2, <4>1
      <4>3. OutputPurse(book') = OutputPurse(book) - x - (IF MintOf[req.dst] = Wsol THEN 0 ELSE 0)
        <5>1. PurseParts(book, book', 0, x)
          BY <2>1, <4>2 DEF PurseParts
        <5>2. PurseLess(book, book', 0, x)
          BY <2>1, <2>3, <5>1, PurseMoves
        <5> QED
          BY <5>2 DEF PurseLess
      <4> QED
        BY <2>3, <2>4, <3>2, <4>1, <4>3
    <3>5. CASE BridgeToLog
      <4>1. /\ book'.tok[req.dst] = book.tok[req.dst] - out
            /\ book'.excess = book.excess /\ book'.sol = book.sol /\ req.bridge
        BY <1>0, <2>1, <3>1, <3>5, BridgeEffect
      <4>2. book'.sol[Payer] = book.sol[Payer] - 0 /\ book'.excess[req.dst] = book.excess[req.dst]
        BY <3>2, <4>1
      <4>3. OutputPurse(book') = OutputPurse(book) - out - (IF MintOf[req.dst] = Wsol THEN 0 ELSE 0)
        <5>1. PurseParts(book, book', 0, out)
          BY <2>1, <2>2, <4>1, <4>2 DEF PurseParts
        <5>2. PurseLess(book, book', 0, out)
          BY <2>1, <5>1, PurseMoves
        <5> QED
          BY <5>2 DEF PurseLess
      <4> QED
        BY <2>1, <2>4, <3>2, <4>1, <4>3
    <3> QED
      BY <1>4, <3>3, <3>4, <3>5
  <2>8. out \in Int /\ (pc = "commission" \/ Settled) /\ UNCHANGED <<committed, req, out>>
    BY <2>1
  <2> QED
    BY <1>0, <2>1, <2>6, <2>7, <2>8, OutputChange
<1>5. CASE UNCHANGED vars
  <2>1. req' = req /\ out' = out /\ pc' = pc /\ spent' = spent /\ book' = book
        /\ committed' = committed /\ swapped' = swapped
    BY <1>5 DEF vars
  <2>2. TakenSoFar' = TakenSoFar /\ (ThirdParties' <=> ThirdParties) /\ (Settled' <=> Settled)
    <3>1. Amount(req)' = Amount(req) /\ TrimAmount(req)' = TrimAmount(req)
      BY <2>1, SameAmounts
    <3> QED
      BY <2>1, <3>1, TakenNext, SameRequest DEF TakenSoFar, Settled
  <2>3. OutputPurse(book)' = OutputPurse(book) /\ OutputPurse(committed)' = OutputPurse(committed)
    BY <2>1 DEF OutputPurse
  <2> QED
    BY <1>0, <2>1, <2>2, <2>3 DEF OutputKept
<1> QED
  BY <1>1, <1>2, <1>3, <1>4, <1>5 DEF Next

-----------------------------------------------------------------------------
(* The invariant.                                                          *)

LEMMA Exact == TypeOK /\ HandlerInv => CommissionExact
<1> SUFFICES ASSUME TypeOK, HandlerInv, pc = "done", req.version > 0
             PROVE  LET base == IF req.onFrom THEN req.amountIn + Amount(req) ELSE out
                        D == Denominator[req.version]
                    IN  /\ Amount(req) * D <= req.rate * base
                        /\ req.rate * base < (Amount(req) + 1) * D
                        /\ PlatformPart(req) <= Amount(req)
  BY DEF CommissionExact
<1>1. IsRequest(req) /\ RatesAllowed(req) /\ out \in Nat
  BY DEF TypeOK, HandlerInv, Settled
<1> QED
  BY <1>1, CommissionShare

(* Every step of a handler keeps every part of the invariant.              *)
LEMMA Inductive ==
  ASSUME CommissionInv, [Next]_vars
  PROVE  TypeOK' /\ HandlerInv' /\ VaultCovered' /\ PayerCovered' /\ OutputKept' /\ FeesSoFar'
BY TypeStep, HandlerStep, VaultStep, PayerStep, OutputStep, FeesStep

(* CommissionInv holds in every reachable state: no balance is ever        *)
(* negative, the commission is exact, and after every step of a handler    *)
(* the vault, the payer, everybody else, the output and the accounts of    *)
(* the fees have what the steps so far explain.                            *)
THEOREM Invariance == Spec => []CommissionInv
<1> DEFINE IInv == TypeOK /\ HandlerInv /\ VaultCovered /\ PayerCovered /\ OutputKept /\ FeesSoFar
<1>1. Init => IInv
  BY Initial DEF CommissionInv
<1>2. IInv /\ [Next]_vars => IInv'
  BY Inductive, Exact DEF CommissionInv
<1>3. IInv => CommissionInv
  BY Exact DEF CommissionInv
<1> HIDE DEF IInv
<1> QED
  BY <1>1, <1>2, <1>3, PTL DEF Spec

-----------------------------------------------------------------------------
(* What an instruction that commits has done.                              *)

LEMMA OnlyFinishCommits ==
  ASSUME TypeOK, [Next]_vars, Commits
  PROVE  Finish
<1>1. commits \in Nat
  BY DEF TypeOK
<1>2. ~Finish => commits' = commits
  BY DEF Next, Begin, ExecuteSwap, FinishSwap, CommissionSol, CommissionToken, Trim,
         BridgeToLog, Fail, vars
<1> QED
  BY <1>1, <1>2 DEF Commits

(* The state in which it commits.                                          *)
LEMMA AtFinish ==
  ASSUME CommissionInv, [Next]_vars, Commits
  PROVE  /\ pc = "done" /\ Settled /\ committed' = book
         /\ IsRequest(req) /\ book \in Books /\ committed \in Books
         /\ spent \in Nat /\ spent <= req.amountIn /\ out \in Nat
         /\ RatesAllowed(req) /\ Loaded(req) \subseteq committed.open
         /\ book.open = committed.open \ ClosedSoFar
         /\ ClosedSoFar # {} => ClosedSoFar = {req.dst} /\ OwnerOf[req.dst] = Payer
         /\ Amount(req) \in Nat /\ PlatformPart(req) \in 0..Amount(req)
         /\ TrimAmount(req) \in Nat /\ (req.bridge => TrimAmount(req) = 0)
         /\ swapped \in Nat
         /\ HandsOver(req) => req.dstSa \in SaAccounts \cap committed.open
         /\ PlatformPart(req) > 0 => PlatformAccount(req) \in SolAccounts \cup committed.open
<1>1. Finish
  BY OnlyFinishCommits DEF CommissionInv
<1>2. pc = "done" /\ Settled /\ committed' = book
  BY <1>1 DEF Finish, Settled
<1>3. /\ IsRequest(req) /\ book \in Books /\ committed \in Books
      /\ spent \in Nat /\ spent <= req.amountIn /\ out \in Nat
      /\ RatesAllowed(req) /\ Loaded(req) \subseteq committed.open
      /\ book.open = committed.open \ ClosedSoFar
      /\ ClosedSoFar # {} => ClosedSoFar = {req.dst} /\ OwnerOf[req.dst] = Payer
      /\ swapped \in Nat
      /\ HandsOver(req) => req.dstSa \in SaAccounts \cap committed.open
      /\ PlatformPart(req) > 0 => PlatformAccount(req) \in SolAccounts \cup committed.open
  BY <1>2 DEF CommissionInv, TypeOK, HandlerInv, ClosedSoFar
<1>4. Amount(req) \in Nat /\ PlatformPart(req) \in 0..Amount(req)
  BY <1>3, CommissionShare
<1>5. TrimAmount(req) \in Nat /\ (req.bridge => TrimAmount(req) = 0)
  BY <1>3, <1>4, RequestShape, TrimShare
<1> QED
  BY <1>2, <1>3, <1>4, <1>5

(* An account that did not close is worth what it has.                     *)
LEMMA WorthOf ==
  ASSUME NEW b \in Books, NEW n \in Books, NEW a \in TokenAccounts, NEW d \in Int,
         a \in b.open <=> a \in n.open, a \notin b.open => d = 0
  PROVE  /\ Have(n, a) >= Have(b, a) + d => Worth(n, a) >= Worth(b, a) + d
         /\ Have(n, a) = Have(b, a) + d => Worth(n, a) = Worth(b, a) + d
<1>1. /\ b.tok[a] \in Nat /\ b.excess[a] \in Nat /\ n.tok[a] \in Nat /\ n.excess[a] \in Nat
      /\ TOKEN_ACCOUNT_RENT \in Nat
  BY LedgerAssumption DEF Books
<1>2. CASE a \in b.open
  <2>1. /\ Worth(b, a) = Have(b, a) + TOKEN_ACCOUNT_RENT
        /\ Worth(n, a) = Have(n, a) + TOKEN_ACCOUNT_RENT
    BY <1>2 DEF Worth, Have
  <2>2. Have(b, a) \in Int /\ Have(n, a) \in Int
    BY <1>1 DEF Have
  <2> QED
    BY <1>1, <2>1, <2>2
<1>3. CASE a \notin b.open
  <2>1. Worth(b, a) = 0 /\ Worth(n, a) = 0 /\ d = 0
    BY <1>3 DEF Worth
  <2> QED
    BY <2>1
<1> QED
  BY <1>2, <1>3

(* Whatever a request names and whatever the swap does within its bounds,  *)
(* the vault keeps what it had, gains the platform's fee and no more, and  *)
(* pays only what it hands over though the swap went past it.              *)
THEOREM VaultKept == Spec => VaultKeepsItsOwn
<1> DEFINE P == Commits =>
                  /\ \A a \in SaAccounts :
                       LET due == Worth(committed, a)
                                  + (IF a = PlatformAccount(req) THEN PlatformPart(req) ELSE 0)
                                  - (IF a = req.dstSa /\ Unserved(req) THEN swapped ELSE 0)
                       IN  /\ Worth(committed', a) >= due
                           /\ NoGain => Worth(committed', a) = due
                  /\ committed'.sol[SaAuthority] >= committed.sol[SaAuthority]
<1>1. CommissionInv /\ [Next]_vars => [P]_vars
  <2> SUFFICES ASSUME CommissionInv, [Next]_vars, Commits
               PROVE  P
    OBVIOUS
  <2>1. /\ pc = "done" /\ Settled /\ committed' = book /\ book \in Books /\ committed \in Books
        /\ IsRequest(req) /\ PlatformPart(req) \in Nat /\ swapped \in Nat
        /\ HandsOver(req) => req.dstSa \in committed.open
        /\ PlatformPart(req) > 0 => PlatformAccount(req) \in SolAccounts \cup committed.open
    BY AtFinish
  <2>2. ASSUME NEW a \in SaAccounts
        PROVE  LET due == Worth(committed, a)
                          + (IF a = PlatformAccount(req) THEN PlatformPart(req) ELSE 0)
                          - (IF a = req.dstSa /\ Unserved(req) THEN swapped ELSE 0)
               IN  /\ Worth(book, a) >= due
                   /\ NoGain => Worth(book, a) = due
    <3> DEFINE fee == IF a = PlatformAccount(req) THEN PlatformPart(req) ELSE 0
               paid == IF a = req.dstSa /\ Unserved(req) THEN swapped ELSE 0
    <3>1. HeldFor(a) = fee - paid /\ fee \in Nat /\ paid \in Nat
      BY <2>1, HeldElse
    <3>2. /\ Have(book, a) >= Have(committed, a) + HeldFor(a)
          /\ NoGain => Have(book, a) = Have(committed, a) + HeldFor(a)
      BY <2>1 DEF CommissionInv, VaultCovered
    <3>3. a \in TokenAccounts /\ OwnerOf[a] # Payer /\ a \notin SolAccounts
      BY VaultApart
    <3>4. a \in committed.open <=> a \in book.open
      BY <3>3, AtFinish
    <3>5. a \notin committed.open => fee = 0 /\ paid = 0
      BY <2>1, <3>3 DEF Unserved
    <3>6. Worth(committed, a) \in Int
      BY <2>1, <3>3, LedgerAssumption DEF Worth, Books
    <3> HIDE DEF fee, paid
    <3>7. HeldFor(a) \in Int /\ (a \notin committed.open => HeldFor(a) = 0)
      BY <3>1, <3>5
    <3>8. /\ Worth(book, a) >= Worth(committed, a) + HeldFor(a)
          /\ NoGain => Worth(book, a) = Worth(committed, a) + HeldFor(a)
      BY <2>1, <3>2, <3>3, <3>4, <3>7, WorthOf
    <3>9. Worth(committed, a) + HeldFor(a) = Worth(committed, a) + fee - paid
      BY <3>1, <3>6
    <3> QED
      BY <3>8, <3>9 DEF fee, paid
  <2>3. book.sol[SaAuthority] >= committed.sol[SaAuthority]
    BY <2>1 DEF CommissionInv, VaultCovered
  <2> QED
    BY <2>1, <2>2, <2>3
<1> HIDE DEF P
<1>2. Spec => [][P]_vars
  BY <1>1, Invariance, PTL DEF Spec
<1> QED
  BY <1>2 DEF P, VaultKeepsItsOwn

(* The payer is charged the amount, the commission and the trim at most,   *)
(* and nobody else anything.                                               *)
THEOREM PayerSpends == Spec => PayerSpendsAtMost
<1> DEFINE P == Commits =>
       /\ \A a \in TokenAccounts \ {req.dst} :
            /\ OwnerOf[a] \notin {Payer, SaAuthority}
                 => Worth(committed', a) >= Worth(committed, a)
            /\ OwnerOf[a] = Payer
                 => committed'.tok[a] >= committed.tok[a]
                      - (IF a = req.src
                         THEN req.amountIn
                              + (IF req.onFrom /\ ~req.inSol THEN Amount(req) ELSE 0)
                         ELSE 0)
       /\ committed'.sol[Payer] >= committed.sol[Payer]
            - (IF req.inSol THEN Amount(req) ELSE 0)
            - (IF TrimInSol(req) THEN TrimAmount(req) ELSE 0)
       /\ \A a \in SolAccounts \ {Payer, SaAuthority} :
            committed'.sol[a] >= committed.sol[a]
<1>1. CommissionInv /\ [Next]_vars => [P]_vars
  <2> SUFFICES ASSUME CommissionInv, [Next]_vars, Commits
               PROVE  P
    OBVIOUS
  <2>1. /\ pc = "done" /\ Settled /\ committed' = book /\ book \in Books /\ committed \in Books
        /\ IsRequest(req) /\ Amount(req) \in Nat /\ TrimAmount(req) \in Nat
        /\ spent \in Nat /\ spent <= req.amountIn /\ req.amountIn \in Nat
        /\ PayerCovered /\ Payer \in SolAccounts
    BY AtFinish, RequestShape, CommissionAccountsAssumption DEF CommissionInv
  <2> DEFINE extra == IF req.onFrom /\ ~req.inSol THEN Amount(req) ELSE 0
             inSol == IF req.inSol THEN Amount(req) ELSE 0
             trimmed == IF TrimInSol(req) THEN TrimAmount(req) ELSE 0
  <2>2. /\ extra \in Nat /\ inSol \in Nat /\ trimmed \in Nat
        /\ SourcePaid = (IF PullsIn(req) THEN req.amountIn ELSE spent) + extra
        /\ SolPaid = inSol + trimmed
    BY <2>1 DEF SourcePaid, SolPaid
  <2>3. ASSUME NEW a \in TokenAccounts \ {req.dst}, OwnerOf[a] \notin {Payer, SaAuthority}
        PROVE  Worth(book, a) >= Worth(committed, a)
    <3>1. Have(book, a) >= Have(committed, a)
      BY <2>1, <2>3 DEF PayerCovered
    <3>2. a \in committed.open <=> a \in book.open
      BY AtFinish
    <3>3. Have(committed, a) \in Int /\ Worth(committed, a) \in Int
      BY <2>1, LedgerAssumption DEF Books, Have, Worth
    <3>4. Worth(book, a) >= Worth(committed, a) + 0
      BY <2>1, <3>1, <3>2, <3>3, WorthOf
    <3> QED
      BY <3>3, <3>4
  <2>4. ASSUME NEW a \in TokenAccounts \ {req.dst}, OwnerOf[a] = Payer
        PROVE  book.tok[a] >= committed.tok[a]
                 - (IF a = req.src THEN req.amountIn + extra ELSE 0)
    <3>1. book.tok[a] >= committed.tok[a] - (IF a = req.src THEN SourcePaid ELSE 0)
      BY <2>1, <2>4 DEF PayerCovered
    <3>2. SourcePaid \in Int /\ SourcePaid <= req.amountIn + extra
      BY <2>1, <2>2
    <3>3. book.tok[a] \in Int /\ committed.tok[a] \in Int
      BY <2>1 DEF Books
    <3> HIDE DEF extra
    <3> QED
      BY <2>1, <2>2, <3>1, <3>2, <3>3
  <2>5. book.sol[Payer] >= committed.sol[Payer] - inSol - trimmed
    <3>1. book.sol[Payer] >= committed.sol[Payer] - SolPaid
      BY <2>1 DEF PayerCovered
    <3>2. book.sol[Payer] \in Int /\ committed.sol[Payer] \in Int
      BY <2>1 DEF Books
    <3> HIDE DEF inSol, trimmed
    <3> QED
      BY <2>2, <3>1, <3>2
  <2>6. \A a \in SolAccounts \ {Payer, SaAuthority} : book.sol[a] >= committed.sol[a]
    BY <2>1 DEF PayerCovered
  <2> QED
    BY <2>1, <2>3, <2>4, <2>5, <2>6
<1> HIDE DEF P
<1>2. Spec => [][P]_vars
  BY <1>1, Invariance, PTL DEF Spec
<1> QED
  BY <1>2 DEF P, PayerSpendsAtMost

(* The payer is left with what the swap gave less commission, trim and     *)
(* bridge, to the last unit, whether the output was unwrapped or not.      *)
THEOREM UserGetsExactly == Spec => UserGetsTheRest
<1> DEFINE P == Commits /\ ThirdParties =>
                  OutputPurse(committed') = OutputPurse(committed) + out - TakenFromOutput
<1>1. CommissionInv /\ [Next]_vars => [P]_vars
  <2> SUFFICES ASSUME CommissionInv, [Next]_vars, Commits, ThirdParties
               PROVE  OutputPurse(committed') = OutputPurse(committed) + out - TakenFromOutput
    OBVIOUS
  <2>1. /\ pc = "done" /\ Settled /\ committed' = book /\ book \in Books /\ committed \in Books
        /\ Amount(req) \in Nat /\ TrimAmount(req) \in Nat /\ out \in Nat
    BY AtFinish
  <2>2. OutputPurse(book) = OutputPurse(committed) + out - TakenSoFar
    BY <2>1 DEF CommissionInv, OutputKept
  <2>3. TakenSoFar = TakenFromOutput
    <3> DEFINE charged == IF ~req.onFrom \/ (req.inSol /\ MintOf[req.dst] = Wsol)
                          THEN Amount(req) ELSE 0
               x == TrimAmount(req)
               bridged == IF req.bridge THEN out ELSE 0
    <3>1. charged \in Nat /\ x \in Nat /\ bridged \in Nat
      BY <2>1
    <3>2. TakenSoFar = charged + (x + bridged) /\ TakenFromOutput = charged + x + bridged
      BY <2>1 DEF TakenSoFar, TakenFromOutput
    <3> HIDE DEF charged, x, bridged
    <3> QED
      BY <3>1, <3>2
  <2> QED
    BY <2>1, <2>2, <2>3
<1> HIDE DEF P
<1>2. Spec => [][P]_vars
  BY <1>1, Invariance, PTL DEF Spec
<1> QED
  BY <1>2 DEF P, UserGetsTheRest

(* What the payer is charged reaches the accounts of the fees, each its    *)
(* own part.                                                               *)
THEOREM FeesReach == Spec => FeesArrive
<1> DEFINE P == Commits /\ ThirdParties =>
       \A a \in FeeAccounts \ (SaAccounts \cup {None}) :
         Holding(committed', a) = Holding(committed, a) + FeesOf(a)
<1>1. CommissionInv /\ [Next]_vars => [P]_vars
  <2> SUFFICES ASSUME CommissionInv, [Next]_vars, Commits, ThirdParties, NEW a \in Payees
               PROVE  Holding(committed', a) = Holding(committed, a) + FeesOf(a)
    BY DEF Payees
  <2>1. /\ pc = "done" /\ Settled /\ committed' = book
        /\ HandsOver(req) => req.dstSa \in SaAccounts
    BY AtFinish
  <2>2. ThroughDestination(req) => req.dstSa \in SaAccounts
    BY <2>1 DEF ThroughDestination, HandsOver
  <2>3. Holding(book, a) = Holding(committed, a) + FeesDue(a)
    BY <2>1, <2>2 DEF CommissionInv, FeesSoFar, Payees
  <2>4. FeesDue(a) = FeesOf(a)
    BY <2>1 DEF FeesDue, FeesOf
  <2> QED
    BY <2>1, <2>3, <2>4
<1> HIDE DEF P
<1>2. Spec => [][P]_vars
  BY <1>1, Invariance, PTL DEF Spec
<1> QED
  BY <1>2 DEF P, FeesArrive

(* A trim leaves the payer what the quote promised.                        *)
THEOREM TrimLeaves == Spec => TrimLeavesExpected
<1> DEFINE P == Commits /\ TrimAmount(req) > 0 =>
       out - TakenFromOutput + (IF req.onFrom /\ req.inSol /\ MintOf[req.dst] = Wsol
                                THEN Amount(req) ELSE 0) >= req.expectOut
<1>1. CommissionInv /\ [Next]_vars => [P]_vars
  <2> SUFFICES ASSUME CommissionInv, [Next]_vars, Commits, TrimAmount(req) > 0
               PROVE  out - TakenFromOutput
                        + (IF req.onFrom /\ req.inSol /\ MintOf[req.dst] = Wsol
                           THEN Amount(req) ELSE 0) >= req.expectOut
    OBVIOUS
  <2>1. /\ IsRequest(req) /\ Amount(req) \in Nat /\ TrimAmount(req) \in Nat /\ out \in Nat
        /\ ~req.bridge /\ req.expectOut \in Nat /\ req.onFrom \in BOOLEAN
    BY AtFinish, RequestShape
  <2>2. out - (IF req.onFrom THEN 0 ELSE Amount(req)) - TrimAmount(req) >= req.expectOut
    BY <2>1, TrimShare
  <2> DEFINE A == Amount(req)
             x == TrimAmount(req)
             onBoth == req.onFrom /\ req.inSol /\ MintOf[req.dst] = Wsol
  <2>3. TakenFromOutput = (IF ~req.onFrom \/ onBoth THEN A ELSE 0) + x + 0
    BY <2>1 DEF TakenFromOutput
  <2>4. (IF ~req.onFrom \/ onBoth THEN A ELSE 0) - (IF onBoth THEN A ELSE 0)
          = IF req.onFrom THEN 0 ELSE A
    BY <2>1
  <2> QED
    BY <2>1, <2>2, <2>3, <2>4
<1> HIDE DEF P
<1>2. Spec => [][P]_vars
  BY <1>1, Invariance, PTL DEF Spec
<1> QED
  BY <1>2 DEF P, TrimLeavesExpected

=============================================================================
