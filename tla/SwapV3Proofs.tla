---------------------------- MODULE SwapV3Proofs ----------------------------
(***************************************************************************)
(* Proofs about SwapV3, for every set of accounts, every request, every    *)
(* rate and every bound: its types, the accounting of the vault and of the *)
(* payer, what user and vault have received so far, and what follows from  *)
(* them for a committed instruction.                                       *)
(***************************************************************************)
EXTENDS SwapV3, TLAPS

(* IInv is inductive: the two accounting invariants rest on what           *)
(* HandlerInv says of rates and of the destination account.  SettlementInv *)
(* strengthens it by what has been received; it is inductive as well.      *)

-----------------------------------------------------------------------------
(* Fees, for every amount, rate and denominator: none exceeds what it is a *)
(* part of.                                                                *)

(* Integer division rounds down.                                           *)
LEMMA Division ==
  ASSUME NEW n \in Nat, NEW d \in Nat \ {0}
  PROVE  /\ n \div d \in Nat
         /\ (n \div d) * d <= n
         /\ n < (n \div d) * d + d
OBVIOUS

(* The quotient is the largest number that the divisor multiplies to no    *)
(* more than the dividend.                                                 *)
LEMMA Largest ==
  ASSUME NEW n \in Nat, NEW d \in Nat \ {0}
  PROVE  /\ (n \div d) * d <= n
         /\ ((n \div d) + 1) * d > n
<1> DEFINE q == n \div d
<1>1. q \in Nat /\ q * d <= n /\ n < q * d + d
  BY Division
<1> HIDE DEF q
<1>2. (q + 1) * d = q * d + d
  BY <1>1
<1>3. q * d <= n /\ (q + 1) * d > n
  BY <1>1, <1>2
<1> QED
  BY <1>3 DEF q

(* A product grows with its factors.                                       *)
LEMMA Monotone ==
  ASSUME NEW x \in Nat, NEW y \in Nat, NEW z \in Nat, x <= y
  PROVE  x * z <= y * z /\ z * x <= z * y
OBVIOUS

(* A part of a whole, by a rate up to the denominator.                     *)
LEMMA Part ==
  ASSUME NEW x \in Nat, NEW rate \in Nat, NEW d \in Nat \ {0}, rate <= d
  PROVE  (x * rate) \div d \in 0..x
<1>1. x * rate \in Nat /\ x * rate <= x * d
  BY Monotone
<1> DEFINE q == (x * rate) \div d
<1>2. q \in Nat /\ q * d <= x * rate
  BY <1>1, Division
<1>3. q * d <= x * d
  BY <1>1, <1>2
<1> HIDE DEF q
<1>4. q <= x
  <2> SUFFICES ASSUME q >= x + 1 PROVE FALSE
    BY <1>2
  <2>1. (x + 1) * d <= q * d
    BY <1>2, Monotone
  <2>2. (x + 1) * d = x * d + d
    OBVIOUS
  <2> QED
    BY <1>2, <1>3, <2>1, <2>2
<1> QED
  BY <1>2, <1>4 DEF q

(* A fee on the output is a part of it, within the limit.                  *)
LEMMA ToFeeShare ==
  ASSUME NEW amount \in Nat, NEW rate \in Nat, rate <= COMMISSION_RATE_LIMIT
  PROVE  /\ TotalFee(amount, rate, FALSE) \in 0..amount
         /\ TotalFee(amount, rate, FALSE) * COMMISSION_DENOMINATOR
              <= COMMISSION_RATE_LIMIT * amount
<1> DEFINE f == (amount * rate) \div COMMISSION_DENOMINATOR
<1>1. /\ COMMISSION_DENOMINATOR \in Nat \ {0} /\ COMMISSION_RATE_LIMIT \in Nat
      /\ rate <= COMMISSION_DENOMINATOR
  BY FeeAssumption
<1>2. f \in 0..amount
  BY <1>1, Part
<1>3. amount * rate \in Nat /\ f * COMMISSION_DENOMINATOR <= amount * rate
  BY <1>1, Division
<1>4. amount * rate <= COMMISSION_RATE_LIMIT * amount
  <2>1. rate * amount <= COMMISSION_RATE_LIMIT * amount
    BY <1>1, Monotone
  <2>2. rate * amount = amount * rate
    OBVIOUS
  <2> QED
    BY <2>1, <2>2
<1>5. f * COMMISSION_DENOMINATOR <= COMMISSION_RATE_LIMIT * amount
  <2> HIDE DEF f
  <2> QED
    BY <1>1, <1>2, <1>3, <1>4
<1>6. f = TotalFee(amount, rate, FALSE)
  BY DEF TotalFee
<1> QED
  BY <1>2, <1>5, <1>6

(* A fee on the input is the largest that is within the rate's share of    *)
(* the amount and the fee together.                                        *)
LEMMA FromFeeShare ==
  ASSUME NEW amount \in Nat, NEW rate \in Nat, rate <= COMMISSION_RATE_LIMIT
  PROVE  LET f == TotalFee(amount, rate, TRUE)
         IN  /\ f \in Nat
             /\ f * COMMISSION_DENOMINATOR <= rate * (amount + f)
             /\ (f + 1) * COMMISSION_DENOMINATOR > rate * (amount + f + 1)
<1> DEFINE d == COMMISSION_DENOMINATOR
           f == (amount * rate) \div (d - rate)
<1>1. d \in Nat /\ d - rate \in Nat \ {0}
  BY FeeAssumption
<1>2. amount * rate \in Nat
  OBVIOUS
<1>3. /\ f \in Nat
      /\ f * (d - rate) <= amount * rate
      /\ amount * rate < f * (d - rate) + (d - rate)
  BY <1>1, <1>2, Division
<1>4. f = TotalFee(amount, rate, TRUE)
  BY DEF TotalFee
<1> HIDE DEF f
<1>5. f * (d - rate) = f * d - f * rate
  BY <1>1, <1>3
<1>6. rate * (amount + f) = amount * rate + f * rate
  BY <1>3
<1>7. rate * (amount + f + 1) = amount * rate + f * rate + rate
  BY <1>3
<1>8. (f + 1) * d = f * d + d
  BY <1>1, <1>3
<1>9. f * d \in Int /\ f * rate \in Int
  BY <1>1, <1>3
<1>10. f * d <= rate * (amount + f)
  BY <1>2, <1>3, <1>5, <1>6, <1>9
<1>11. (f + 1) * d > rate * (amount + f + 1)
  <2> DEFINE fd == f * d
             fr == f * rate
             ar == amount * rate
  <2>1. ar < fd - fr + (d - rate)
    BY <1>3, <1>5
  <2>2. fd \in Int /\ fr \in Int /\ ar \in Int
    BY <1>2, <1>9
  <2>3. fd + d > ar + fr + rate
    <3> HIDE DEF fd, fr, ar
    <3> QED
      BY <1>1, <2>1, <2>2
  <2> QED
    BY <1>7, <1>8, <2>3
<1> QED
  BY <1>3, <1>4, <1>10, <1>11

(* A fee on the output is the largest within the rate's share of it, and   *)
(* the platform's part the largest within its rate's share of the fee.     *)
LEMMA LargestFees ==
  ASSUME NEW amount \in Nat, NEW rate \in Nat
  PROVE  /\ TotalFee(amount, rate, FALSE) * COMMISSION_DENOMINATOR <= rate * amount
         /\ (TotalFee(amount, rate, FALSE) + 1) * COMMISSION_DENOMINATOR > rate * amount
         /\ PlatformFee(amount, rate) * PLATFORM_FEE_DENOMINATOR <= amount * rate
         /\ (PlatformFee(amount, rate) + 1) * PLATFORM_FEE_DENOMINATOR > amount * rate
<1>1. /\ COMMISSION_DENOMINATOR \in Nat \ {0} /\ PLATFORM_FEE_DENOMINATOR \in Nat \ {0}
      /\ amount * rate \in Nat /\ rate * amount = amount * rate
  BY FeeAssumption
<1>2. /\ TotalFee(amount, rate, FALSE) = (amount * rate) \div COMMISSION_DENOMINATOR
      /\ PlatformFee(amount, rate) = (amount * rate) \div PLATFORM_FEE_DENOMINATOR
  BY DEF TotalFee, PlatformFee
<1> DEFINE n == amount * rate
<1>3. n \in Nat
  BY <1>1
<1> HIDE DEF n
<1>4. /\ (n \div COMMISSION_DENOMINATOR) * COMMISSION_DENOMINATOR <= n
      /\ ((n \div COMMISSION_DENOMINATOR) + 1) * COMMISSION_DENOMINATOR > n
      /\ (n \div PLATFORM_FEE_DENOMINATOR) * PLATFORM_FEE_DENOMINATOR <= n
      /\ ((n \div PLATFORM_FEE_DENOMINATOR) + 1) * PLATFORM_FEE_DENOMINATOR > n
  BY <1>1, <1>3, Largest
<1> QED
  BY <1>1, <1>2, <1>4 DEF n

(* The platform's part of a fee, and the charge's part of a trim.          *)
LEMMA PlatformPart ==
  ASSUME NEW total \in Nat, NEW rate \in Nat, rate <= PLATFORM_FEE_DENOMINATOR
  PROVE  PlatformFee(total, rate) \in 0..total
BY FeeAssumption, Part DEF PlatformFee

LEMMA ChargePart ==
  ASSUME NEW total \in Nat, NEW rate \in Nat, rate <= TRIM_DENOMINATOR
  PROVE  Charge(total, rate) \in 0..total
BY FeeAssumption, Part DEF Charge

(* Trim and charge leave the expected amount, if the fees left it.         *)
LEMMA TrimOfSurplus ==
  ASSUME NEW amount \in Nat, NEW expected \in Nat, NEW fees \in 0..amount,
         NEW rate \in Nat
  PROVE  LET trim == TotalTrim(amount, expected, fees, rate)
         IN  /\ trim \in 0..(amount - fees)
             /\ trim > 0 => amount - fees - trim >= expected
<1> DEFINE limit == (amount * rate) \div TRIM_DENOMINATOR
<1>1. limit \in Nat
  <2>1. amount * rate \in Nat
    OBVIOUS
  <2> QED
    BY <2>1, Division, FeeAssumption
<1> HIDE DEF limit
<1> DEFINE surplus == IF amount > fees + expected THEN amount - fees - expected ELSE 0
<1>2. TotalTrim(amount, expected, fees, rate) = IF surplus < limit THEN surplus ELSE limit
  BY DEF TotalTrim, limit
<1> QED
  BY <1>1, <1>2

-----------------------------------------------------------------------------
(* Money.                                                                  *)

(* A mint withholds a part of a transfer, wSOL nothing.                    *)
LEMMA WithheldPart ==
  ASSUME NEW a \in TokenAccounts, NEW x \in Nat
  PROVE  /\ Withheld(a, x) \in 0..x
         /\ MintOf[a] = Wsol => Withheld(a, x) = 0
<1> DEFINE d == WITHHELD_DENOMINATOR
           rate == WithheldRate[a]
           n == x * rate + d - 1
           q == n \div d
<1>1. d \in Nat \ {0} /\ rate \in 0..d
  BY WithheldAssumption
<1>2. x * rate \in Nat /\ x * rate <= x * d
  BY <1>1, Monotone
<1>3. n \in Nat /\ n <= x * d + d - 1
  BY <1>1, <1>2
<1>4. q \in Nat /\ q * d <= n
  BY <1>1, <1>3, Division
<1>5. q <= x
  <2> HIDE DEF q, n
  <2> SUFFICES ASSUME q >= x + 1 PROVE FALSE
    BY <1>4
  <2>1. (x + 1) * d <= q * d
    BY <1>1, <1>4, Monotone
  <2>2. (x + 1) * d = x * d + d
    BY <1>1
  <2> QED
    BY <1>1, <1>3, <1>4, <2>1, <2>2
<1>6. ASSUME MintOf[a] = Wsol PROVE q = 0
  <2>1. rate = 0
    BY <1>6, WithheldAssumption
  <2>2. n = d - 1
    BY <1>1, <2>1
  <2>3. q * d <= d - 1
    BY <1>4, <2>2
  <2> HIDE DEF q
  <2> SUFFICES ASSUME q >= 1 PROVE FALSE
    BY <1>4
  <2>4. 1 * d <= q * d
    BY <1>1, <1>4, Monotone
  <2>5. q * d \in Int
    BY <1>1, <1>4
  <2> QED
    BY <1>1, <2>3, <2>4, <2>5
<1>7. q = Withheld(a, x)
  BY DEF Withheld
<1> QED
  BY <1>4, <1>5, <1>6, <1>7

(* A payment between token accounts.                                       *)
LEMMA PayTokensEffect ==
  ASSUME NEW b \in Books, NEW from \in TokenAccounts, NEW to, NEW x \in Nat \ {0},
         TokenPayable(b, from, to, x)
  PROVE  LET c == PayTokens(b, from, to, x)
         IN  /\ c \in Books
             /\ c.sol = b.sol /\ c.closed = b.closed
             /\ to \in TokenAccounts
             /\ \A a \in TokenAccounts :
                  c.tok[a] = b.tok[a] - (IF a = from THEN x ELSE 0)
                             + (IF a = to THEN x - Withheld(a, x) ELSE 0)
<1> DEFINE c == PayTokens(b, from, to, x)
           t == [a \in TokenAccounts |->
                   b.tok[a] - (IF a = from THEN x ELSE 0)
                            + (IF a = to THEN x - Withheld(a, x) ELSE 0)]
<1>1. to \in TokenAccounts /\ b.tok[from] >= x
  BY DEF TokenPayable
<1>2. b.tok \in [TokenAccounts -> Nat]
  BY DEF Books
<1>3. \A a \in TokenAccounts : Withheld(a, x) \in 0..x
  BY WithheldPart
<1>4. t \in [TokenAccounts -> Nat]
  BY <1>1, <1>2, <1>3
<1>5. c = [b EXCEPT !.tok = t]
  BY DEF PayTokens
<1>6. c.tok = t /\ c.sol = b.sol /\ c.closed = b.closed
  BY <1>5 DEF Books
<1>7. c \in Books
  BY <1>4, <1>5 DEF Books
<1> QED
  BY <1>1, <1>6, <1>7

(* A payment between system accounts.                                      *)
LEMMA PaySolEffect ==
  ASSUME NEW b \in Books, NEW from \in SolAccounts, NEW to \in SolAccounts,
         NEW x \in Nat, b.sol[from] >= x
  PROVE  LET c == PaySol(b, from, to, x)
         IN  /\ c \in Books
             /\ c.tok = b.tok /\ c.closed = b.closed
             /\ \A a \in SolAccounts :
                  c.sol[a] = b.sol[a] - (IF a = from THEN x ELSE 0)
                             + (IF a = to THEN x ELSE 0)
<1> DEFINE c == PaySol(b, from, to, x)
           s == [a \in SolAccounts |->
                   b.sol[a] - (IF a = from THEN x ELSE 0) + (IF a = to THEN x ELSE 0)]
<1>1. b.sol \in [SolAccounts -> Nat]
  BY DEF Books
<1>2. s \in [SolAccounts -> Nat]
  BY <1>1
<1>3. c = [b EXCEPT !.sol = s]
  BY DEF PaySol
<1>4. c.sol = s /\ c.tok = b.tok /\ c.closed = b.closed
  BY <1>3 DEF Books
<1>5. c \in Books
  BY <1>2, <1>3 DEF Books
<1> QED
  BY <1>4, <1>5

(* Closing an open account.                                                *)
LEMMA CloseEffect ==
  ASSUME NEW b \in Books, NEW a \in TokenAccounts, NEW to \in SolAccounts
  PROVE  LET c == Close(b, a, to)
         IN  /\ c \in Books
             /\ c.closed = b.closed \cup {a}
             /\ \A x \in TokenAccounts \ {a} : c.tok[x] = b.tok[x]
             /\ \A x \in SolAccounts : c.sol[x] >= b.sol[x]
             /\ a \notin b.closed => c.sol[to] = b.sol[to] + b.tok[a] + TOKEN_ACCOUNT_RENT
<1> DEFINE c == CloseAccount(b, a, to)
<1>1. /\ b.tok \in [TokenAccounts -> Nat] /\ b.sol \in [SolAccounts -> Nat]
      /\ b.closed \in SUBSET TokenAccounts
      /\ TOKEN_ACCOUNT_RENT \in Nat
  BY V3BoundsAssumption DEF Books
<1>2. CASE a \in b.closed
  BY <1>1, <1>2 DEF Close
<1>3. CASE a \notin b.closed
  <2>1. Close(b, a, to) = c
    BY <1>3 DEF Close
  <2>2. /\ c.tok = [b.tok EXCEPT ![a] = 0]
        /\ c.sol = [b.sol EXCEPT ![to] = b.sol[to] + b.tok[a] + TOKEN_ACCOUNT_RENT]
        /\ c.closed = b.closed \cup {a}
    BY <1>1 DEF CloseAccount
  <2>3. c \in Books
    <3>1. c.tok \in [TokenAccounts -> Nat] /\ c.sol \in [SolAccounts -> Nat]
      BY <1>1, <2>2
    <3>2. c.closed \in SUBSET TokenAccounts
      BY <1>1, <2>2
    <3> QED
      BY <3>1, <3>2 DEF CloseAccount, Books
  <2> QED
    BY <1>1, <1>3, <2>1, <2>2, <2>3
<1> QED
  BY <1>2, <1>3

(* A fee costs the vault no more than its amount, and nobody else anything *)
(* but the account that pays it.                                           *)
FeeEffect(b, c, from, x) ==
  /\ c \in Books
  /\ c.closed = b.closed
  /\ \A a \in TokenAccounts : c.tok[a] >= b.tok[a] - (IF a = from THEN x ELSE 0)
  /\ \A a \in SolAccounts :
       \/ c.sol[a] >= b.sol[a] - (IF a = from THEN x ELSE 0)
       \/ a = from /\ a # SaAuthority

LEMMA PayFeeEffect ==
  ASSUME NEW b \in Books, NEW from, NEW to, NEW x \in Nat, FeePayable(b, from, to, x)
  PROVE  FeeEffect(b, PayFee(b, from, to, x), from, x)
<1>1. CASE x = 0
  BY <1>1 DEF PayFee, FeeEffect, Books
<1>2. CASE x > 0 /\ from \in SolAccounts
  <2> DEFINE fee == SolFee(b, from, to, x)
             c == PaySol(b, from, to, fee)
  <2>1. /\ to \in SolAccounts /\ b.sol[from] >= fee
        /\ PayFee(b, from, to, x) = c
    BY <1>2 DEF FeePayable, PayFee
  <2>2. b.sol \in [SolAccounts -> Nat] /\ b.tok \in [TokenAccounts -> Nat]
    BY DEF Books
  <2>3. fee \in Nat /\ (from = SaAuthority => fee = x)
    BY <2>1, <2>2, V3BoundsAssumption DEF SolFee
  <2> HIDE DEF fee
  <2>4. /\ c \in Books
        /\ c.tok = b.tok /\ c.closed = b.closed
        /\ \A a \in SolAccounts :
             c.sol[a] = b.sol[a] - (IF a = from THEN fee ELSE 0)
                        + (IF a = to THEN fee ELSE 0)
    BY <1>2, <2>1, <2>3, PaySolEffect
  <2>5. \A a \in TokenAccounts : c.tok[a] >= b.tok[a] - (IF a = from THEN x ELSE 0)
    BY <2>2, <2>4
  <2>6. ASSUME NEW a \in SolAccounts
        PROVE  \/ c.sol[a] >= b.sol[a] - (IF a = from THEN x ELSE 0)
               \/ a = from /\ a # SaAuthority
    BY <2>2, <2>3, <2>4
  <2> HIDE DEF c
  <2> QED
    BY <2>1, <2>4, <2>5, <2>6 DEF FeeEffect
<1>3. CASE x > 0 /\ from \notin SolAccounts
  <2> DEFINE c == PayTokens(b, from, to, x)
  <2>1. /\ from \in TokenAccounts /\ TokenPayable(b, from, to, x)
        /\ PayFee(b, from, to, x) = c
    BY <1>3 DEF FeePayable, PayFee
  <2>2. b.sol \in [SolAccounts -> Nat] /\ b.tok \in [TokenAccounts -> Nat]
    BY DEF Books
  <2>3. /\ c \in Books
        /\ c.sol = b.sol /\ c.closed = b.closed
        /\ \A a \in TokenAccounts :
             c.tok[a] = b.tok[a] - (IF a = from THEN x ELSE 0)
                        + (IF a = to THEN x - Withheld(a, x) ELSE 0)
    BY <1>3, <2>1, PayTokensEffect
  <2>4. \A a \in TokenAccounts : c.tok[a] >= b.tok[a] - (IF a = from THEN x ELSE 0)
    <3> TAKE a \in TokenAccounts
    <3>1. Withheld(a, x) \in 0..x
      BY WithheldPart
    <3> QED
      BY <2>2, <2>3, <3>1
  <2>5. \A a \in SolAccounts : c.sol[a] >= b.sol[a] - (IF a = from THEN x ELSE 0)
    BY <1>3, <2>2, <2>3
  <2> HIDE DEF c
  <2> QED
    BY <2>1, <2>3, <2>4, <2>5 DEF FeeEffect
<1> QED
  BY <1>1, <1>2, <1>3

LEMMA PayFeesEffect ==
  ASSUME NEW b \in Books, NEW from, NEW to1, NEW x1 \in Nat, NEW to2, NEW x2 \in Nat,
         FeesPayable(b, from, to1, x1, to2, x2)
  PROVE  FeeEffect(b, PayFees(b, from, to1, x1, to2, x2), from, x1 + x2)
<1> DEFINE c == PayFee(b, from, to1, x1)
           d == PayFee(c, from, to2, x2)
<1>1. FeeEffect(b, c, from, x1)
  BY PayFeeEffect DEF FeesPayable
<1>2. c \in Books
  BY <1>1 DEF FeeEffect
<1>3. FeePayable(c, from, to2, x2)
  BY DEF FeesPayable
<1> HIDE DEF c
<1>4. FeeEffect(c, d, from, x2)
  BY <1>2, <1>3, PayFeeEffect
<1>5. d = PayFees(b, from, to1, x1, to2, x2)
  BY DEF PayFees, c
<1> HIDE DEF d
<1>6. /\ b.tok \in [TokenAccounts -> Nat] /\ b.sol \in [SolAccounts -> Nat]
      /\ c.tok \in [TokenAccounts -> Nat] /\ c.sol \in [SolAccounts -> Nat]
      /\ d \in Books
      /\ d.tok \in [TokenAccounts -> Nat] /\ d.sol \in [SolAccounts -> Nat]
  BY <1>2, <1>4 DEF Books, FeeEffect
<1>7. d.closed = b.closed
  BY <1>1, <1>4 DEF FeeEffect
<1>8. ASSUME NEW a \in TokenAccounts
      PROVE  d.tok[a] >= b.tok[a] - (IF a = from THEN x1 + x2 ELSE 0)
  BY <1>1, <1>4, <1>6, <1>8 DEF FeeEffect
<1>9. ASSUME NEW a \in SolAccounts
      PROVE  \/ d.sol[a] >= b.sol[a] - (IF a = from THEN x1 + x2 ELSE 0)
             \/ a = from /\ a # SaAuthority
  BY <1>1, <1>4, <1>6, <1>9 DEF FeeEffect
<1>10. FeeEffect(b, d, from, x1 + x2)
  BY <1>6, <1>7, <1>8, <1>9 DEF FeeEffect
<1> QED
  BY <1>5, <1>10

-----------------------------------------------------------------------------
(* Instructions and their amounts.                                         *)

LEMMA RequestFacts ==
  ASSUME NEW r \in Requests
  PROVE  /\ IsRequest(r)
         /\ r.src \in TokenAccounts /\ r.dst \in TokenAccounts
         /\ OwnerOf[r.src] = Payer /\ r.src \notin SaAccounts
         /\ SourceSa(r) = None \/ SourceSa(r) \in SaAccounts
         /\ DestinationSa(r) = None \/ DestinationSa(r) \in SaAccounts
         /\ SourceAccount(r) \in TokenAccounts
         /\ DestinationAccount(r) \in TokenAccounts
         /\ r.amountIn \in Nat /\ r.expectOut \in Nat /\ r.minReturn \in Nat
         /\ r.rate \in Nat /\ r.platformRate \in Nat
         /\ r.trimRate \in Nat /\ r.chargeRate \in Nat
         /\ r.toB \in BOOLEAN /\ r.close \in BOOLEAN
         /\ r.receiver \in SolAccounts \cup {None}
         /\ None \notin TokenAccounts /\ None \notin SolAccounts
         /\ Payer \in SolAccounts /\ SaAuthority \in SolAccounts
         /\ Payer # SaAuthority
<1>1. IsRequest(r)
  BY V3RequestsAssumption
<1>2. /\ r.src \in TokenAccounts /\ r.dst \in TokenAccounts /\ OwnerOf[r.src] = Payer
      /\ SourceSa(r) = None \/ SourceSa(r) \in SaAccounts
      /\ DestinationSa(r) = None \/ DestinationSa(r) \in SaAccounts
      /\ r.toB \in BOOLEAN /\ r.close \in BOOLEAN
      /\ r.receiver \in SolAccounts \cup {None}
  BY <1>1 DEF IsRequest, SourceSa, DestinationSa
<1>3. /\ r.amountIn \in Nat /\ r.expectOut \in Nat /\ r.minReturn \in Nat
      /\ r.rate \in Nat /\ r.platformRate \in Nat
      /\ r.trimRate \in Nat /\ r.chargeRate \in Nat
  BY <1>1 DEF IsRequest
<1>4. /\ None \notin TokenAccounts /\ None \notin SolAccounts
      /\ Payer \in SolAccounts /\ SaAuthority \in SolAccounts
      /\ Payer # SaAuthority
  BY V3AccountsAssumption
<1>5. r.src \notin SaAccounts
  BY <1>2, <1>4 DEF SaAccounts
<1>6. SourceAccount(r) \in TokenAccounts /\ DestinationAccount(r) \in TokenAccounts
  BY <1>2 DEF SourceAccount, DestinationAccount, ThroughSource, ThroughDestination, SaAccounts
<1> QED
  BY <1>1, <1>2, <1>3, <1>4, <1>5, <1>6

(* The fees on the input.                                                  *)
LEMMA FromFees ==
  ASSUME NEW r \in Requests, r.onFrom => FeeRatesAllowed(r.rate, r.platformRate)
  PROVE  /\ FromFee(r) \in Nat /\ FromPlatformFee(r) \in 0..FromFee(r)
         /\ FromCommission(r) \in Nat
         /\ FromCommission(r) + FromPlatformFee(r) = FromFee(r)
         /\ FeesOfPayer(r) \in Nat /\ Pulled(r) \in Nat
<1>1. /\ r.amountIn \in Nat /\ r.rate \in Nat /\ r.platformRate \in Nat
  BY RequestFacts
<1>2. FromFee(r) \in Nat /\ FromPlatformFee(r) \in 0..FromFee(r)
  <2>1. CASE r.onFrom /\ r.rate > 0
    <3>1. r.rate <= COMMISSION_RATE_LIMIT /\ r.platformRate <= PLATFORM_FEE_DENOMINATOR
      BY <2>1 DEF FeeRatesAllowed
    <3>2. FromFee(r) = TotalFee(r.amountIn, r.rate, TRUE)
      BY <2>1 DEF FromFee
    <3>3. FromFee(r) \in Nat
      BY <1>1, <3>1, <3>2, FromFeeShare
    <3> QED
      BY <1>1, <3>1, <3>3, PlatformPart DEF FromPlatformFee
  <2>2. CASE ~(r.onFrom /\ r.rate > 0)
    <3>1. FromFee(r) = 0
      BY <2>2 DEF FromFee
    <3>2. 0 * r.platformRate = 0
      BY <1>1
    <3>3. FromPlatformFee(r) = 0 \div PLATFORM_FEE_DENOMINATOR
      BY <3>1, <3>2 DEF FromPlatformFee, PlatformFee
    <3>4. 0 \div PLATFORM_FEE_DENOMINATOR \in 0..0
      <4>1. 0 * 0 = 0 /\ (0 * 0) \div PLATFORM_FEE_DENOMINATOR \in 0..0
        BY FeeAssumption, Part
      <4> QED
        BY <4>1
    <3> QED
      BY <3>1, <3>3, <3>4
  <2> QED
    BY <2>1, <2>2
<1> QED
  BY <1>1, <1>2 DEF FromCommission, FeesOfPayer, Pulled

(* The fees on the output, trim and charge.                                *)
LEMMA ToFees ==
  ASSUME req \in Requests, out \in Nat, RatesAllowed
  PROVE  /\ ToFee \in 0..out /\ ToPlatformFee \in 0..ToFee
         /\ ToFee * COMMISSION_DENOMINATOR <= COMMISSION_RATE_LIMIT * out
         /\ ToCommission \in Nat /\ ToCommission + ToPlatformFee = ToFee
         /\ TrimAndCharge \in 0..(out - ToFee)
         /\ ChargeAmount \in Nat /\ TrimAmount \in Nat
         /\ TrimAmount + ChargeAmount = TrimAndCharge
         /\ ActualOut \in Nat
         /\ TrimAndCharge > 0 => ActualOut >= req.expectOut
<1>1. /\ req.expectOut \in Nat /\ req.rate \in Nat /\ req.platformRate \in Nat
      /\ req.trimRate \in Nat /\ req.chargeRate \in Nat
  BY RequestFacts
<1>2. /\ ToFee \in 0..out /\ ToPlatformFee \in 0..ToFee
      /\ ToFee * COMMISSION_DENOMINATOR <= COMMISSION_RATE_LIMIT * out
  <2>1. CASE ~req.onFrom /\ req.rate > 0
    <3>1. req.rate <= COMMISSION_RATE_LIMIT /\ req.platformRate <= PLATFORM_FEE_DENOMINATOR
      BY <2>1 DEF RatesAllowed, FeeRatesAllowed
    <3>2. ToFee = TotalFee(out, req.rate, FALSE)
      BY <2>1 DEF ToFee
    <3>3. /\ ToFee \in 0..out
          /\ ToFee * COMMISSION_DENOMINATOR <= COMMISSION_RATE_LIMIT * out
      BY <1>1, <3>1, <3>2, ToFeeShare
    <3> QED
      BY <1>1, <3>1, <3>3, PlatformPart DEF ToPlatformFee
  <2>2. CASE ~(~req.onFrom /\ req.rate > 0)
    <3>1. ToFee = 0
      BY <2>2 DEF ToFee
    <3>2. ToPlatformFee = 0 \div PLATFORM_FEE_DENOMINATOR
      BY <1>1, <3>1 DEF ToPlatformFee, PlatformFee
    <3>3. 0 \div PLATFORM_FEE_DENOMINATOR \in 0..0
      <4>1. 0 * 0 = 0 /\ (0 * 0) \div PLATFORM_FEE_DENOMINATOR \in 0..0
        BY FeeAssumption, Part
      <4> QED
        BY <4>1
    <3>4. COMMISSION_RATE_LIMIT * out \in Nat /\ 0 * COMMISSION_DENOMINATOR = 0
      BY FeeAssumption
    <3> QED
      BY <3>1, <3>2, <3>3, <3>4
  <2> QED
    BY <2>1, <2>2
<1>3. /\ TrimAndCharge \in 0..(out - ToFee)
      /\ TrimAndCharge > 0 => out - ToFee - TrimAndCharge >= req.expectOut
  <2>1. CASE req.trimRate = 0
    BY <1>2, <2>1 DEF TrimAndCharge
  <2>2. CASE req.trimRate # 0
    <3>1. TrimAndCharge = TotalTrim(out, req.expectOut, ToFee, req.trimRate)
      BY <2>2 DEF TrimAndCharge
    <3> QED
      BY <1>1, <1>2, <3>1, TrimOfSurplus
  <2> QED
    BY <2>1, <2>2
<1>4. ChargeAmount \in 0..TrimAndCharge
  <2>1. CASE req.trimRate = 0
    <3>1. TrimAndCharge = 0
      BY <2>1 DEF TrimAndCharge
    <3>2. ChargeAmount = 0 \div TRIM_DENOMINATOR
      BY <1>1, <3>1 DEF ChargeAmount, Charge
    <3>3. 0 * 0 = 0 /\ (0 * 0) \div TRIM_DENOMINATOR \in 0..0
      BY FeeAssumption, Part
    <3> QED
      BY <3>1, <3>2, <3>3
  <2>2. CASE req.trimRate # 0
    <3>1. req.chargeRate <= TRIM_DENOMINATOR
      BY <1>1, <2>2 DEF RatesAllowed, TrimRatesAllowed
    <3> QED
      BY <1>1, <1>2, <1>3, <3>1, ChargePart DEF ChargeAmount
  <2> QED
    BY <2>1, <2>2
<1> QED
  BY <1>2, <1>3, <1>4 DEF ToCommission, TrimAmount, ActualOut

-----------------------------------------------------------------------------
(* The destination.                                                        *)

LEMMA HandOverEffect ==
  ASSUME book \in Books, req \in Requests, NEW x \in Nat, HandOverPayable(x)
  PROVE  LET c == HandOver(x)
         IN  /\ c \in Books
             /\ c.sol = book.sol /\ c.closed = book.closed
             /\ DestinationSa(req) = None => c = book
             /\ \A a \in TokenAccounts :
                  c.tok[a] >= book.tok[a] - (IF a = DestinationSa(req) THEN x ELSE 0)
             /\ DestinationSa(req) # None /\ MintOf[req.dst] = Wsol /\ OwnerOf[req.dst] = Payer
                  => c.tok[req.dst] = book.tok[req.dst] + x
<1>1. book.tok \in [TokenAccounts -> Nat]
  BY DEF Books
<1>2. CASE DestinationSa(req) = None \/ x = 0
  <2>1. HandOver(x) = book
    BY <1>2 DEF HandOver
  <2>2. \A a \in TokenAccounts : book.tok[a] \in Nat
    BY <1>1
  <2>3. req.dst \in TokenAccounts
    BY RequestFacts
  <2>4. DestinationSa(req) # None => x = 0
    BY <1>2
  <2> QED
    BY <2>1, <2>2, <2>3, <2>4
<1>3. CASE DestinationSa(req) # None /\ x # 0
  <2> DEFINE c == PayTokens(book, DestinationSa(req), req.dst, x)
  <2>1. HandOver(x) = c
    BY <1>3 DEF HandOver
  <2>2. TokenPayable(book, DestinationSa(req), req.dst, x)
    BY <1>3 DEF HandOverPayable
  <2>3. DestinationSa(req) \in SaAccounts /\ DestinationSa(req) \in TokenAccounts
    BY <1>3, RequestFacts DEF SaAccounts
  <2>4. /\ c \in Books
        /\ c.sol = book.sol /\ c.closed = book.closed
        /\ req.dst \in TokenAccounts
        /\ \A a \in TokenAccounts :
             c.tok[a] = book.tok[a] - (IF a = DestinationSa(req) THEN x ELSE 0)
                        + (IF a = req.dst THEN x - Withheld(a, x) ELSE 0)
    BY <1>3, <2>2, <2>3, PayTokensEffect
  <2> HIDE DEF c
  <2>5. ASSUME NEW a \in TokenAccounts
        PROVE  c.tok[a] >= book.tok[a] - (IF a = DestinationSa(req) THEN x ELSE 0)
    <3>1. Withheld(a, x) \in 0..x
      BY WithheldPart
    <3> QED
      BY <1>1, <2>4, <3>1
  <2>6. ASSUME MintOf[req.dst] = Wsol, OwnerOf[req.dst] = Payer
        PROVE  c.tok[req.dst] = book.tok[req.dst] + x
    <3>1. Withheld(req.dst, x) = 0
      BY <2>4, <2>6, WithheldPart
    <3>2. req.dst # DestinationSa(req)
      BY <2>3, <2>6, RequestFacts DEF SaAccounts
    <3> QED
      BY <1>1, <2>4, <3>1, <3>2
  <2> QED
    BY <1>3, <2>1, <2>4, <2>5, <2>6
<1> QED
  BY <1>2, <1>3

LEMMA UnwrapEffect ==
  ASSUME book \in Books, req \in Requests, out \in Nat, Unwrappable,
         req.dst \notin book.closed,
         ~ThroughDestination(req) /\ OwnerOf[req.dst] = Payer => book.tok[req.dst] >= out
  PROVE  /\ Unwrap \in Books
         /\ \A a \in TokenAccounts \ {req.dst} :
              Unwrap.tok[a] >= book.tok[a] - (IF a = DestinationSa(req) THEN out ELSE 0)
         /\ \A a \in SolAccounts : Unwrap.sol[a] >= book.sol[a]
         /\ Unwrap.sol[SaAuthority] >= book.sol[SaAuthority] + TOKEN_ACCOUNT_RENT
              + (IF DestinationSa(req) = None THEN 0 ELSE out)
              + (IF ThroughDestination(req) THEN 0 ELSE out)
<1> DEFINE h == HandOver(out)
           c == Close(h, req.dst, SaAuthority)
<1>1. /\ MintOf[req.dst] = Wsol /\ OwnerOf[req.dst] = Payer /\ HandOverPayable(out)
  BY DEF Unwrappable
<1>2. /\ h \in Books
      /\ h.sol = book.sol /\ h.closed = book.closed
      /\ DestinationSa(req) = None => h = book
      /\ \A a \in TokenAccounts :
           h.tok[a] >= book.tok[a] - (IF a = DestinationSa(req) THEN out ELSE 0)
      /\ DestinationSa(req) # None => h.tok[req.dst] = book.tok[req.dst] + out
  BY <1>1, HandOverEffect
<1>3. req.dst \in TokenAccounts /\ SaAuthority \in SolAccounts
  BY RequestFacts
<1>4. TOKEN_ACCOUNT_RENT \in Nat
  BY V3BoundsAssumption
<1> HIDE DEF h
<1>5. /\ c \in Books
      /\ \A x \in TokenAccounts \ {req.dst} : c.tok[x] = h.tok[x]
      /\ \A x \in SolAccounts : c.sol[x] >= h.sol[x]
      /\ c.sol[SaAuthority] = h.sol[SaAuthority] + h.tok[req.dst] + TOKEN_ACCOUNT_RENT
  BY <1>2, <1>3, CloseEffect
<1>6. c = Unwrap
  BY DEF Unwrap, h
<1> HIDE DEF c
<1>7. /\ book.tok \in [TokenAccounts -> Nat] /\ book.sol \in [SolAccounts -> Nat]
  BY DEF Books
<1>8. h.tok[req.dst] >= (IF DestinationSa(req) = None THEN 0 ELSE out)
                         + (IF ThroughDestination(req) THEN 0 ELSE out)
  BY <1>1, <1>2, <1>3, <1>7
<1>9. h.tok \in [TokenAccounts -> Nat]
  BY <1>2 DEF Books
<1>10. c.sol[SaAuthority] >= book.sol[SaAuthority] + TOKEN_ACCOUNT_RENT
          + (IF DestinationSa(req) = None THEN 0 ELSE out)
          + (IF ThroughDestination(req) THEN 0 ELSE out)
  BY <1>2, <1>3, <1>4, <1>5, <1>7, <1>8, <1>9
<1> QED
  BY <1>2, <1>5, <1>6, <1>10

(* A step from b to c keeps what belongs to the vault's other accounts and *)
(* to third parties.                                                       *)
Spares(b, c) ==
  /\ \A a \in TokenAccounts :
       a # DestinationSa(req) /\ ~(a = req.dst /\ OwnerOf[a] = Payer) => c.tok[a] >= b.tok[a]
  /\ \A a \in SolAccounts \ {Payer, SaAuthority} : c.sol[a] >= b.sol[a]

(* Fees paid by the vault's output purse, or by the user.                  *)
LEMMA FeesSpare ==
  ASSUME req \in Requests, NEW b \in Books, NEW c, NEW from, NEW x \in Nat,
         FeeEffect(b, c, from, x),
         \/ from \in {SaAuthority, Payer, DestinationSa(req)}
         \/ from = req.dst /\ OwnerOf[req.dst] = Payer
         \/ x = 0 /\ from \in TokenAccounts
  PROVE  /\ c \in Books
         /\ Spares(b, c)
         /\ OutputPurse(c) >= OutputPurse(b) - (IF from \in {SaAuthority, DestinationSa(req)}
                                               THEN x ELSE 0)
<1>1. /\ b.tok \in [TokenAccounts -> Nat] /\ b.sol \in [SolAccounts -> Nat]
      /\ c \in Books
      /\ c.tok \in [TokenAccounts -> Nat] /\ c.sol \in [SolAccounts -> Nat]
  BY DEF Books, FeeEffect
<1>2. /\ req.dst \in TokenAccounts
      /\ DestinationSa(req) = None \/ (DestinationSa(req) \in TokenAccounts /\ OwnerOf[DestinationSa(req)] = SaAuthority)
      /\ None \notin TokenAccounts /\ None \notin SolAccounts
      /\ Payer \in SolAccounts /\ SaAuthority \in SolAccounts /\ Payer # SaAuthority
      /\ TokenAccounts \cap SolAccounts = {}
  BY RequestFacts, V3AccountsAssumption DEF SaAccounts
<1>3. Spares(b, c)
  <2>1. ASSUME NEW a \in TokenAccounts, a # DestinationSa(req),
               ~(a = req.dst /\ OwnerOf[a] = Payer)
        PROVE  c.tok[a] >= b.tok[a]
    <3>1. c.tok[a] >= b.tok[a] - (IF a = from THEN x ELSE 0)
      BY DEF FeeEffect
    <3>2. a = from => x = 0
      BY <1>2, <2>1
    <3> QED
      BY <1>1, <3>1, <3>2
  <2>2. ASSUME NEW a \in SolAccounts \ {Payer, SaAuthority}
        PROVE  c.sol[a] >= b.sol[a]
    <3>1. a # from
      BY <1>2
    <3> QED
      BY <1>1, <3>1 DEF FeeEffect
  <2> QED
    BY <2>1, <2>2 DEF Spares
<1>4. c.sol[SaAuthority] >= b.sol[SaAuthority] - (IF from = SaAuthority THEN x ELSE 0)
  BY <1>1, <1>2 DEF FeeEffect
<1>5. CASE DestinationSa(req) = None
  BY <1>1, <1>2, <1>3, <1>4, <1>5 DEF OutputPurse
<1>6. CASE DestinationSa(req) # None
  <2>1. c.tok[DestinationSa(req)] >= b.tok[DestinationSa(req)] - (IF from = DestinationSa(req) THEN x ELSE 0)
    BY <1>2, <1>6 DEF FeeEffect
  <2>2. from = DestinationSa(req) => from # SaAuthority
    BY <1>2, <1>6
  <2>3. /\ c.tok[DestinationSa(req)] \in Nat /\ b.tok[DestinationSa(req)] \in Nat
        /\ c.sol[SaAuthority] \in Nat /\ b.sol[SaAuthority] \in Nat
    BY <1>1, <1>2, <1>6
  <2>4. /\ OutputPurse(c) = c.sol[SaAuthority] + c.tok[DestinationSa(req)]
        /\ OutputPurse(b) = b.sol[SaAuthority] + b.tok[DestinationSa(req)]
    BY <1>6 DEF OutputPurse
  <2>5. OutputPurse(c) >= OutputPurse(b) - (IF from \in {SaAuthority, DestinationSa(req)} THEN x ELSE 0)
    <3>1. CASE from = DestinationSa(req)
      BY <1>4, <2>1, <2>2, <2>3, <2>4, <3>1
    <3>2. CASE from = SaAuthority
      BY <1>4, <2>1, <2>2, <2>3, <2>4, <3>2
    <3>3. CASE from \notin {SaAuthority, DestinationSa(req)}
      BY <1>4, <2>1, <2>3, <2>4, <3>3
    <3> QED
      BY <3>1, <3>2, <3>3
  <2> QED
    BY <1>1, <1>3, <2>5
<1> QED
  BY <1>5, <1>6

-----------------------------------------------------------------------------
(* Accounting.                                                             *)

(* What the accounting formulas add up are numbers.                        *)
LEMMA AmountsOf ==
  ASSUME TypeOK, HandlerInv, pc # "idle"
  PROVE  /\ req \in Requests /\ spent \in 0..req.amountIn
         /\ PullFee \in Nat /\ FromFee(req) \in Nat
         /\ Charged \in Nat /\ Charged <= FromFee(req) + req.amountIn
         /\ \A a : Unspent(a) \in Int /\ Unspent(a) >= -PullFee
         /\ \A a : Unspent(a) >= 0 \/ (a # None /\ a = SourceSa(req))
<1>1. req \in Requests /\ spent \in Nat /\ spent <= req.amountIn
  BY DEF TypeOK, HandlerInv
<1>2. req.onFrom => FeeRatesAllowed(req.rate, req.platformRate)
  BY DEF HandlerInv
<1>3. FromFee(req) \in Nat /\ Pulled(req) \in Nat /\ req.amountIn \in Nat
  BY <1>1, <1>2, FromFees, RequestFacts
<1>4. PullFee \in Nat
  <2>1. CASE SourceSa(req) = None
    BY <2>1 DEF PullFee
  <2>2. CASE SourceSa(req) # None
    <3>1. SourceSa(req) \in TokenAccounts
      BY <1>1, <2>2, RequestFacts DEF SaAccounts
    <3> QED
      BY <1>3, <2>2, <3>1, WithheldPart DEF PullFee
  <2> QED
    BY <2>1, <2>2
<1> QED
  BY <1>1, <1>3, <1>4 DEF Unspent, Charged

LEMMA OutAmounts ==
  ASSUME TypeOK, HandlerInv, pc # "idle", pc # "swap", RatesAllowed
  PROVE  /\ req \in Requests /\ out \in Nat /\ TOKEN_ACCOUNT_RENT \in Nat
         /\ ToFee \in 0..out /\ TrimAndCharge \in 0..(out - ToFee)
         /\ ActualOut = out - ToFee - TrimAndCharge
         /\ ToCommission \in Nat /\ ToPlatformFee \in Nat
         /\ ToCommission + ToPlatformFee = ToFee
         /\ TrimAmount \in Nat /\ ChargeAmount \in Nat
         /\ TrimAmount + ChargeAmount = TrimAndCharge
         /\ ActualOut \in Nat
BY ToFees, V3BoundsAssumption DEF TypeOK, ActualOut

(* A step after execute_swap keeps the accounts when it spares everybody   *)
(* else's money and takes from the output purse what it pays of its debt.  *)
LEMMA StableStep ==
  ASSUME IInv, pc \in {"after", "trim", "user"}, pc' \in {"trim", "user", "check"},
         UNCHANGED <<committed, req, spent, out>>,
         book' \in Books, Spares(book, book'),
         NEW paid \in Int, Owed \in Int, Owed' \in Int, Owed' <= Owed - paid,
         OutputPurse(book') >= OutputPurse(book) - paid
  PROVE  VaultCovered' /\ PayerCovered'
<1>1. /\ TypeOK /\ VaultCovered /\ PayerCovered
      /\ req \in Requests
      /\ Charged \in Nat /\ \A a : Unspent(a) \in Int
  BY AmountsOf DEF IInv
<1>2. /\ book.tok \in [TokenAccounts -> Nat] /\ book.sol \in [SolAccounts -> Nat]
      /\ committed.tok \in [TokenAccounts -> Nat] /\ committed.sol \in [SolAccounts -> Nat]
      /\ book'.tok \in [TokenAccounts -> Nat] /\ book'.sol \in [SolAccounts -> Nat]
  BY <1>1 DEF TypeOK, Books
<1>3. /\ \A a : Unspent(a)' = Unspent(a)
      /\ Charged' = Charged
  BY DEF Unspent, PullFee, Withheld, Pulled, FromFee, TotalFee, IsChargeSol, Charged
<1>4. /\ SaAccounts \subseteq TokenAccounts
      /\ \A a \in SaAccounts : OwnerOf[a] # Payer
      /\ DestinationSa(req) = None \/ (DestinationSa(req) \in TokenAccounts /\ OwnerOf[DestinationSa(req)] = SaAuthority)
      /\ SaAuthority # Payer /\ SaAuthority \in SolAccounts
  BY <1>1, RequestFacts DEF SaAccounts
<1>5. ASSUME NEW a \in SaAccounts \ {DestinationSa(req')}
      PROVE  book'.tok[a] >= committed'.tok[a] + Unspent(a)'
  <2>1. book'.tok[a] >= book.tok[a]
    BY <1>4, <1>5 DEF Spares
  <2>2. book.tok[a] >= committed.tok[a] + Unspent(a)
    BY <1>1, <1>5 DEF VaultCovered
  <2> QED
    BY <1>1, <1>2, <1>3, <1>4, <2>1, <2>2
<1>6. OutputPurse(book)' >= OutputPurse(committed)' + Owed' + Unspent(DestinationSa(req))'
  <2>1. OutputPurse(book) >= OutputPurse(committed) + Owed + Unspent(DestinationSa(req))
    BY <1>1 DEF VaultCovered
  <2>2. /\ OutputPurse(book)' = OutputPurse(book')
        /\ OutputPurse(committed)' = OutputPurse(committed)
    BY DEF OutputPurse
  <2>3. OutputPurse(book) \in Int /\ OutputPurse(book') \in Int /\ OutputPurse(committed) \in Int
    BY <1>2, <1>4 DEF OutputPurse
  <2>4. Unspent(DestinationSa(req))' = Unspent(DestinationSa(req)) /\ Unspent(DestinationSa(req)) \in Int
    BY <1>1, <1>3
  <2> QED
    BY <2>1, <2>2, <2>3, <2>4
<1>7. ASSUME NEW a \in TokenAccounts
      PROVE  /\ OwnerOf[a] \notin {Payer, SaAuthority} => book'.tok[a] >= committed'.tok[a]
             /\ a # req'.dst /\ OwnerOf[a] = Payer
                  => book'.tok[a] >= committed'.tok[a] - (IF a = req'.src THEN Charged' ELSE 0)
  <2>1. a # req.dst \/ OwnerOf[a] # Payer => a = DestinationSa(req) \/ book'.tok[a] >= book.tok[a]
    BY DEF Spares
  <2>2. /\ OwnerOf[a] \notin {Payer, SaAuthority} => book.tok[a] >= committed.tok[a]
        /\ a # req.dst /\ OwnerOf[a] = Payer
             => book.tok[a] >= committed.tok[a] - (IF a = req.src THEN Charged ELSE 0)
    BY <1>1 DEF PayerCovered
  <2>3. a = DestinationSa(req) => OwnerOf[a] = SaAuthority
    BY <1>1, <1>4, RequestFacts
  <2> QED
    BY <1>1, <1>2, <1>3, <1>4, <2>1, <2>2, <2>3
<1>8. ASSUME NEW a \in SolAccounts \ {Payer, SaAuthority}
      PROVE  book'.sol[a] >= committed'.sol[a]
  <2>1. book'.sol[a] >= book.sol[a] /\ book.sol[a] >= committed.sol[a]
    BY <1>1 DEF Spares, PayerCovered
  <2> QED
    BY <1>2, <2>1
<1>9. VaultCovered'
  BY <1>5, <1>6 DEF VaultCovered
<1>10. PayerCovered'
  BY <1>7, <1>8 DEF PayerCovered
<1> QED
  BY <1>9, <1>10

-----------------------------------------------------------------------------
(* The steps of a handler, one by one.                                     *)

LEMMA InitIInv == Init => IInv
<1> SUFFICES ASSUME Init PROVE IInv
  OBVIOUS
<1>1. /\ book \in InitialBooks /\ committed = book /\ pc = "idle" /\ req = None
      /\ spent = 0 /\ out = 0 /\ unwrapped = FALSE /\ commits = 0
  BY DEF Init
<1>2. book \in Books
  BY <1>1, V3BoundsAssumption
<1>3. TypeOK
  BY <1>1, <1>2 DEF TypeOK
<1>4. HandlerInv /\ VaultCovered /\ PayerCovered
  BY <1>1 DEF HandlerInv, VaultCovered, PayerCovered, Wrapped
<1> QED
  BY <1>3, <1>4 DEF IInv

(* Before the swap, the source account is charged for the amount and for   *)
(* the fees, and the vault keeps the amount.                               *)
LEMMA PullEffect ==
  ASSUME book \in Books, NEW r \in Requests,
         r.onFrom => FeeRatesAllowed(r.rate, r.platformRate),
         SourceSa(r) # None => TokenPayable(book, r.src, SourceSa(r), Pulled(r))
  PROVE  LET c == AfterPull(r)
         IN  /\ c \in Books /\ c.sol = book.sol /\ c.closed = book.closed
             /\ \A a \in TokenAccounts :
                  c.tok[a] = book.tok[a] - (IF a = r.src THEN Pulled(r) ELSE 0)
                             + (IF a = SourceSa(r) THEN Pulled(r) - Withheld(a, Pulled(r)) ELSE 0)
<1>1. /\ Pulled(r) \in Nat /\ r.src \in TokenAccounts /\ None \notin TokenAccounts
      /\ book.tok \in [TokenAccounts -> Nat]
  BY FromFees, RequestFacts DEF Books
<1>2. CASE Pulled(r) = 0
  <2>1. AfterPull(r) = book
    BY <1>2 DEF AfterPull
  <2>2. \A a \in TokenAccounts : Withheld(a, Pulled(r)) = 0
    BY <1>2, WithheldPart
  <2> QED
    BY <1>1, <1>2, <2>1, <2>2
<1>3. CASE Pulled(r) # 0
  <2>1. AfterPull(r) = PayTokens(book, r.src, SourceSa(r), Pulled(r))
    BY <1>3 DEF AfterPull
  <2>2. SourceSa(r) # None
    BY <1>3 DEF Pulled
  <2> QED
    BY <1>1, <1>3, <2>1, <2>2, PayTokensEffect
<1> QED
  BY <1>2, <1>3

(* How the accounts stand when the fees on the input are paid.             *)
LEMMA FundedEffect ==
  ASSUME book \in Books, NEW r \in Requests, Begin(r)
  PROVE  LET d == Funded(r)
             from == FromFeesPaidBy(r)
         IN  /\ FeesPayable(d, from, r.commissionAccount, FromCommission(r),
                            r.platformAccount, FromPlatformFee(r))
             /\ book' = PayFees(d, from, r.commissionAccount, FromCommission(r),
                                r.platformAccount, FromPlatformFee(r))
             /\ FromCommission(r) \in Nat /\ FromPlatformFee(r) \in Nat
             /\ FromCommission(r) + FromPlatformFee(r) = FromFee(r)
             /\ FromFee(r) \in Nat /\ FeesOfPayer(r) \in Nat /\ Pulled(r) \in Nat
             /\ d \in Books /\ d.closed = book.closed
             /\ \A a \in TokenAccounts :
                  d.tok[a] = book.tok[a] - (IF a = r.src THEN Pulled(r) ELSE 0)
                             + (IF a = SourceSa(r) THEN Pulled(r) - Withheld(a, Pulled(r)) ELSE 0)
             /\ \A a \in SolAccounts :
                  d.sol[a] = book.sol[a] - (IF a = Payer THEN FeesOfPayer(r) ELSE 0)
                             + (IF a = SaAuthority THEN FeesOfPayer(r) ELSE 0)
<1> DEFINE c == AfterPull(r)
           d == Funded(r)
           from == FromFeesPaidBy(r)
<1>1. /\ r.onFrom => FeeRatesAllowed(r.rate, r.platformRate)
      /\ SourceSa(r) # None => TokenPayable(book, r.src, SourceSa(r), Pulled(r))
      /\ book.sol[Payer] >= FeesOfPayer(r)
      /\ FeesPayable(d, from, r.commissionAccount, FromCommission(r),
                     r.platformAccount, FromPlatformFee(r))
      /\ book' = PayFees(d, from, r.commissionAccount, FromCommission(r),
                         r.platformAccount, FromPlatformFee(r))
  BY DEF Begin
<1>2. /\ FromCommission(r) \in Nat /\ FromPlatformFee(r) \in Nat
      /\ FromCommission(r) + FromPlatformFee(r) = FromFee(r)
      /\ FromFee(r) \in Nat /\ FeesOfPayer(r) \in Nat /\ Pulled(r) \in Nat
  BY <1>1, FromFees
<1>3. /\ c \in Books /\ c.sol = book.sol /\ c.closed = book.closed
      /\ \A a \in TokenAccounts :
           c.tok[a] = book.tok[a] - (IF a = r.src THEN Pulled(r) ELSE 0)
                      + (IF a = SourceSa(r) THEN Pulled(r) - Withheld(a, Pulled(r)) ELSE 0)
  BY <1>1, PullEffect
<1>4. /\ d \in Books /\ d.tok = c.tok /\ d.closed = c.closed
      /\ \A a \in SolAccounts :
           d.sol[a] = book.sol[a] - (IF a = Payer THEN FeesOfPayer(r) ELSE 0)
                      + (IF a = SaAuthority THEN FeesOfPayer(r) ELSE 0)
  <2>1. d = PaySol(c, Payer, SaAuthority, FeesOfPayer(r))
    BY DEF Funded
  <2> HIDE DEF c, d
  <2> QED
    BY <1>1, <1>2, <1>3, <2>1, PaySolEffect, V3AccountsAssumption
<1> QED
  BY <1>1, <1>2, <1>3, <1>4

LEMMA BeginEffect ==
  ASSUME book \in Books, NEW r \in Requests, Begin(r)
  PROVE  /\ book' \in Books /\ book'.closed = book.closed
         /\ \A a \in TokenAccounts :
              book'.tok[a] >= book.tok[a]
                - (IF a = r.src THEN FromFee(r) + (IF SourceSa(r) = None THEN 0 ELSE r.amountIn)
                   ELSE 0)
                + (IF a = SourceSa(r) THEN r.amountIn - Withheld(a, Pulled(r)) ELSE 0)
         /\ \A a \in SolAccounts \ {Payer} : book'.sol[a] >= book.sol[a]
<1> DEFINE d == Funded(r)
           from == FromFeesPaidBy(r)
<1>1. /\ FeesPayable(d, from, r.commissionAccount, FromCommission(r),
                     r.platformAccount, FromPlatformFee(r))
      /\ book' = PayFees(d, from, r.commissionAccount, FromCommission(r),
                         r.platformAccount, FromPlatformFee(r))
      /\ d \in Books /\ d.closed = book.closed
  BY FundedEffect
<1>2. /\ FromCommission(r) \in Nat /\ FromPlatformFee(r) \in Nat
      /\ FromCommission(r) + FromPlatformFee(r) = FromFee(r)
      /\ FromFee(r) \in Nat /\ FeesOfPayer(r) \in Nat /\ Pulled(r) \in Nat
  BY FundedEffect
<1>3. \A a \in TokenAccounts :
        d.tok[a] = book.tok[a] - (IF a = r.src THEN Pulled(r) ELSE 0)
                   + (IF a = SourceSa(r) THEN Pulled(r) - Withheld(a, Pulled(r)) ELSE 0)
  BY FundedEffect
<1>4. /\ r.src \in TokenAccounts /\ OwnerOf[r.src] = Payer /\ r.amountIn \in Nat
      /\ SourceSa(r) = None \/ (SourceSa(r) \in TokenAccounts /\ OwnerOf[SourceSa(r)] = SaAuthority)
      /\ Payer \in SolAccounts /\ SaAuthority \in SolAccounts /\ Payer # SaAuthority
      /\ None \notin TokenAccounts /\ None \notin SolAccounts
      /\ TokenAccounts \cap SolAccounts = {}
  BY RequestFacts, V3AccountsAssumption DEF SaAccounts
<1>5. \A a \in SolAccounts :
        d.sol[a] = book.sol[a] - (IF a = Payer THEN FeesOfPayer(r) ELSE 0)
                   + (IF a = SaAuthority THEN FeesOfPayer(r) ELSE 0)
  BY FundedEffect
<1> HIDE DEF d, from
<1>6. FeeEffect(d, book', from, FromFee(r))
  <2>1. FeeEffect(d, book', from, FromCommission(r) + FromPlatformFee(r))
    BY <1>1, <1>2, PayFeesEffect
  <2> QED
    BY <1>2, <2>1
<1>7. /\ book.tok \in [TokenAccounts -> Nat] /\ book.sol \in [SolAccounts -> Nat]
      /\ d.tok \in [TokenAccounts -> Nat] /\ d.sol \in [SolAccounts -> Nat]
      /\ book' \in Books
      /\ book'.tok \in [TokenAccounts -> Nat] /\ book'.sol \in [SolAccounts -> Nat]
  BY <1>1, <1>6 DEF Books, FeeEffect
<1>8. \A a \in TokenAccounts : Withheld(a, Pulled(r)) \in Nat
  BY <1>2, WithheldPart
<1>9. ASSUME NEW a \in TokenAccounts
      PROVE  book'.tok[a] >= book.tok[a]
               - (IF a = r.src THEN FromFee(r) + (IF SourceSa(r) = None THEN 0 ELSE r.amountIn)
                  ELSE 0)
               + (IF a = SourceSa(r) THEN r.amountIn - Withheld(a, Pulled(r)) ELSE 0)
  <2>1. book'.tok[a] >= d.tok[a] - (IF a = from THEN FromFee(r) ELSE 0)
    BY <1>6 DEF FeeEffect
  <2>2. d.tok[a] = book.tok[a] - (IF a = r.src THEN Pulled(r) ELSE 0)
                   + (IF a = SourceSa(r) THEN Pulled(r) - Withheld(a, Pulled(r)) ELSE 0)
    BY <1>3
  <2>3. r.src # SourceSa(r)
    BY <1>4
  <2>4. Withheld(a, Pulled(r)) \in Nat
    BY <1>8
  <2> DEFINE sol == IsChargeSol(r.commissionAccount, r.platformAccount, r.src)
  <2>5. CASE sol
    <3>1. from # a /\ Pulled(r) = (IF SourceSa(r) = None THEN 0 ELSE r.amountIn)
      BY <1>4, <2>5 DEF from, FromFeesPaidBy, Pulled
    <3> QED
      BY <1>2, <1>4, <1>7, <2>1, <2>2, <2>3, <2>4, <3>1
  <2>6. CASE ~sol /\ r.toB
    <3>1. /\ from = SourceSa(r)
          /\ Pulled(r) = (IF SourceSa(r) = None THEN 0 ELSE r.amountIn + FromFee(r))
      BY <2>6 DEF from, FromFeesPaidBy, Pulled
    <3> QED
      BY <1>2, <1>4, <1>7, <2>1, <2>2, <2>3, <2>4, <3>1
  <2>7. CASE ~sol /\ ~r.toB
    <3>1. /\ from = r.src
          /\ Pulled(r) = (IF SourceSa(r) = None THEN 0 ELSE r.amountIn)
      BY <2>7 DEF from, FromFeesPaidBy, Pulled
    <3> QED
      BY <1>2, <1>4, <1>7, <2>1, <2>2, <2>3, <2>4, <3>1
  <2> QED
    BY <2>5, <2>6, <2>7
<1>10. ASSUME NEW a \in SolAccounts \ {Payer}
       PROVE  book'.sol[a] >= book.sol[a]
  <2>1. d.sol[a] = book.sol[a] + (IF a = SaAuthority THEN FeesOfPayer(r) ELSE 0)
    BY <1>2, <1>4, <1>5, <1>7
  <2>2. \/ book'.sol[a] >= d.sol[a] - (IF a = from THEN FromFee(r) ELSE 0)
        \/ a = from /\ a # SaAuthority
    BY <1>6 DEF FeeEffect
  <2>3. a = from => a = SaAuthority /\ FeesOfPayer(r) = FromFee(r)
    BY <1>4 DEF from, FromFeesPaidBy, FeesOfPayer
  <2> QED
    BY <1>2, <1>4, <1>7, <2>1, <2>2, <2>3
<1> QED
  BY <1>1, <1>6, <1>7, <1>9, <1>10 DEF FeeEffect

LEMMA BeginIInv ==
  ASSUME IInv, NEW r \in Requests, Begin(r)
  PROVE  IInv'
<1>1. /\ TypeOK /\ HandlerInv /\ pc = "idle" /\ book = committed
      /\ req' = r /\ pc' = "swap" /\ committed' = committed
      /\ spent' = spent /\ out' = out /\ unwrapped' = unwrapped /\ commits' = commits
      /\ {r.src, r.dst} \cap book.closed = {}
      /\ r.onFrom => FeeRatesAllowed(r.rate, r.platformRate)
  BY DEF IInv, HandlerInv, Begin
<1>2. /\ book' \in Books /\ book'.closed = book.closed
      /\ \A a \in TokenAccounts :
           book'.tok[a] >= book.tok[a]
             - (IF a = r.src THEN FromFee(r) + (IF SourceSa(r) = None THEN 0 ELSE r.amountIn)
                ELSE 0)
             + (IF a = SourceSa(r) THEN r.amountIn - Withheld(a, Pulled(r)) ELSE 0)
      /\ \A a \in SolAccounts \ {Payer} : book'.sol[a] >= book.sol[a]
  BY <1>1, BeginEffect DEF TypeOK
<1>3. TypeOK'
  BY <1>1, <1>2 DEF TypeOK
<1>4. r.dst \in TokenAccounts /\ r.amountIn \in Nat
  BY RequestFacts
<1>5. HandlerInv'
  BY <1>1, <1>2, <1>4 DEF HandlerInv, Wrapped
<1>6. /\ spent = 0
      /\ PullFee' = (IF SourceSa(r) = None THEN 0 ELSE Withheld(SourceSa(r), Pulled(r)))
      /\ FromFee(r) \in Nat /\ Pulled(r) \in Nat
      /\ Charged' = FromFee(r) + (IF SourceSa(r) = None THEN 0 ELSE r.amountIn)
  BY <1>1, FromFees DEF HandlerInv, PullFee, Withheld, Pulled, FromFee, TotalFee,
     IsChargeSol, Charged
<1>7. /\ r.src \in TokenAccounts /\ r.src \notin SaAccounts
      /\ SourceSa(r) = None \/ SourceSa(r) \in SaAccounts
      /\ DestinationSa(r) = None \/ DestinationSa(r) \in SaAccounts
      /\ None \notin TokenAccounts
      /\ SaAuthority \in SolAccounts /\ Payer # SaAuthority
      /\ SaAccounts = {a \in TokenAccounts : OwnerOf[a] = SaAuthority}
      /\ OwnerOf[r.src] = Payer
  BY RequestFacts DEF SaAccounts
<1>8. /\ book.tok \in [TokenAccounts -> Nat] /\ book.sol \in [SolAccounts -> Nat]
      /\ book'.tok \in [TokenAccounts -> Nat] /\ book'.sol \in [SolAccounts -> Nat]
  BY <1>1, <1>2 DEF TypeOK, Books
<1>9. ASSUME NEW a \in SaAccounts
      PROVE  /\ book'.tok[a] >= committed'.tok[a] + Unspent(a)'
             /\ Unspent(a)' \in Int
  <2>1. Unspent(a)' = IF a = SourceSa(r) THEN r.amountIn - Withheld(a, Pulled(r)) ELSE 0
    BY <1>1, <1>4, <1>6, <1>7 DEF Unspent
  <2>2. a \in TokenAccounts /\ a # r.src
    BY <1>7
  <2>3. Withheld(a, Pulled(r)) \in Nat
    BY <1>6, <2>2, WithheldPart
  <2> QED
    BY <1>1, <1>2, <1>4, <1>8, <2>1, <2>2, <2>3
<1>10. OutputPurse(book)' >= OutputPurse(committed)' + Owed' + Unspent(DestinationSa(req))'
  <2>1. Owed' = 0
    <3>1. Advanced' = 0
      BY <1>1 DEF Advanced, HandlerInv
    <3> QED
      BY <1>1, <3>1 DEF Owed
  <2>2. book'.sol[SaAuthority] >= book.sol[SaAuthority]
    BY <1>2, <1>7
  <2>3. CASE DestinationSa(r) = None
    <3>1. Unspent(DestinationSa(req))' = 0
      BY <1>1, <2>3 DEF Unspent
    <3> QED
      BY <1>1, <1>7, <1>8, <2>1, <2>2, <2>3, <3>1 DEF OutputPurse
  <2>4. CASE DestinationSa(r) # None
    <3>1. DestinationSa(r) \in SaAccounts /\ DestinationSa(r) \in TokenAccounts
      BY <1>7, <2>4
    <3>2. book'.tok[DestinationSa(r)] >= committed'.tok[DestinationSa(r)] + Unspent(DestinationSa(r))'
      BY <1>9, <3>1
    <3>3. Unspent(DestinationSa(req))' = Unspent(DestinationSa(r))'
      BY <1>1 DEF Unspent
    <3>4. Unspent(DestinationSa(r))' \in Int
      BY <1>9, <3>1
    <3> QED
      BY <1>1, <1>7, <1>8, <2>1, <2>2, <2>4, <3>1, <3>2, <3>3, <3>4 DEF OutputPurse
  <2> QED
    BY <2>3, <2>4
<1>11. VaultCovered'
  BY <1>9, <1>10 DEF VaultCovered
<1>12. PayerCovered'
  <2>1. ASSUME NEW a \in TokenAccounts
        PROVE  /\ OwnerOf[a] \notin {Payer, SaAuthority} => book'.tok[a] >= committed'.tok[a]
               /\ a # req'.dst /\ OwnerOf[a] = Payer
                    => book'.tok[a] >= committed'.tok[a]
                                       - (IF a = req'.src THEN Charged' ELSE 0)
    <3>1. OwnerOf[a] # SaAuthority => a # SourceSa(r)
      BY <1>7
    <3>2. OwnerOf[a] # SaAuthority
            => book'.tok[a] >= book.tok[a] - (IF a = r.src THEN Charged' ELSE 0)
      BY <1>2, <1>4, <1>6, <1>8, <3>1
    <3> QED
      BY <1>1, <1>7, <1>8, <3>2
  <2>2. \A a \in SolAccounts \ {Payer, SaAuthority} : book'.sol[a] >= committed'.sol[a]
    BY <1>1, <1>2
  <2> QED
    BY <2>1, <2>2 DEF PayerCovered
<1> QED
  BY <1>3, <1>5, <1>11, <1>12 DEF IInv

(* execute_swap takes from the source account and gives to the destination *)
(* account; what it gives is what the latter gains.                        *)
LEMMA ExecuteSwapEffect ==
  ASSUME IInv, ExecuteSwap
  PROVE  LET from == SourceAccount(req)
             to == DestinationAccount(req)
         IN  /\ book' \in Books /\ book'.sol = book.sol /\ book'.closed = book.closed
             /\ spent' \in Nat /\ spent' <= req.amountIn /\ out' \in Nat
             /\ SourceSa(req) # None /\ ~ThroughSource(req) => spent' = 0
             /\ book'.tok[to] = book.tok[to] + out'
             /\ \A a \in TokenAccounts \ {to} :
                  book'.tok[a] = book.tok[a] - (IF a = from THEN spent' ELSE 0)
<1> DEFINE from == SourceAccount(req)
           to == DestinationAccount(req)
           after(taken) == [book.tok EXCEPT ![from] = book.tok[from] - taken]
<1>1. /\ TypeOK /\ HandlerInv /\ VaultCovered /\ PayerCovered
      /\ pc = "swap" /\ pc' = "after" /\ committed' = committed /\ req' = req
      /\ unwrapped' = unwrapped /\ commits' = commits
      /\ spent = 0 /\ out = 0 /\ ~unwrapped
  BY DEF IInv, HandlerInv, ExecuteSwap
<1>2. PICK taken \in 0..req.amountIn, got \in 0..MaxOut :
        /\ Unsigned(req) => taken = 0
        /\ taken <= book.tok[from]
        /\ after(taken)[to] + got >= book.tok[to]
        /\ book' = [book EXCEPT !.tok = [after(taken) EXCEPT ![to] = after(taken)[to] + got]]
        /\ spent' = taken
        /\ out' = after(taken)[to] + got - book.tok[to]
  BY DEF ExecuteSwap
<1>3. /\ req \in Requests /\ from \in TokenAccounts /\ to \in TokenAccounts
      /\ req.amountIn \in Nat
  BY <1>1, AmountsOf, RequestFacts
<1>4. /\ book.tok \in [TokenAccounts -> Nat] /\ book.sol \in [SolAccounts -> Nat]
      /\ committed.tok \in [TokenAccounts -> Nat] /\ committed.sol \in [SolAccounts -> Nat]
      /\ book.closed \in SUBSET TokenAccounts
      /\ book = [tok |-> book.tok, sol |-> book.sol, closed |-> book.closed]
  BY <1>1 DEF TypeOK, Books
<1>5. taken \in Nat /\ got \in Nat
  BY <1>2, <1>3, V3BoundsAssumption
<1>6. \A a \in TokenAccounts :
        after(taken)[a] = book.tok[a] - (IF a = from THEN taken ELSE 0)
  BY <1>3, <1>4, <1>5
<1>7. after(taken) \in [TokenAccounts -> Nat]
  BY <1>2, <1>3, <1>4, <1>5
<1> HIDE DEF from, to, after
<1>8. out' = (IF from = to THEN got - taken ELSE got) /\ out' \in Nat
  BY <1>2, <1>3, <1>4, <1>5, <1>6
<1>9. /\ book' \in Books /\ book'.sol = book.sol /\ book'.closed = book.closed
      /\ book'.tok = [after(taken) EXCEPT ![to] = after(taken)[to] + got]
  <2>1. [after(taken) EXCEPT ![to] = after(taken)[to] + got] \in [TokenAccounts -> Nat]
    BY <1>3, <1>5, <1>7
  <2> QED
    BY <1>2, <1>4, <2>1 DEF Books
<1>10. \A a \in TokenAccounts :
         book'.tok[a] = book.tok[a] - (IF a = from THEN taken ELSE 0)
                        + (IF a = to THEN got ELSE 0)
  BY <1>3, <1>4, <1>5, <1>6, <1>7, <1>9
<1>11. book'.tok[to] = book.tok[to] + out'
  BY <1>3, <1>4, <1>5, <1>8, <1>10
<1>12. SourceSa(req) # None /\ ~ThroughSource(req) => spent' = 0
  BY <1>2 DEF Unsigned, SourceSa
<1> QED
  BY <1>2, <1>3, <1>4, <1>5, <1>8, <1>9, <1>10, <1>11, <1>12 DEF from, to

LEMMA ExecuteSwapIInv ==
  ASSUME IInv, ExecuteSwap
  PROVE  IInv'
<1> DEFINE from == SourceAccount(req)
           to == DestinationAccount(req)
           taken == spent'
<1>1. /\ TypeOK /\ HandlerInv /\ VaultCovered /\ PayerCovered
      /\ pc = "swap" /\ pc' = "after" /\ committed' = committed /\ req' = req
      /\ unwrapped' = unwrapped /\ commits' = commits
      /\ spent = 0 /\ out = 0 /\ ~unwrapped
  BY DEF IInv, HandlerInv, ExecuteSwap
<1>2. /\ spent' = taken /\ taken <= req.amountIn /\ taken \in Nat
  BY ExecuteSwapEffect
<1>3. /\ req \in Requests /\ from \in TokenAccounts /\ to \in TokenAccounts
      /\ req.amountIn \in Nat
  BY <1>1, AmountsOf, RequestFacts
<1>4. /\ book.tok \in [TokenAccounts -> Nat] /\ book.sol \in [SolAccounts -> Nat]
      /\ committed.tok \in [TokenAccounts -> Nat] /\ committed.sol \in [SolAccounts -> Nat]
      /\ book.closed \in SUBSET TokenAccounts
  BY <1>1 DEF TypeOK, Books
<1>5. taken \in Nat
  BY <1>2
<1>6. out' \in Nat
  BY ExecuteSwapEffect
<1>7. book' \in Books /\ book'.sol = book.sol /\ book'.closed = book.closed
  BY ExecuteSwapEffect
<1>8. \A a \in TokenAccounts \ {to} :
         book'.tok[a] = book.tok[a] - (IF a = from THEN taken ELSE 0)
  BY ExecuteSwapEffect
<1>9. book'.tok[to] = book.tok[to] + out'
  BY ExecuteSwapEffect
<1> HIDE DEF from, to, taken
<1>10. TypeOK'
  BY <1>1, <1>2, <1>5, <1>6, <1>7 DEF TypeOK
<1>11. HandlerInv'
  <2>1. req.dst \notin book'.closed
    BY <1>1, <1>7 DEF HandlerInv, Wrapped
  <2>2. ~ThroughDestination(req) => book'.tok[req.dst] >= out'
    <3> SUFFICES ASSUME ~ThroughDestination(req) PROVE book'.tok[req.dst] >= out'
      OBVIOUS
    <3>1. to = req.dst
      BY DEF to, DestinationAccount
    <3> QED
      BY <1>3, <1>4, <1>6, <1>9, <3>1
  <2>3. spent' <= req.amountIn
    BY <1>2, <1>3
  <2>4. req.onFrom => FeeRatesAllowed(req.rate, req.platformRate)
    BY <1>1 DEF HandlerInv
  <2> QED
    BY <1>1, <2>1, <2>2, <2>3, <2>4 DEF HandlerInv
<1>12. /\ SaAccounts = {a \in TokenAccounts : OwnerOf[a] = SaAuthority}
       /\ None \notin TokenAccounts
       /\ DestinationSa(req) = None \/ DestinationSa(req) \in SaAccounts
       /\ SourceSa(req) = None \/ SourceSa(req) \in SaAccounts
       /\ req.src \notin SaAccounts /\ OwnerOf[req.src] = Payer /\ Payer # SaAuthority
       /\ SaAuthority \in SolAccounts
       /\ from = IF ThroughSource(req) THEN SourceSa(req) ELSE req.src
       /\ to = IF ThroughDestination(req) THEN DestinationSa(req) ELSE req.dst
       /\ ThroughDestination(req) => DestinationSa(req) # None
       /\ ThroughSource(req) => SourceSa(req) # None
       /\ SourceSa(req) # None /\ ~ThroughSource(req) => taken = 0
  BY <1>3, RequestFacts, ExecuteSwapEffect
     DEF SaAccounts, from, to, taken, SourceAccount, DestinationAccount,
         ThroughSource, ThroughDestination
<1>13. PullFee \in Nat /\ PullFee' = PullFee /\ FromFee(req) \in Nat
  BY <1>1, AmountsOf DEF PullFee, Withheld, Pulled, FromFee, TotalFee, IsChargeSol
<1>14. /\ \A a : Unspent(a) = IF a # None /\ a = SourceSa(req) THEN req.amountIn - PullFee ELSE 0
       /\ \A a : Unspent(a)' = IF a # None /\ a = SourceSa(req)
                               THEN req.amountIn - PullFee - (IF a = to THEN 0 ELSE taken)
                               ELSE 0
  BY <1>1, <1>2, <1>3, <1>13 DEF Unspent, to, DestinationAccount
<1>15. VaultCovered'
  <2>1. ASSUME NEW a \in SaAccounts \ {DestinationSa(req)}
        PROVE  book'.tok[a] >= committed'.tok[a] + Unspent(a)'
    <3>1. book.tok[a] >= committed.tok[a] + Unspent(a)
      BY <1>1, <2>1 DEF VaultCovered
    <3>2. a \in TokenAccounts /\ a # None
      BY <1>12
    <3>3. /\ Unspent(a) = IF a = SourceSa(req) THEN req.amountIn - PullFee ELSE 0
          /\ Unspent(a)' = IF a = SourceSa(req)
                           THEN req.amountIn - PullFee - (IF a = to THEN 0 ELSE taken)
                           ELSE 0
      BY <1>14, <3>2
    <3>4. book.tok[a] \in Nat /\ book'.tok[a] \in Nat /\ committed.tok[a] \in Nat
      BY <1>4, <1>7, <3>2 DEF Books
    <3>5. CASE a = SourceSa(req)
      <4>2. CASE a = to
        BY <1>1, <1>3, <1>6, <1>9, <1>13, <3>1, <3>3, <3>4, <3>5, <4>2
      <4>3. CASE a # to
        BY <1>1, <1>3, <1>5, <1>8, <1>13, <3>1, <3>2, <3>3, <3>4, <3>5, <4>3
      <4> QED
        BY <4>2, <4>3
    <3>6. CASE a # SourceSa(req)
      <4>1. a # from
        BY <1>12, <2>1, <3>6
      <4> QED
        BY <1>1, <1>3, <1>5, <1>6, <1>8, <1>9, <3>1, <3>2, <3>3, <3>4, <3>6, <4>1
    <3> QED
      BY <3>5, <3>6
  <2>2. OutputPurse(book)' >= OutputPurse(committed)' + Owed' + Unspent(DestinationSa(req))'
    <3>1. OutputPurse(book) >= OutputPurse(committed) + Owed + Unspent(DestinationSa(req))
      BY <1>1 DEF VaultCovered
    <3>2. Owed = 0 /\ Owed' = IF ThroughDestination(req) THEN out' ELSE 0
      BY <1>1, <1>6, <1>12 DEF Owed, Advanced, Unserved
    <3>3. book.sol[SaAuthority] \in Nat /\ committed.sol[SaAuthority] \in Nat
      BY <1>4, <1>12
    <3>4. CASE DestinationSa(req) = None
      <4>1. Unspent(DestinationSa(req)) = 0 /\ Unspent(DestinationSa(req))' = 0
        BY <1>1, <3>4 DEF Unspent
      <4> QED
        BY <1>1, <1>7, <1>12, <3>1, <3>2, <3>3, <3>4, <4>1 DEF OutputPurse
    <3>5. CASE ThroughDestination(req)
      <4>1. to = DestinationSa(req) /\ DestinationSa(req) # None
        BY <1>12, <3>5
      <4>2. Unspent(DestinationSa(req))' = Unspent(DestinationSa(req)) /\ Unspent(DestinationSa(req)) \in Int
        BY <1>1, <1>3, <1>13, <1>14, <4>1 DEF Unspent
      <4>3. /\ book.tok[DestinationSa(req)] \in Nat /\ committed.tok[DestinationSa(req)] \in Nat
            /\ book'.tok[DestinationSa(req)] = book.tok[DestinationSa(req)] + out'
        BY <1>3, <1>4, <1>9, <4>1
      <4> QED
        BY <1>1, <1>6, <1>7, <3>1, <3>2, <3>3, <3>5, <4>1, <4>2, <4>3 DEF OutputPurse
    <3>6. CASE DestinationSa(req) # None /\ ~ThroughDestination(req)
      <4>0. PICK d \in SaAccounts : d = DestinationSa(req)
        BY <1>12, <3>6
      <4>1. to = req.dst /\ d \in TokenAccounts /\ OwnerOf[d] = SaAuthority /\ d # None
        BY <1>12, <3>6, <4>0
      <4>2. /\ book.tok[d] \in Nat /\ committed.tok[d] \in Nat /\ book'.tok[d] \in Nat
        BY <1>4, <1>7, <4>1 DEF Books
      <4>3. book'.tok[d] >= book.tok[d] - (IF d = SourceSa(req) THEN taken ELSE 0)
        <5>1. CASE d = to
          BY <1>5, <1>6, <1>9, <4>2, <5>1
        <5>2. CASE d # to
          <6>1. book'.tok[d] = book.tok[d] - (IF d = from THEN taken ELSE 0)
            BY <1>8, <4>1, <5>2
          <6>2. d = from => d = SourceSa(req)
            BY <1>12, <4>1
          <6> QED
            BY <1>5, <4>2, <6>1, <6>2
        <5> QED
          BY <5>1, <5>2
      <4>5. Unspent(d)' <= Unspent(d) - (IF d = SourceSa(req) THEN taken ELSE 0) \/ d = to
        BY <1>3, <1>5, <1>13, <1>14, <4>1
      <4>6. d = to => Unspent(d)' = Unspent(d) /\ book'.tok[d] >= book.tok[d]
        BY <1>3, <1>5, <1>6, <1>9, <1>13, <1>14, <4>1, <4>2
      <4>7. Unspent(d) \in Int /\ Unspent(d)' \in Int
        BY <1>3, <1>5, <1>13, <1>14, <4>1
      <4>8. Unspent(DestinationSa(req))' = Unspent(d)'
        BY <1>1, <4>0 DEF Unspent
      <4>9. book'.tok[d] - Unspent(d)' >= book.tok[d] - Unspent(d)
        BY <1>5, <4>2, <4>3, <4>5, <4>6, <4>7
      <4>10. /\ OutputPurse(book) = book.sol[SaAuthority] + book.tok[d]
             /\ OutputPurse(book)' = book.sol[SaAuthority] + book'.tok[d]
             /\ OutputPurse(committed) = committed.sol[SaAuthority] + committed.tok[d]
             /\ OutputPurse(committed)' = committed.sol[SaAuthority] + committed.tok[d]
        BY <1>1, <1>7, <3>6, <4>0 DEF OutputPurse
      <4>11. OutputPurse(book) >= OutputPurse(committed) + Unspent(d)
        BY <3>1, <3>2, <3>3, <4>0, <4>2, <4>7, <4>10
      <4>12. OutputPurse(book)' >= OutputPurse(committed)' + Unspent(d)'
        BY <3>3, <4>2, <4>7, <4>9, <4>10, <4>11
      <4> QED
        BY <3>2, <3>3, <3>6, <4>2, <4>7, <4>8, <4>10, <4>12
    <3> QED
      BY <3>4, <3>5, <3>6
  <2> QED
    BY <1>1, <2>1, <2>2 DEF VaultCovered
<1>16. PayerCovered'
  <2>1. /\ Charged = FromFee(req) + (IF SourceSa(req) = None THEN 0 ELSE req.amountIn)
        /\ Charged' = FromFee(req) + req.amountIn
    BY <1>1 DEF Charged, FromFee, TotalFee
  <2>2. ASSUME NEW a \in TokenAccounts
        PROVE  /\ OwnerOf[a] \notin {Payer, SaAuthority} => book'.tok[a] >= committed'.tok[a]
               /\ a # req'.dst /\ OwnerOf[a] = Payer
                    => book'.tok[a] >= committed'.tok[a]
                                       - (IF a = req'.src THEN Charged' ELSE 0)
    <3>1. /\ OwnerOf[a] \notin {Payer, SaAuthority} => book.tok[a] >= committed.tok[a]
          /\ a # req.dst /\ OwnerOf[a] = Payer
               => book.tok[a] >= committed.tok[a] - (IF a = req.src THEN Charged ELSE 0)
      BY <1>1 DEF PayerCovered
    <3>2. book.tok[a] \in Nat /\ committed.tok[a] \in Nat
      BY <1>4
    <3>3. book'.tok[a] >= book.tok[a] - (IF a = from THEN taken ELSE 0)
      BY <1>5, <1>6, <1>8, <1>9, <3>2
    <3>4. OwnerOf[a] # SaAuthority /\ a = from
            => a = req.src /\ (SourceSa(req) = None \/ taken = 0)
      BY <1>12
    <3>5. book'.tok[a] \in Nat
      BY <1>7 DEF Books
    <3>6. taken <= req.amountIn
      BY <1>2, <1>3
    <3>7. ASSUME OwnerOf[a] \notin {Payer, SaAuthority}
          PROVE  book'.tok[a] >= committed'.tok[a]
      <4>1. a # from
        BY <1>12, <3>4, <3>7
      <4> QED
        BY <1>1, <3>1, <3>2, <3>3, <3>5, <3>7, <4>1
    <3>8. ASSUME a # req.dst, OwnerOf[a] = Payer
          PROVE  book'.tok[a] >= committed.tok[a] - (IF a = req.src THEN Charged' ELSE 0)
      <4>1. CASE a = from
        BY <1>3, <1>5, <1>12, <1>13, <2>1, <3>1, <3>2, <3>3, <3>4, <3>5, <3>6, <3>8, <4>1
      <4>2. CASE a # from
        BY <1>3, <1>13, <2>1, <3>1, <3>2, <3>3, <3>5, <3>8, <4>2
      <4> QED
        BY <4>1, <4>2
    <3> QED
      BY <1>1, <3>7, <3>8
  <2>3. \A a \in SolAccounts \ {Payer, SaAuthority} : book'.sol[a] >= committed'.sol[a]
    BY <1>1, <1>7 DEF PayerCovered
  <2> QED
    BY <2>2, <2>3 DEF PayerCovered
<1> QED
  BY <1>10, <1>11, <1>15, <1>16 DEF IInv

-----------------------------------------------------------------------------
(* After the swap every step moves money in ways that keep everybody       *)
(* else's, at a price that the output purse pays.                          *)
Keeps(b, c, price) ==
  /\ c \in Books
  /\ Spares(b, c)
  /\ OutputPurse(c) >= OutputPurse(b) - price

LEMMA PurseNumber ==
  ASSUME req \in Requests, NEW b \in Books
  PROVE  OutputPurse(b) \in Int
<1>1. /\ DestinationSa(req) = None \/ DestinationSa(req) \in TokenAccounts
      /\ SaAuthority \in SolAccounts
      /\ b.tok \in [TokenAccounts -> Nat] /\ b.sol \in [SolAccounts -> Nat]
  BY RequestFacts DEF SaAccounts, Books
<1> QED
  BY <1>1 DEF OutputPurse

LEMMA KeepsBoth ==
  ASSUME req \in Requests, NEW b \in Books, NEW c, NEW d, NEW x \in Int, NEW y \in Int,
         Keeps(b, c, x), Keeps(c, d, y)
  PROVE  Keeps(b, d, x + y)
<1>1. c \in Books /\ d \in Books
  BY DEF Keeps
<1>2. OutputPurse(b) \in Int /\ OutputPurse(c) \in Int /\ OutputPurse(d) \in Int
  BY <1>1, PurseNumber
<1>3. OutputPurse(d) >= OutputPurse(b) - (x + y)
  BY <1>2 DEF Keeps
<1>4. /\ b.tok \in [TokenAccounts -> Nat] /\ b.sol \in [SolAccounts -> Nat]
      /\ c.tok \in [TokenAccounts -> Nat] /\ c.sol \in [SolAccounts -> Nat]
      /\ d.tok \in [TokenAccounts -> Nat] /\ d.sol \in [SolAccounts -> Nat]
  BY <1>1 DEF Books
<1>5. Spares(b, c) /\ Spares(c, d)
  BY DEF Keeps
<1>6. Spares(b, d)
  <2>1. ASSUME NEW a \in TokenAccounts, a # DestinationSa(req),
               ~(a = req.dst /\ OwnerOf[a] = Payer)
        PROVE  d.tok[a] >= b.tok[a]
    <3>1. d.tok[a] >= c.tok[a] /\ c.tok[a] >= b.tok[a]
      BY <1>5, <2>1 DEF Spares
    <3> QED
      BY <1>4, <3>1
  <2>2. ASSUME NEW a \in SolAccounts \ {Payer, SaAuthority}
        PROVE  d.sol[a] >= b.sol[a]
    <3>1. d.sol[a] >= c.sol[a] /\ c.sol[a] >= b.sol[a]
      BY <1>5 DEF Spares
    <3> QED
      BY <1>4, <3>1
  <2> QED
    BY <2>1, <2>2 DEF Spares
<1> QED
  BY <1>1, <1>3, <1>6 DEF Keeps

LEMMA KeepsAll ==
  ASSUME req \in Requests, NEW b \in Books
  PROVE  Keeps(b, b, 0)
<1>1. b.tok \in [TokenAccounts -> Nat] /\ b.sol \in [SolAccounts -> Nat]
  BY DEF Books
<1>2. OutputPurse(b) \in Int
  BY PurseNumber
<1> QED
  BY <1>1, <1>2 DEF Keeps, Spares

LEMMA HandOverKeeps ==
  ASSUME book \in Books, req \in Requests, NEW x \in Nat, HandOverPayable(x)
  PROVE  Keeps(book, HandOver(x), IF DestinationSa(req) = None THEN 0 ELSE x)
<1> DEFINE h == HandOver(x)
<1>1. /\ h \in Books /\ h.sol = book.sol
      /\ \A a \in TokenAccounts :
           h.tok[a] >= book.tok[a] - (IF a = DestinationSa(req) THEN x ELSE 0)
  BY HandOverEffect
<1>2. /\ book.tok \in [TokenAccounts -> Nat] /\ book.sol \in [SolAccounts -> Nat]
      /\ h.tok \in [TokenAccounts -> Nat]
  BY <1>1 DEF Books
<1>3. /\ DestinationSa(req) = None \/ DestinationSa(req) \in TokenAccounts
      /\ SaAuthority \in SolAccounts /\ None \notin TokenAccounts
  BY RequestFacts DEF SaAccounts
<1> HIDE DEF h
<1>4. Spares(book, h)
  BY <1>1, <1>2 DEF Spares
<1>5. OutputPurse(h) >= OutputPurse(book) - (IF DestinationSa(req) = None THEN 0 ELSE x)
  BY <1>1, <1>2, <1>3 DEF OutputPurse
<1>6. Keeps(book, h, IF DestinationSa(req) = None THEN 0 ELSE x)
  BY <1>1, <1>4, <1>5 DEF Keeps
<1> QED
  BY <1>6 DEF h

LEMMA CloseKeeps ==
  ASSUME req \in Requests, NEW b \in Books, OwnerOf[req.dst] = Payer
  PROVE  Keeps(b, Close(b, req.dst, Payer), 0)
<1> DEFINE c == Close(b, req.dst, Payer)
<1>1. /\ req.dst \in TokenAccounts /\ Payer \in SolAccounts /\ SaAuthority \in SolAccounts
      /\ DestinationSa(req) = None \/ (DestinationSa(req) \in TokenAccounts /\ DestinationSa(req) # req.dst)
      /\ None \notin TokenAccounts
  BY RequestFacts DEF SaAccounts
<1>2. /\ c \in Books
      /\ \A x \in TokenAccounts \ {req.dst} : c.tok[x] = b.tok[x]
      /\ \A x \in SolAccounts : c.sol[x] >= b.sol[x]
  BY <1>1, CloseEffect
<1>3. /\ b.tok \in [TokenAccounts -> Nat] /\ b.sol \in [SolAccounts -> Nat]
      /\ c.tok \in [TokenAccounts -> Nat] /\ c.sol \in [SolAccounts -> Nat]
  BY <1>2 DEF Books
<1> HIDE DEF c
<1>4. Spares(b, c)
  BY <1>2, <1>3 DEF Spares
<1>5. OutputPurse(c) >= OutputPurse(b) - 0
  BY <1>1, <1>2, <1>3 DEF OutputPurse
<1>6. Keeps(b, c, 0)
  BY <1>2, <1>4, <1>5 DEF Keeps
<1> QED
  BY <1>6 DEF c

LEMMA UnwrapKeeps ==
  ASSUME book \in Books, req \in Requests, out \in Nat, Unwrappable,
         req.dst \notin book.closed,
         ~ThroughDestination(req) /\ OwnerOf[req.dst] = Payer => book.tok[req.dst] >= out
  PROVE  Keeps(book, Unwrap,
               -TOKEN_ACCOUNT_RENT - (IF ThroughDestination(req) THEN 0 ELSE out))
<1> DEFINE c == Unwrap
<1>1. /\ c \in Books
      /\ \A a \in TokenAccounts \ {req.dst} :
           c.tok[a] >= book.tok[a] - (IF a = DestinationSa(req) THEN out ELSE 0)
      /\ \A a \in SolAccounts : c.sol[a] >= book.sol[a]
      /\ c.sol[SaAuthority] >= book.sol[SaAuthority] + TOKEN_ACCOUNT_RENT
           + (IF DestinationSa(req) = None THEN 0 ELSE out)
           + (IF ThroughDestination(req) THEN 0 ELSE out)
  BY UnwrapEffect
<1>2. /\ book.tok \in [TokenAccounts -> Nat] /\ book.sol \in [SolAccounts -> Nat]
      /\ c.tok \in [TokenAccounts -> Nat] /\ c.sol \in [SolAccounts -> Nat]
      /\ TOKEN_ACCOUNT_RENT \in Nat
  BY <1>1, V3BoundsAssumption DEF Books
<1>3. OwnerOf[req.dst] = Payer
  BY DEF Unwrappable
<1>4. /\ SaAuthority \in SolAccounts /\ None \notin TokenAccounts
      /\ DestinationSa(req) = None \/ (DestinationSa(req) \in TokenAccounts /\ DestinationSa(req) # req.dst)
  BY <1>3, RequestFacts DEF SaAccounts
<1> HIDE DEF c
<1>5. Spares(book, c)
  BY <1>1, <1>2, <1>3 DEF Spares
<1>6. OutputPurse(c) >= OutputPurse(book)
         - (-TOKEN_ACCOUNT_RENT - (IF ThroughDestination(req) THEN 0 ELSE out))
  <2>1. CASE DestinationSa(req) = None
    BY <1>1, <1>2, <1>4, <2>1 DEF OutputPurse, ThroughDestination
  <2>2. CASE DestinationSa(req) # None
    <3>1. c.tok[DestinationSa(req)] >= book.tok[DestinationSa(req)] - out
      BY <1>1, <1>4, <2>2
    <3>2. /\ c.tok[DestinationSa(req)] \in Nat /\ book.tok[DestinationSa(req)] \in Nat
          /\ c.sol[SaAuthority] \in Nat /\ book.sol[SaAuthority] \in Nat
      BY <1>2, <1>4, <2>2
    <3> QED
      BY <1>1, <1>2, <2>2, <3>1, <3>2 DEF OutputPurse
  <2> QED
    BY <2>1, <2>2
<1>7. Keeps(book, c, -TOKEN_ACCOUNT_RENT - (IF ThroughDestination(req) THEN 0 ELSE out))
  BY <1>1, <1>5, <1>6 DEF Keeps
<1> QED
  BY <1>7 DEF c

(* An account left out pays no fee.                                        *)
LEMMA FeesKeep ==
  ASSUME req \in Requests, NEW b \in Books, NEW from, NEW to1, NEW x1 \in Nat,
         NEW to2, NEW x2 \in Nat, FeesPayable(b, from, to1, x1, to2, x2),
         \/ from \in {SaAuthority, Payer, DestinationSa(req)}
         \/ from = req.dst /\ OwnerOf[req.dst] = Payer
         \/ x1 + x2 = 0 /\ from \in TokenAccounts
  PROVE  /\ Keeps(b, PayFees(b, from, to1, x1, to2, x2),
                  IF from = SaAuthority \/ from = DestinationSa(req) THEN x1 + x2 ELSE 0)
         /\ PayFees(b, from, to1, x1, to2, x2).closed = b.closed
         /\ from = None => x1 + x2 = 0 /\ PayFees(b, from, to1, x1, to2, x2) = b
<1> DEFINE c == PayFees(b, from, to1, x1, to2, x2)
<1>1. FeeEffect(b, c, from, x1 + x2)
  BY PayFeesEffect
<1>2. /\ c \in Books /\ Spares(b, c)
      /\ OutputPurse(c) >= OutputPurse(b) - (IF from \in {SaAuthority, DestinationSa(req)}
                                             THEN x1 + x2 ELSE 0)
  <2> HIDE DEF c
  <2> QED
    BY <1>1, FeesSpare
<1>3. Keeps(b, c, IF from = SaAuthority \/ from = DestinationSa(req) THEN x1 + x2 ELSE 0)
  <2> HIDE DEF c
  <2> QED
    BY <1>2 DEF Keeps
<1>4. c.closed = b.closed
  BY <1>1 DEF FeeEffect
<1>5. ASSUME from = None PROVE x1 + x2 = 0 /\ c = b
  <2>1. None \notin TokenAccounts /\ None \notin SolAccounts
    BY RequestFacts
  <2>2. x1 = 0
    BY <1>5, <2>1 DEF FeesPayable, FeePayable
  <2>3. PayFee(b, from, to1, x1) = b
    BY <2>2 DEF PayFee
  <2>4. x2 = 0
    BY <1>5, <2>1, <2>3 DEF FeesPayable, FeePayable
  <2> QED
    BY <2>2, <2>3, <2>4 DEF PayFees, PayFee
<1> QED
  BY <1>3, <1>4, <1>5

LEMMA SettlingStep ==
  ASSUME IInv, pc \in {"after", "trim", "user"}, pc' \in {"trim", "user", "check"},
         UNCHANGED <<committed, req, spent, out, commits>>,
         RatesAllowed, unwrapped' \in BOOLEAN,
         NEW paid \in Int, Keeps(book, book', paid), Owed' <= Owed - paid,
         unwrapped' => MintOf[req.dst] = Wsol /\ OwnerOf[req.dst] = Payer,
         pc' \in {"trim", "user"} => ToFee + TrimAndCharge > 0,
         pc' = "trim" /\ ~unwrapped' =>
           /\ req.dst \notin book'.closed
           /\ ~ThroughDestination(req) /\ OwnerOf[req.dst] = Payer => book'.tok[req.dst] >= out
  PROVE  IInv'
<1>1. /\ TypeOK /\ HandlerInv /\ pc # "idle" /\ pc # "swap"
  BY DEF IInv
<1>2. /\ req \in Requests /\ spent \in 0..req.amountIn
      /\ out \in Nat /\ TOKEN_ACCOUNT_RENT \in Nat
      /\ ToFee \in Nat /\ ActualOut \in Nat
  BY <1>1, AmountsOf, OutAmounts
<1>3. book' \in Books /\ Spares(book, book') /\ OutputPurse(book') >= OutputPurse(book) - paid
  BY DEF Keeps
<1>4. TypeOK'
  BY <1>1, <1>3 DEF TypeOK
<1>5. /\ RatesAllowed'
      /\ ToFee' = ToFee /\ TrimAndCharge' = TrimAndCharge
      /\ ActualOut' = ActualOut
  BY DEF RatesAllowed, ToFee, TotalFee, TrimAndCharge, TotalTrim, ActualOut
<1>6. HandlerInv'
  <2>1. req.onFrom => FeeRatesAllowed(req.rate, req.platformRate)
    BY <1>1 DEF HandlerInv
  <2> QED
    BY <1>2, <1>5, <2>1 DEF HandlerInv, Wrapped
<1>7. Owed \in Int /\ Owed' \in Int
  <2>1. Owed \in Int
    BY <1>2 DEF Owed, UserSol, Advanced
  <2>2. Owed' \in Int
    BY <1>2, <1>5 DEF Owed, UserSol, Advanced
  <2> QED
    BY <2>1, <2>2
<1>8. VaultCovered' /\ PayerCovered'
  BY <1>3, <1>7, StableStep
<1> QED
  BY <1>4, <1>6, <1>8 DEF IInv

(* What holds while the handler settles.                                   *)
LEMMA SettlingFacts ==
  ASSUME IInv, pc \in {"after", "trim", "user"}, RatesAllowed
  PROVE  /\ book \in Books /\ req \in Requests /\ out \in Nat
         /\ TOKEN_ACCOUNT_RENT \in Nat
         /\ ToFee \in 0..out /\ TrimAndCharge \in 0..(out - ToFee)
         /\ ActualOut = out - ToFee - TrimAndCharge /\ ActualOut \in Nat
         /\ ToCommission \in Nat /\ ToPlatformFee \in Nat
         /\ ToCommission + ToPlatformFee = ToFee
         /\ TrimAmount \in Nat /\ ChargeAmount \in Nat
         /\ TrimAmount + ChargeAmount = TrimAndCharge
         /\ unwrapped \in BOOLEAN
         /\ unwrapped => MintOf[req.dst] = Wsol /\ OwnerOf[req.dst] = Payer
         /\ pc = "after" => ~unwrapped
         /\ pc \in {"trim", "user"} => ToFee + TrimAndCharge > 0
         /\ pc = "after" \/ (pc = "trim" /\ ~unwrapped) =>
              /\ req.dst \notin book.closed
              /\ ~ThroughDestination(req) /\ OwnerOf[req.dst] = Payer => book.tok[req.dst] >= out
<1>1. TypeOK /\ HandlerInv /\ pc # "idle" /\ pc # "swap"
  BY DEF IInv
<1>2. /\ req \in Requests /\ book \in Books /\ unwrapped \in BOOLEAN
  BY <1>1 DEF TypeOK
<1>3. /\ unwrapped => MintOf[req.dst] = Wsol /\ OwnerOf[req.dst] = Payer
      /\ pc = "after" => ~unwrapped
      /\ pc \in {"trim", "user"} => ToFee + TrimAndCharge > 0
      /\ pc = "after" \/ (pc = "trim" /\ ~unwrapped) =>
           /\ req.dst \notin book.closed
           /\ ~ThroughDestination(req) /\ OwnerOf[req.dst] = Payer => book.tok[req.dst] >= out
  BY <1>1 DEF HandlerInv, Wrapped
<1> QED
  BY <1>1, <1>2, <1>3, OutAmounts

LEMMA AfterSwapWithoutFeeIInv ==
  ASSUME IInv, AfterSwapWithoutFee
  PROVE  IInv'
<1> DEFINE h == HandOver(out)
           paid == IF DestinationSa(req) = None THEN 0 ELSE out
<1>1. /\ pc = "after" /\ pc' = "check" /\ RatesAllowed
      /\ HandOverPayable(out)
      /\ ClosesForUser => OwnerOf[req.dst] = Payer
      /\ book' = CloseForUser(h)
      /\ UNCHANGED <<committed, req, spent, out, unwrapped, commits>>
  BY DEF AfterSwapWithoutFee
<1>2. /\ book \in Books /\ req \in Requests /\ out \in Nat
      /\ unwrapped \in BOOLEAN /\ ~unwrapped
  BY <1>1, SettlingFacts
<1>3. Keeps(book, h, paid) /\ h \in Books /\ paid \in Int
  BY <1>1, <1>2, HandOverKeeps DEF Keeps
<1> HIDE DEF h
<1>4. Keeps(h, book', 0)
  BY <1>1, <1>2, <1>3, CloseKeeps, KeepsAll DEF CloseForUser
<1>5. Keeps(book, book', paid)
  <2> HIDE DEF paid
  <2>1. Keeps(book, book', paid + 0)
    BY <1>2, <1>3, <1>4, KeepsBoth
  <2> QED
    BY <1>3, <2>1
<1>6. Owed' <= Owed - paid
  BY <1>1, <1>2 DEF Owed, Advanced
<1> HIDE DEF paid
<1> QED
  BY <1>1, <1>2, <1>3, <1>5, <1>6, SettlingStep

LEMMA TransferToFeesIInv ==
  ASSUME IInv, TransferToFees
  PROVE  IInv'
<1> DEFINE b == IF unwrapped' THEN Unwrap ELSE book
           from == IF unwrapped' THEN SaAuthority ELSE DestinationSa(req)
           unwrapping == IF unwrapped'
                         THEN -TOKEN_ACCOUNT_RENT - (IF ThroughDestination(req) THEN 0 ELSE out)
                         ELSE 0
           fees == IF from = None THEN 0 ELSE ToFee
           paid == unwrapping + fees
<1>1. /\ pc = "after" /\ pc' = "trim" /\ RatesAllowed
      /\ ToFee + TrimAndCharge > 0
      /\ unwrapped' \in BOOLEAN /\ (unwrapped' => Unwrappable)
      /\ FeesPayable(b, from, req.commissionAccount, ToCommission,
                     req.platformAccount, ToPlatformFee)
      /\ book' = PayFees(b, from, req.commissionAccount, ToCommission,
                         req.platformAccount, ToPlatformFee)
      /\ UNCHANGED <<committed, req, spent, out, commits>>
  BY DEF TransferToFees
<1>2. /\ book \in Books /\ req \in Requests /\ out \in Nat /\ ~unwrapped
      /\ TOKEN_ACCOUNT_RENT \in Nat /\ ToFee \in Nat
      /\ ToCommission \in Nat /\ ToPlatformFee \in Nat
      /\ ToCommission + ToPlatformFee = ToFee
      /\ req.dst \notin book.closed
      /\ ~ThroughDestination(req) /\ OwnerOf[req.dst] = Payer => book.tok[req.dst] >= out
  BY <1>1, SettlingFacts
<1>3. Keeps(book, b, unwrapping) /\ unwrapping \in Int
  BY <1>1, <1>2, UnwrapKeeps, KeepsAll
<1>4. None # SaAuthority /\ None \notin TokenAccounts
  BY <1>2, RequestFacts
<1>5. b \in Books /\ from \in {SaAuthority, DestinationSa(req)}
  BY <1>3 DEF Keeps
<1>6. /\ Keeps(b, book', IF from = SaAuthority \/ from = DestinationSa(req) THEN ToFee ELSE 0)
      /\ book'.closed = b.closed
      /\ from = None => ToFee = 0 /\ book' = b
  <2> HIDE DEF b, from
  <2>1. /\ Keeps(b, book', IF from = SaAuthority \/ from = DestinationSa(req)
                           THEN ToCommission + ToPlatformFee ELSE 0)
        /\ book'.closed = b.closed
        /\ from = None => ToCommission + ToPlatformFee = 0 /\ book' = b
    BY <1>1, <1>2, <1>5, FeesKeep
  <2> QED
    BY <1>2, <2>1
<1>7. Keeps(b, book', fees) /\ fees \in Int
  BY <1>2, <1>5, <1>6
<1>8. Keeps(book, book', paid) /\ paid \in Int
  <2> HIDE DEF b, unwrapping, fees
  <2> QED
    BY <1>2, <1>3, <1>5, <1>7, KeepsBoth
<1>9. Owed' <= Owed - paid
  <2>1. ToFee' = ToFee
    BY <1>1 DEF ToFee, TotalFee
  <2>2. Owed = IF ThroughDestination(req) THEN out ELSE 0
    BY <1>1, <1>2 DEF Owed, Advanced, Unserved, ThroughDestination
  <2>3. Owed' = IF unwrapped' THEN out - ToFee + TOKEN_ACCOUNT_RENT
                ELSE IF DestinationSa(req) = None THEN 0
                ELSE (IF ThroughDestination(req) THEN out ELSE 0) - ToFee
    BY <1>1, <1>2, <2>1 DEF Owed, Advanced, Unserved
  <2>4. ThroughDestination(req) => DestinationSa(req) # None
    BY DEF ThroughDestination
  <2> QED
    BY <1>1, <1>2, <1>4, <2>2, <2>3, <2>4
<1>10. unwrapped' => MintOf[req.dst] = Wsol /\ OwnerOf[req.dst] = Payer
  BY <1>1 DEF Unwrappable
<1>11. ~unwrapped' => /\ req.dst \notin book'.closed
                      /\ ~ThroughDestination(req) /\ OwnerOf[req.dst] = Payer => book'.tok[req.dst] >= out
  <2> SUFFICES ASSUME ~unwrapped', ~ThroughDestination(req), OwnerOf[req.dst] = Payer
               PROVE  book'.tok[req.dst] >= out
    BY <1>2, <1>6
  <2>1. CASE from = None
    BY <1>2, <1>6, <2>1
  <2>2. CASE from # None
    <3>1. from = DestinationSa(req) /\ b = book
      OBVIOUS
    <3>2. from \in TokenAccounts /\ from # req.dst /\ req.dst \in TokenAccounts
      BY <1>2, <2>2, <3>1, RequestFacts DEF SaAccounts
    <3>3. FeeEffect(book, book', from, ToCommission + ToPlatformFee)
      BY <1>1, <1>2, <3>1, <3>2, PayFeesEffect
    <3>4. book'.tok[req.dst] >= book.tok[req.dst]
      BY <1>2, <3>2, <3>3 DEF FeeEffect, Books
    <3>5. book.tok[req.dst] \in Nat /\ book'.tok[req.dst] \in Nat
      BY <1>2, <1>6, <3>2 DEF Books, Keeps
    <3> QED
      BY <1>2, <3>4, <3>5
  <2> QED
    BY <2>1, <2>2
<1> HIDE DEF paid, fees, unwrapping, b, from
<1> QED
  BY <1>1, <1>2, <1>8, <1>9, <1>10, <1>11, SettlingStep

LEMMA TransferTrimIInv ==
  ASSUME IInv, TransferTrim
  PROVE  IInv'
<1> DEFINE inSol == IsChargeSol(req.trimAccount, ChargeAccount, req.dst)
           b == IF UnwrapsForTrim THEN Unwrap ELSE book
           from == IF inSol THEN SaAuthority ELSE DestinationSa(req)
           unwrapping == IF UnwrapsForTrim
                         THEN -TOKEN_ACCOUNT_RENT - (IF ThroughDestination(req) THEN 0 ELSE out)
                         ELSE 0
           trim == IF from = None THEN 0 ELSE TrimAndCharge
           paid == unwrapping + trim
<1>1. /\ pc = "trim" /\ pc' = "user" /\ TrimAndCharge > 0
      /\ UnwrapsForTrim => Unwrappable
      /\ FeesPayable(b, from, req.trimAccount, TrimAmount, ChargeAccount, ChargeAmount)
      /\ book' = PayFees(b, from, req.trimAccount, TrimAmount, ChargeAccount, ChargeAmount)
      /\ unwrapped' = inSol
      /\ UNCHANGED <<committed, req, spent, out, commits>>
  BY DEF TransferTrim
<1>2. RatesAllowed
  BY <1>1 DEF IInv, HandlerInv
<1>3. /\ book \in Books /\ req \in Requests /\ out \in Nat
      /\ unwrapped \in BOOLEAN
      /\ TOKEN_ACCOUNT_RENT \in Nat /\ ToFee \in 0..out
      /\ TrimAndCharge \in 0..(out - ToFee)
      /\ ActualOut = out - ToFee - TrimAndCharge
      /\ TrimAmount \in Nat /\ ChargeAmount \in Nat
      /\ TrimAmount + ChargeAmount = TrimAndCharge
      /\ ToFee + TrimAndCharge > 0
      /\ unwrapped => MintOf[req.dst] = Wsol /\ OwnerOf[req.dst] = Payer
      /\ ~unwrapped => /\ req.dst \notin book.closed
                       /\ ~ThroughDestination(req) /\ OwnerOf[req.dst] = Payer => book.tok[req.dst] >= out
  BY <1>1, <1>2, SettlingFacts
<1>4. /\ UnwrapsForTrim = (inSol /\ ~unwrapped)
      /\ inSol \in BOOLEAN
  BY DEF UnwrapsForTrim, IsChargeSol
<1> HIDE DEF inSol
<1>5. Keeps(book, b, unwrapping) /\ unwrapping \in Int
  <2>1. CASE UnwrapsForTrim
    <3>1. ~unwrapped /\ Unwrappable
      BY <1>1, <1>4, <2>1
    <3>2. Keeps(book, Unwrap, -TOKEN_ACCOUNT_RENT - (IF ThroughDestination(req) THEN 0 ELSE out))
      BY <1>3, <3>1, UnwrapKeeps
    <3>3. unwrapping = -TOKEN_ACCOUNT_RENT - (IF ThroughDestination(req) THEN 0 ELSE out)
      BY <2>1
    <3>4. b = Unwrap
      BY <2>1
    <3> HIDE DEF b, unwrapping
    <3> QED
      BY <1>3, <3>2, <3>3, <3>4
  <2>2. CASE ~UnwrapsForTrim
    BY <1>3, <2>2, KeepsAll
  <2> QED
    BY <2>1, <2>2
<1>6. None # SaAuthority /\ None \notin TokenAccounts
  BY <1>3, RequestFacts
<1>7. b \in Books /\ from \in {SaAuthority, DestinationSa(req)}
  BY <1>5 DEF Keeps
<1>8. /\ Keeps(b, book', IF from = SaAuthority \/ from = DestinationSa(req)
                         THEN TrimAndCharge ELSE 0)
      /\ from = None => TrimAndCharge = 0
  <2> HIDE DEF b, from
  <2>1. /\ Keeps(b, book', IF from = SaAuthority \/ from = DestinationSa(req)
                           THEN TrimAmount + ChargeAmount ELSE 0)
        /\ from = None => TrimAmount + ChargeAmount = 0
    BY <1>1, <1>3, <1>7, FeesKeep
  <2> QED
    BY <1>3, <2>1
<1>9. Keeps(b, book', trim) /\ trim \in Int
  BY <1>3, <1>7, <1>8
<1>10. Keeps(book, book', paid) /\ paid \in Int
  <2> HIDE DEF b, unwrapping, trim
  <2> QED
    BY <1>3, <1>5, <1>7, <1>9, KeepsBoth
<1>11. Owed' <= Owed - paid
  <2>1. ActualOut' = ActualOut
    BY <1>1 DEF ActualOut, TrimAndCharge, TotalTrim, ToFee, TotalFee
  <2>2. Owed = IF unwrapped THEN out - ToFee + TOKEN_ACCOUNT_RENT
               ELSE IF DestinationSa(req) = None THEN 0
               ELSE (IF ThroughDestination(req) THEN out ELSE 0) - ToFee
    BY <1>1, <1>3 DEF Owed, Advanced, Unserved
  <2>3. Owed' = IF inSol THEN ActualOut + TOKEN_ACCOUNT_RENT
                ELSE IF DestinationSa(req) = None THEN 0
                ELSE ActualOut - (IF ThroughDestination(req) THEN 0 ELSE out)
    BY <1>1, <1>3, <2>1 DEF Owed, UserSol, Advanced, Unserved
  <2>4. from # None /\ trim = TrimAndCharge
    BY <1>1, <1>8
  <2>5. CASE inSol
    <3>1. Owed' = ActualOut + TOKEN_ACCOUNT_RENT
      BY <2>3, <2>5
    <3>2. CASE unwrapped
      <4>1. unwrapping = 0
        BY <1>4, <3>2
      <4>2. Owed = out - ToFee + TOKEN_ACCOUNT_RENT
        BY <2>2, <3>2
      <4> QED
        BY <1>3, <2>4, <3>1, <4>1, <4>2
    <3>3. CASE ~unwrapped
      <4>1. unwrapping = -TOKEN_ACCOUNT_RENT - (IF ThroughDestination(req) THEN 0 ELSE out)
        BY <1>4, <2>5, <3>3
      <4>2. Owed = IF DestinationSa(req) = None THEN 0
                   ELSE (IF ThroughDestination(req) THEN out ELSE 0) - ToFee
        BY <2>2, <3>3
      <4>3. ThroughDestination(req) => DestinationSa(req) # None
        BY DEF ThroughDestination
      <4> QED
        BY <1>3, <2>4, <3>1, <4>1, <4>2, <4>3
    <3> QED
      BY <1>3, <3>2, <3>3
  <2>6. CASE ~inSol
    <3>1. DestinationSa(req) # None
      BY <2>4, <2>6
    <3> QED
      BY <1>3, <1>4, <2>2, <2>3, <2>4, <2>6, <3>1
  <2> QED
    BY <1>4, <2>5, <2>6
<1>12. unwrapped' => MintOf[req.dst] = Wsol /\ OwnerOf[req.dst] = Payer
  BY <1>1, <1>3, <1>4 DEF Unwrappable
<1> HIDE DEF paid, trim, unwrapping, b, from
<1> QED
  BY <1>1, <1>2, <1>3, <1>4, <1>10, <1>11, <1>12, SettlingStep

LEMMA NoTrimIInv ==
  ASSUME IInv, NoTrim
  PROVE  IInv'
<1>1. /\ pc = "trim" /\ pc' = "user" /\ TrimAndCharge = 0
      /\ UNCHANGED <<book, committed, req, spent, out, unwrapped, commits>>
  BY DEF NoTrim
<1>2. RatesAllowed
  BY <1>1 DEF IInv, HandlerInv
<1>3. /\ book \in Books /\ req \in Requests /\ out \in Nat /\ unwrapped \in BOOLEAN
      /\ TOKEN_ACCOUNT_RENT \in Nat /\ ToFee \in 0..out
      /\ ActualOut = out - ToFee - TrimAndCharge
      /\ ToFee + TrimAndCharge > 0
      /\ unwrapped => MintOf[req.dst] = Wsol /\ OwnerOf[req.dst] = Payer
  BY <1>1, <1>2, SettlingFacts
<1>4. Keeps(book, book', 0)
  BY <1>1, <1>3, KeepsAll
<1>5. Owed' <= Owed - 0
  <2>1. ActualOut' = out - ToFee
    BY <1>1, <1>3 DEF ActualOut, TrimAndCharge, TotalTrim, ToFee, TotalFee
  <2>2. Owed = (IF unwrapped THEN out - ToFee + TOKEN_ACCOUNT_RENT
                ELSE IF DestinationSa(req) = None THEN 0 ELSE out - ToFee) - Advanced
    BY <1>1 DEF Owed
  <2>3. Owed' = (IF unwrapped THEN out - ToFee + TOKEN_ACCOUNT_RENT
                 ELSE IF DestinationSa(req) = None THEN 0 ELSE out - ToFee) - Advanced'
    BY <1>1, <2>1 DEF Owed, UserSol
  <2>4. Advanced' = Advanced /\ Advanced \in Int
    BY <1>1, <1>3 DEF Advanced
  <2> QED
    BY <1>3, <2>2, <2>3, <2>4
<1> QED
  BY <1>1, <1>2, <1>3, <1>4, <1>5, SettlingStep

LEMMA TransferToUserIInv ==
  ASSUME IInv, TransferToUser
  PROVE  IInv'
<1>1. /\ pc = "user" /\ pc' = "check"
      /\ UNCHANGED <<committed, req, spent, out, unwrapped, commits>>
  BY DEF TransferToUser
<1>2. RatesAllowed
  BY <1>1 DEF IInv, HandlerInv
<1>3. /\ book \in Books /\ req \in Requests /\ unwrapped \in BOOLEAN
      /\ TOKEN_ACCOUNT_RENT \in Nat /\ ActualOut \in Nat /\ out \in Nat
      /\ unwrapped => MintOf[req.dst] = Wsol /\ OwnerOf[req.dst] = Payer
  BY <1>1, <1>2, SettlingFacts
<1>4. Owed' = 0 - Advanced /\ Advanced \in Int
  BY <1>1, <1>3 DEF Owed, Advanced
<1>5. CASE unwrapped
  <2>1. /\ book.sol[SaAuthority] >= UserSol
        /\ book' = PaySol(book, SaAuthority, Payer, UserSol)
    BY <1>5 DEF TransferToUser
  <2>2. UserSol \in Nat /\ Owed = UserSol - Advanced
    BY <1>1, <1>3, <1>5 DEF UserSol, Owed
  <2>3. /\ Payer \in SolAccounts /\ SaAuthority \in SolAccounts
        /\ Payer # SaAuthority
        /\ DestinationSa(req) = None \/ DestinationSa(req) \in TokenAccounts
    BY <1>3, RequestFacts DEF SaAccounts
  <2>4. /\ book' \in Books /\ book'.tok = book.tok
        /\ \A a \in SolAccounts :
             book'.sol[a] = book.sol[a] - (IF a = SaAuthority THEN UserSol ELSE 0)
                            + (IF a = Payer THEN UserSol ELSE 0)
    BY <1>3, <2>1, <2>2, <2>3, PaySolEffect
  <2>5. book.tok \in [TokenAccounts -> Nat] /\ book.sol \in [SolAccounts -> Nat]
    BY <1>3 DEF Books
  <2>6. Spares(book, book')
    BY <2>2, <2>4, <2>5 DEF Spares
  <2>7. OutputPurse(book') >= OutputPurse(book) - UserSol
    BY <2>2, <2>3, <2>4, <2>5 DEF OutputPurse
  <2>8. Keeps(book, book', UserSol)
    BY <2>4, <2>6, <2>7 DEF Keeps
  <2> QED
    BY <1>1, <1>2, <1>3, <1>4, <2>2, <2>8, SettlingStep
<1>6. CASE ~unwrapped
  <2> DEFINE h == HandOver(ActualOut)
  <2>1. /\ DestinationSa(req) # None /\ HandOverPayable(ActualOut)
        /\ ClosesForUser => OwnerOf[req.dst] = Payer
        /\ book' = CloseForUser(h)
    BY <1>6 DEF TransferToUser
  <2>2. Keeps(book, h, ActualOut) /\ h \in Books
    BY <1>3, <2>1, HandOverKeeps DEF Keeps
  <2> HIDE DEF h
  <2>3. Keeps(h, book', 0)
    BY <1>3, <2>1, <2>2, CloseKeeps, KeepsAll DEF CloseForUser
  <2>4. Keeps(book, book', ActualOut)
    <3>1. Keeps(book, book', ActualOut + 0)
      BY <1>3, <2>2, <2>3, KeepsBoth
    <3> QED
      BY <1>3, <3>1
  <2>5. Owed = ActualOut - Advanced
    BY <1>1, <1>6, <2>1 DEF Owed
  <2> QED
    BY <1>1, <1>2, <1>3, <1>4, <1>6, <2>4, <2>5, SettlingStep
<1> QED
  BY <1>3, <1>5, <1>6

LEMMA AfterSwapToCIInv ==
  ASSUME IInv, AfterSwapToC
  PROVE  IInv'
<1> DEFINE h == HandOver(out)
           inSol == ToFee > 0 /\ ToFeesInSol
           b == IF inSol THEN Close(h, req.dst, Payer) ELSE h
           from == IF inSol THEN Payer ELSE req.dst
           handed == IF DestinationSa(req) = None THEN 0 ELSE out
<1>1. /\ pc = "after" /\ pc' = "check" /\ RatesAllowed
      /\ HandOverPayable(out)
      /\ ToFee > 0 => OwnerOf[req.dst] = Payer
      /\ FeesPayable(b, from, req.commissionAccount, ToCommission,
                     req.platformAccount, ToPlatformFee)
      /\ book' = PayFees(b, from, req.commissionAccount, ToCommission,
                         req.platformAccount, ToPlatformFee)
      /\ UNCHANGED <<committed, req, spent, out, unwrapped, commits>>
  BY DEF AfterSwapToC
<1>2. /\ book \in Books /\ req \in Requests /\ out \in Nat
      /\ unwrapped \in BOOLEAN /\ ~unwrapped
      /\ ToFee \in 0..out
      /\ ToCommission \in Nat /\ ToPlatformFee \in Nat
      /\ ToCommission + ToPlatformFee = ToFee
  BY <1>1, SettlingFacts
<1>3. Keeps(book, h, handed) /\ h \in Books /\ handed \in Int
  BY <1>1, <1>2, HandOverKeeps DEF Keeps
<1> HIDE DEF h
<1>4. Keeps(h, b, 0) /\ b \in Books
  <2>1. CASE inSol
    BY <1>1, <1>2, <1>3, <2>1, CloseKeeps DEF Keeps
  <2>2. CASE ~inSol
    BY <1>2, <1>3, <2>2, KeepsAll
  <2> QED
    BY <2>1, <2>2
<1>5. Keeps(b, book', 0)
  <2>1. /\ req.dst \in TokenAccounts /\ Payer # SaAuthority
        /\ None \notin TokenAccounts /\ None \notin SolAccounts
        /\ Payer \in SolAccounts /\ SaAuthority \in SolAccounts
        /\ DestinationSa(req) = None \/ (DestinationSa(req) \in TokenAccounts /\ OwnerOf[DestinationSa(req)] = SaAuthority)
        /\ TokenAccounts \cap SolAccounts = {}
    BY <1>2, RequestFacts, V3AccountsAssumption DEF SaAccounts
  <2>2. \/ from \in {SaAuthority, Payer, DestinationSa(req)}
        \/ from = req.dst /\ OwnerOf[req.dst] = Payer
        \/ ToCommission + ToPlatformFee = 0 /\ from \in TokenAccounts
    BY <1>1, <1>2, <2>1
  <2>3. from = SaAuthority \/ from = DestinationSa(req) => ToFee = 0
    BY <1>1, <1>2, <2>1
  <2> HIDE DEF b, from
  <2>4. Keeps(b, book', IF from = SaAuthority \/ from = DestinationSa(req)
                        THEN ToCommission + ToPlatformFee ELSE 0)
    BY <1>1, <1>2, <1>4, <2>2, FeesKeep
  <2> QED
    BY <1>2, <2>3, <2>4
<1> HIDE DEF b, from, inSol
<1>6. Keeps(book, book', handed)
  <2> HIDE DEF handed
  <2>1. Keeps(h, book', 0 + 0)
    BY <1>2, <1>3, <1>4, <1>5, KeepsBoth
  <2>2. Keeps(book, book', handed + (0 + 0))
    BY <1>2, <1>3, <2>1, KeepsBoth
  <2> QED
    BY <1>3, <2>2
<1>7. Owed' <= Owed - handed
  BY <1>1, <1>2 DEF Owed, Advanced
<1> HIDE DEF handed
<1> QED
  BY <1>1, <1>2, <1>3, <1>6, <1>7, SettlingStep

(* The receiver takes nothing from anybody but the payer.                  *)
LEMMA FinishEffect ==
  ASSUME IInv, Finish
  PROVE  /\ book' \in Books /\ book'.tok = book.tok /\ book'.closed = book.closed
         /\ \A a \in SolAccounts \ {Payer} : book'.sol[a] >= book.sol[a]
         /\ ReceiverGets \in Nat
         /\ req.receiver \in {None, Payer} => ReceiverGets = 0
         /\ \A a \in SolAccounts :
              book'.sol[a] = book.sol[a] - (IF a = Payer THEN ReceiverGets ELSE 0)
                             + (IF a = req.receiver THEN ReceiverGets ELSE 0)
<1>1. /\ pc = "check" /\ MinReturnReached /\ book.sol[Payer] >= ReceiverGets
      /\ book' = IF ReceiverGets = 0 THEN book
                 ELSE PaySol(book, Payer, req.receiver, ReceiverGets)
  BY DEF Finish
<1>2. /\ book \in Books /\ req \in Requests /\ RatesAllowed /\ TypeOK /\ HandlerInv
      /\ committed \in Books
  BY <1>1 DEF IInv, TypeOK, HandlerInv
<1>3. /\ book.tok \in [TokenAccounts -> Nat] /\ book.sol \in [SolAccounts -> Nat]
      /\ committed.tok \in [TokenAccounts -> Nat]
  BY <1>2 DEF Books
<1>4. /\ req.dst \in TokenAccounts /\ req.minReturn \in Nat /\ Payer \in SolAccounts
      /\ req.receiver \in SolAccounts \cup {None}
  BY <1>2, RequestFacts
<1>5. DestinationChange \in Nat
  <2>1. DestinationChange \in Int
    BY <1>1, <1>2, <1>3, <1>4, OutAmounts DEF DestinationChange
  <2> QED
    BY <1>1, <1>4, <2>1 DEF MinReturnReached
<1>6. /\ ReceiverGets \in Nat
      /\ book' \in Books /\ book'.tok = book.tok /\ book'.closed = book.closed
      /\ \A a \in SolAccounts :
           book'.sol[a] = book.sol[a] - (IF a = Payer THEN ReceiverGets ELSE 0)
                          + (IF a = req.receiver THEN ReceiverGets ELSE 0)
  <2>1. CASE ReceiverGets = 0
    BY <1>1, <1>2, <1>3, <2>1
  <2>2. CASE ReceiverGets # 0
    <3>1. /\ req.receiver \in SolAccounts
          /\ ReceiverGets = SolFee(book, Payer, req.receiver, DestinationChange)
      BY <1>4, <2>2 DEF ReceiverGets
    <3>2. ReceiverGets \in Nat
      BY <1>3, <1>5, <3>1, V3BoundsAssumption DEF SolFee
    <3>3. book' = PaySol(book, Payer, req.receiver, ReceiverGets)
      BY <1>1, <2>2
    <3> QED
      BY <1>1, <1>2, <1>4, <3>1, <3>2, <3>3, PaySolEffect
  <2> QED
    BY <2>1, <2>2
<1>7. ASSUME NEW a \in SolAccounts \ {Payer}
      PROVE  book'.sol[a] >= book.sol[a]
  <2>1. book'.sol[a] = book.sol[a] + (IF a = req.receiver THEN ReceiverGets ELSE 0)
    BY <1>3, <1>6
  <2> QED
    BY <1>3, <1>6, <2>1
<1>8. req.receiver \in {None, Payer} => ReceiverGets = 0
  BY DEF ReceiverGets
<1> QED
  BY <1>6, <1>7, <1>8

LEMMA IdleIInv ==
  ASSUME IInv, pc' = "idle", book' \in Books, committed' = book', req' = None,
         Forgotten, commits' \in Nat
  PROVE  IInv'
<1>1. spent' = 0 /\ out' = 0 /\ unwrapped' = FALSE
  BY DEF Forgotten
<1>2. TypeOK'
  BY <1>1 DEF TypeOK
<1>3. HandlerInv' /\ VaultCovered' /\ PayerCovered'
  BY <1>1 DEF HandlerInv, Wrapped, VaultCovered, PayerCovered
<1> QED
  BY <1>2, <1>3 DEF IInv

LEMMA NextIInv ==
  ASSUME IInv, [Next]_vars
  PROVE  IInv'
<1>1. CASE UNCHANGED vars
  <2>1. /\ book' = book /\ committed' = committed /\ pc' = pc /\ req' = req
        /\ spent' = spent /\ out' = out /\ unwrapped' = unwrapped /\ commits' = commits
    BY <1>1 DEF vars
  <2>2. TypeOK'
    BY <2>1 DEF IInv, TypeOK
  <2>3. HandlerInv'
    BY <2>1 DEF IInv, HandlerInv, Wrapped, RatesAllowed, ToFee, TotalFee, TrimAndCharge,
       TotalTrim
  <2>4. VaultCovered'
    BY <2>1 DEF IInv, VaultCovered, Unspent, PullFee, Withheld, Pulled, FromFee, TotalFee,
       IsChargeSol, OutputPurse, Owed, Advanced, UserSol, ActualOut, ToFee, TrimAndCharge,
       TotalTrim
  <2>5. PayerCovered'
    BY <2>1 DEF IInv, PayerCovered, Charged, FromFee, TotalFee
  <2> QED
    BY <2>2, <2>3, <2>4, <2>5 DEF IInv
<1>2. CASE Finish
  <2>1. book' \in Books
    BY <1>2, FinishEffect
  <2> QED
    BY <1>2, <2>1, IdleIInv DEF Finish, IInv, TypeOK
<1>3. CASE Fail
  BY <1>3, IdleIInv DEF Fail, IInv, TypeOK
<1> QED
  BY <1>1, <1>2, <1>3, BeginIInv, ExecuteSwapIInv, AfterSwapWithoutFeeIInv,
     TransferToFeesIInv, TransferTrimIInv, NoTrimIInv, TransferToUserIInv,
     AfterSwapToCIInv DEF Next

-----------------------------------------------------------------------------
(* At every point of every instruction: the types, what the parts of the   *)
(* handlers rely on (HandlerInv), and that neither the vault               *)
(* (VaultCovered) nor the payer and third parties (PayerCovered) are short *)
(* of anything.                                                            *)
THEOREM V3Invariance == Spec => []IInv
  BY InitIInv, NextIInv, PTL DEF Spec

(* Every fee is the exact share that its rate promises, rounded down, and  *)
(* the parts never exceed the whole (FeesExact).                           *)
THEOREM V3FeesExact == Spec => []FeesExact
<1>1. IInv => FeesExact
  <2> SUFFICES ASSUME IInv, pc = "check" PROVE FeesExact
    BY DEF FeesExact
  <2>1. /\ TypeOK /\ HandlerInv /\ RatesAllowed /\ req \in Requests /\ out \in Nat
        /\ req.onFrom => FeeRatesAllowed(req.rate, req.platformRate)
    BY DEF IInv, HandlerInv, TypeOK
  <2>2. /\ req.amountIn \in Nat /\ req.rate \in Nat
        /\ req.platformRate \in Nat
        /\ FromPlatformFee(req) \in 0..FromFee(req) /\ FromFee(req) \in Nat
    BY <2>1, RequestFacts, FromFees
  <2>3. /\ ToFee \in Nat /\ ToPlatformFee \in Nat /\ ToPlatformFee <= ToFee
        /\ ActualOut >= 0
    BY <2>1, ToFees
  <2>4. COMMISSION_DENOMINATOR \in Nat \ {0} /\ PLATFORM_FEE_DENOMINATOR \in Nat \ {0}
    BY FeeAssumption
  <2>5. ASSUME req.onFrom
        PROVE  /\ FromFee(req) * COMMISSION_DENOMINATOR
                    <= req.rate * (req.amountIn + FromFee(req))
               /\ (FromFee(req) + 1) * COMMISSION_DENOMINATOR
                    > req.rate * (req.amountIn + FromFee(req) + 1)
    <3>1. CASE req.rate > 0
      <4>1. FromFee(req) = TotalFee(req.amountIn, req.rate, TRUE)
        BY <2>5, <3>1 DEF FromFee
      <4>2. req.rate <= COMMISSION_RATE_LIMIT
        BY <2>1, <2>5, <3>1 DEF FeeRatesAllowed
      <4> QED
        BY <2>2, <4>1, <4>2, FromFeeShare
    <3>2. CASE req.rate = 0
      <4>1. FromFee(req) = 0
        BY <3>2 DEF FromFee
      <4> QED
        BY <2>2, <2>4, <3>2, <4>1
    <3> QED
      BY <2>2, <3>1, <3>2
  <2>6. ASSUME ~req.onFrom
        PROVE  /\ ToFee * COMMISSION_DENOMINATOR <= req.rate * out
               /\ (ToFee + 1) * COMMISSION_DENOMINATOR > req.rate * out
    <3>1. CASE req.rate > 0
      <4>1. ToFee = TotalFee(out, req.rate, FALSE)
        BY <2>6, <3>1 DEF ToFee
      <4> QED
        BY <2>1, <2>2, <4>1, LargestFees
    <3>2. CASE req.rate = 0
      <4>1. ToFee = 0
        BY <3>2 DEF ToFee
      <4> QED
        BY <2>1, <2>2, <2>4, <3>2, <4>1
    <3> QED
      BY <2>2, <3>1, <3>2
  <2> DEFINE fee == FromFee(req) + ToFee
             platform == FromPlatformFee(req) + ToPlatformFee
  <2>7. fee \in Nat /\ platform = PlatformFee(fee, req.platformRate)
    <3>1. PlatformFee(0, req.platformRate) = 0
      BY <2>2, <2>4 DEF PlatformFee
    <3>2. CASE req.onFrom
      <4>1. ToFee = 0 /\ ToPlatformFee = 0
        BY <3>1, <3>2 DEF ToFee, ToPlatformFee
      <4>2. FromPlatformFee(req) \in Nat
        BY <2>2
      <4> QED
        BY <2>2, <4>1, <4>2 DEF FromPlatformFee
    <3>3. CASE ~req.onFrom
      <4>1. FromFee(req) = 0 /\ FromPlatformFee(req) = 0
        BY <3>1, <3>3 DEF FromFee, FromPlatformFee
      <4> QED
        BY <2>3, <4>1 DEF ToPlatformFee
    <3> QED
      BY <3>2, <3>3
  <2>8. platform <= fee
    BY <2>2, <2>3
  <2> HIDE DEF fee, platform
  <2>9. /\ platform * PLATFORM_FEE_DENOMINATOR <= fee * req.platformRate
        /\ (platform + 1) * PLATFORM_FEE_DENOMINATOR > fee * req.platformRate
    BY <2>2, <2>7, LargestFees
  <2> QED
    BY <2>3, <2>5, <2>6, <2>8, <2>9 DEF FeesExact, fee, platform
<1> QED
  BY <1>1, InitIInv, NextIInv, PTL DEF Spec

(* Only Finish commits.                                                    *)
LEMMA CommitStep ==
  ASSUME IInv, [Next]_vars, Commits
  PROVE  Finish
<1>1. commits \in Nat
  BY DEF IInv, TypeOK
<1>2. CASE UNCHANGED commits
  BY <1>1, <1>2 DEF Commits
<1>3. ASSUME Next, ~Finish PROVE UNCHANGED commits
  BY <1>3 DEF Next, Begin, ExecuteSwap, AfterSwapWithoutFee, TransferToFees, TransferTrim,
     NoTrim, TransferToUser, AfterSwapToC, Fail
<1> QED
  BY <1>2, <1>3 DEF vars

(* With whatever optional accounts: of the vault's own an instruction pays *)
(* nothing but the amount_out that it hands over although the swap had     *)
(* given it to the user already (VaultPaysOnlyUnserved).                   *)
THEOREM V3VaultSafe == Spec => VaultPaysOnlyUnserved
<1> DEFINE A ==
      Commits =>
        /\ \A a \in SaAccounts \ {DestinationSa(req)} :
             committed'.tok[a] >= committed.tok[a] - (IF a = SourceSa(req) THEN PullFee ELSE 0)
        /\ OutputPurse(committed') >= OutputPurse(committed) - Advanced
             - (IF SourceSa(req) # None /\ SourceSa(req) = DestinationSa(req) THEN PullFee ELSE 0)
<1>1. IInv /\ [Next]_vars => [A]_vars
  <2> SUFFICES ASSUME IInv, [Next]_vars, Commits PROVE A
    OBVIOUS
  <2>1. Finish
    BY CommitStep
  <2>2. /\ TypeOK /\ HandlerInv /\ VaultCovered /\ pc = "check" /\ committed' = book'
    BY <2>1 DEF IInv, Finish
  <2>3. /\ req \in Requests /\ PullFee \in Nat
        /\ \A a : Unspent(a) \in Int /\ Unspent(a) >= -PullFee
        /\ \A a : Unspent(a) >= 0 \/ (a # None /\ a = SourceSa(req))
    BY <2>2, AmountsOf
  <2>4. /\ book' \in Books /\ book'.tok = book.tok
        /\ \A a \in SolAccounts \ {Payer} : book'.sol[a] >= book.sol[a]
    BY <2>1, FinishEffect
  <2>5. /\ book.tok \in [TokenAccounts -> Nat] /\ book.sol \in [SolAccounts -> Nat]
        /\ committed.tok \in [TokenAccounts -> Nat] /\ committed.sol \in [SolAccounts -> Nat]
        /\ book'.sol \in [SolAccounts -> Nat]
    BY <2>2, <2>4 DEF TypeOK, Books
  <2>6. /\ SaAccounts \subseteq TokenAccounts /\ None \notin TokenAccounts
        /\ DestinationSa(req) = None \/ DestinationSa(req) \in TokenAccounts
        /\ SaAuthority \in SolAccounts /\ Payer # SaAuthority
    BY <2>3, RequestFacts DEF SaAccounts
  <2>7. ASSUME NEW a \in SaAccounts \ {DestinationSa(req)}
        PROVE  committed'.tok[a] >= committed.tok[a] - (IF a = SourceSa(req) THEN PullFee ELSE 0)
    <3>1. book.tok[a] >= committed.tok[a] + Unspent(a)
      BY <2>2, <2>7 DEF VaultCovered
    <3>2. Unspent(a) \in Int /\ Unspent(a) >= -PullFee /\ (Unspent(a) >= 0 \/ a = SourceSa(req))
      BY <2>3
    <3>3. book.tok[a] \in Nat /\ committed.tok[a] \in Nat
      BY <2>5, <2>6
    <3> QED
      BY <2>2, <2>3, <2>4, <3>1, <3>2, <3>3
  <2>8. OutputPurse(committed') >= OutputPurse(committed) - Advanced
          - (IF SourceSa(req) # None /\ SourceSa(req) = DestinationSa(req) THEN PullFee ELSE 0)
    <3>1. OutputPurse(book) >= OutputPurse(committed) + Owed + Unspent(DestinationSa(req))
      BY <2>2 DEF VaultCovered
    <3>2. Owed = 0 - Advanced /\ Advanced \in Int
      BY <2>2 DEF Owed, Advanced, TypeOK
    <3>3. OutputPurse(book') >= OutputPurse(book)
      BY <2>4, <2>5, <2>6 DEF OutputPurse
    <3>4. /\ Unspent(DestinationSa(req)) \in Int /\ Unspent(DestinationSa(req)) >= -PullFee
          /\ Unspent(DestinationSa(req)) >= 0 \/ (SourceSa(req) # None /\ SourceSa(req) = DestinationSa(req))
      BY <2>3
    <3>5. /\ OutputPurse(book) \in Int /\ OutputPurse(book') \in Int
          /\ OutputPurse(committed) \in Int
      BY <2>2, <2>3, <2>4, PurseNumber DEF TypeOK
    <3>6. OutputPurse(committed') = OutputPurse(book')
      BY <2>2
    <3> QED
      BY <2>3, <3>1, <3>2, <3>3, <3>4, <3>5, <3>6
  <2> QED
    BY <2>7, <2>8
<1>2. Spec => []IInv
  BY InitIInv, NextIInv, PTL DEF Spec
<1>3. Spec => [][A]_vars
  BY <1>1, <1>2, PTL DEF Spec
<1> QED
  BY <1>3 DEF VaultPaysOnlyUnserved

(* No instruction charges the payer more than the amount and the fees, nor *)
(* anybody else anything (PayerSpendsAtMost).                              *)
THEOREM V3PayerSafe == Spec => PayerSpendsAtMost
<1> DEFINE A ==
      Commits =>
        /\ \A a \in TokenAccounts :
             /\ OwnerOf[a] \notin {Payer, SaAuthority}
                  => committed'.tok[a] >= committed.tok[a]
             /\ a # req.dst /\ OwnerOf[a] = Payer
                  => committed'.tok[a] >= committed.tok[a]
                       - (IF a = req.src THEN req.amountIn + FromFee(req) ELSE 0)
        /\ \A a \in SolAccounts \ {Payer, SaAuthority} :
             committed'.sol[a] >= committed.sol[a]
<1>1. IInv /\ [Next]_vars => [A]_vars
  <2> SUFFICES ASSUME IInv, [Next]_vars, Commits PROVE A
    OBVIOUS
  <2>1. Finish
    BY CommitStep
  <2>2. /\ TypeOK /\ HandlerInv /\ PayerCovered /\ pc = "check" /\ committed' = book'
    BY <2>1 DEF IInv, Finish
  <2>3. /\ Charged \in Nat /\ Charged <= FromFee(req) + req.amountIn
        /\ FromFee(req) \in Nat /\ req.amountIn \in Nat
    BY <2>2, AmountsOf, RequestFacts
  <2>4. /\ book' \in Books /\ book'.tok = book.tok
        /\ \A a \in SolAccounts \ {Payer} : book'.sol[a] >= book.sol[a]
    BY <2>1, FinishEffect
  <2>5. /\ book.tok \in [TokenAccounts -> Nat] /\ book.sol \in [SolAccounts -> Nat]
        /\ committed.tok \in [TokenAccounts -> Nat] /\ committed.sol \in [SolAccounts -> Nat]
        /\ book'.sol \in [SolAccounts -> Nat]
    BY <2>2, <2>4 DEF TypeOK, Books
  <2>6. ASSUME NEW a \in TokenAccounts
        PROVE  /\ OwnerOf[a] \notin {Payer, SaAuthority}
                    => committed'.tok[a] >= committed.tok[a]
               /\ a # req.dst /\ OwnerOf[a] = Payer
                    => committed'.tok[a] >= committed.tok[a]
                         - (IF a = req.src THEN req.amountIn + FromFee(req) ELSE 0)
    <3>1. /\ OwnerOf[a] \notin {Payer, SaAuthority} => book.tok[a] >= committed.tok[a]
          /\ a # req.dst /\ OwnerOf[a] = Payer
               => book.tok[a] >= committed.tok[a] - (IF a = req.src THEN Charged ELSE 0)
      BY <2>2 DEF PayerCovered
    <3>2. book.tok[a] \in Nat /\ committed.tok[a] \in Nat
      BY <2>5
    <3> QED
      BY <2>2, <2>3, <2>4, <3>1, <3>2
  <2>7. ASSUME NEW a \in SolAccounts \ {Payer, SaAuthority}
        PROVE  committed'.sol[a] >= committed.sol[a]
    <3>1. book.sol[a] >= committed.sol[a] /\ book'.sol[a] >= book.sol[a]
      BY <2>2, <2>4 DEF PayerCovered
    <3> QED
      BY <2>2, <2>5, <3>1
  <2> QED
    BY <2>6, <2>7
<1>2. Spec => []IInv
  BY InitIInv, NextIInv, PTL DEF Spec
<1>3. Spec => [][A]_vars
  BY <1>1, <1>2, PTL DEF Spec
<1> QED
  BY <1>3 DEF PayerSpendsAtMost

-----------------------------------------------------------------------------
(* What the user and the vault receive.  Four measures tell it: the user's *)
(* wallets, the output purse, and the tokens of the destination account    *)
(* and of the vault's source account.  First, how each payment moves them. *)

LEMMA WalletsNumber ==
  ASSUME req \in Requests, NEW b \in Books
  PROVE  UserWallets(b) \in Int
BY RequestFacts DEF UserWallets, Books

(* A fee is paid by the account it is taken from, and reaches nobody but   *)
(* its recipient; in SOL, the payer may lift the recipient as well.        *)
FeePass(b, c, from, recipients, x, lift) ==
  /\ c \in Books
  /\ c.closed = b.closed
  /\ x = 0 => c = b
  /\ \A a \in TokenAccounts \ recipients :
       c.tok[a] = b.tok[a] - (IF a = from THEN x ELSE 0)
  /\ \A a \in SolAccounts \ {from} : c.sol[a] >= b.sol[a]
  /\ \A a \in SolAccounts : c.sol[a] >= b.sol[a] - x - lift
  /\ c.sol[SaAuthority] >= b.sol[SaAuthority] - (IF from = SaAuthority THEN x ELSE 0)
  /\ SaAuthority \notin recipients
       => c.sol[SaAuthority] = b.sol[SaAuthority] - (IF from = SaAuthority THEN x ELSE 0)

LEMMA FeePasses ==
  ASSUME NEW b \in Books, NEW from, NEW to, NEW x \in Nat, FeePayable(b, from, to, x)
  PROVE  FeePass(b, PayFee(b, from, to, x), from, {to}, x, MIN_SOL_ACCOUNT_RENT)
<1>0. /\ b.sol \in [SolAccounts -> Nat] /\ b.tok \in [TokenAccounts -> Nat]
      /\ MIN_SOL_ACCOUNT_RENT \in Nat /\ SaAuthority \in SolAccounts
      /\ TokenAccounts \cap SolAccounts = {}
  BY V3BoundsAssumption, V3AccountsAssumption DEF Books
<1>1. CASE x = 0
  BY <1>0, <1>1 DEF PayFee, FeePass
<1>2. CASE x > 0 /\ from \in SolAccounts
  <2> DEFINE fee == SolFee(b, from, to, x)
             c == PaySol(b, from, to, fee)
  <2>1. /\ to \in SolAccounts /\ b.sol[from] >= fee
        /\ PayFee(b, from, to, x) = c
    BY <1>2 DEF FeePayable, PayFee
  <2>2. fee \in Nat /\ (from = SaAuthority => fee = x) /\ fee <= x + MIN_SOL_ACCOUNT_RENT
    BY <1>0, <2>1 DEF SolFee
  <2> HIDE DEF fee
  <2>3. /\ c \in Books
        /\ c.tok = b.tok /\ c.closed = b.closed
        /\ \A a \in SolAccounts :
             c.sol[a] = b.sol[a] - (IF a = from THEN fee ELSE 0)
                        + (IF a = to THEN fee ELSE 0)
    BY <1>2, <2>1, <2>2, PaySolEffect
  <2> HIDE DEF c
  <2>4. \A a \in TokenAccounts \ {to} : c.tok[a] = b.tok[a] - (IF a = from THEN x ELSE 0)
    BY <1>0, <1>2, <2>3
  <2>5. ASSUME NEW a \in SolAccounts
        PROVE  /\ a # from => c.sol[a] >= b.sol[a]
               /\ c.sol[a] >= b.sol[a] - x - MIN_SOL_ACCOUNT_RENT
    BY <1>0, <2>2, <2>3
  <2>6. /\ c.sol[SaAuthority] >= b.sol[SaAuthority] - (IF from = SaAuthority THEN x ELSE 0)
        /\ SaAuthority # to
             => c.sol[SaAuthority] = b.sol[SaAuthority] - (IF from = SaAuthority THEN x ELSE 0)
    BY <1>0, <2>2, <2>3
  <2> QED
    BY <1>2, <2>1, <2>3, <2>4, <2>5, <2>6 DEF FeePass
<1>3. CASE x > 0 /\ from \notin SolAccounts
  <2> DEFINE c == PayTokens(b, from, to, x)
  <2>1. /\ from \in TokenAccounts /\ TokenPayable(b, from, to, x)
        /\ PayFee(b, from, to, x) = c
    BY <1>3 DEF FeePayable, PayFee
  <2>2. /\ c \in Books
        /\ c.sol = b.sol /\ c.closed = b.closed
        /\ \A a \in TokenAccounts :
             c.tok[a] = b.tok[a] - (IF a = from THEN x ELSE 0)
                        + (IF a = to THEN x - Withheld(a, x) ELSE 0)
    BY <1>3, <2>1, PayTokensEffect
  <2> HIDE DEF c
  <2>3. \A a \in TokenAccounts \ {to} : c.tok[a] = b.tok[a] - (IF a = from THEN x ELSE 0)
    BY <1>0, <2>2
  <2>4. \A a \in SolAccounts : b.sol[a] \in Nat
    BY <1>0
  <2> QED
    BY <1>0, <1>3, <2>1, <2>2, <2>3, <2>4 DEF FeePass
<1> QED
  BY <1>1, <1>2, <1>3

LEMMA FeesPass ==
  ASSUME NEW b \in Books, NEW from, NEW to1, NEW x1 \in Nat, NEW to2, NEW x2 \in Nat,
         FeesPayable(b, from, to1, x1, to2, x2)
  PROVE  FeePass(b, PayFees(b, from, to1, x1, to2, x2), from, {to1, to2}, x1 + x2,
                 2 * MIN_SOL_ACCOUNT_RENT)
<1> DEFINE c == PayFee(b, from, to1, x1)
           d == PayFee(c, from, to2, x2)
           M == MIN_SOL_ACCOUNT_RENT
<1>1. FeePass(b, c, from, {to1}, x1, M)
  BY FeePasses DEF FeesPayable
<1>2. c \in Books
  BY <1>1 DEF FeePass
<1>3. FeePayable(c, from, to2, x2)
  BY DEF FeesPayable
<1> HIDE DEF c
<1>4. FeePass(c, d, from, {to2}, x2, M)
  BY <1>2, <1>3, FeePasses
<1>5. d = PayFees(b, from, to1, x1, to2, x2)
  BY DEF PayFees, c
<1> HIDE DEF d
<1>6. /\ b.tok \in [TokenAccounts -> Nat] /\ b.sol \in [SolAccounts -> Nat]
      /\ c.tok \in [TokenAccounts -> Nat] /\ c.sol \in [SolAccounts -> Nat]
      /\ d \in Books
      /\ d.tok \in [TokenAccounts -> Nat] /\ d.sol \in [SolAccounts -> Nat]
      /\ M \in Nat /\ SaAuthority \in SolAccounts
  BY <1>2, <1>4, V3BoundsAssumption, V3AccountsAssumption DEF Books, FeePass
<1>7. d.closed = b.closed /\ (x1 + x2 = 0 => d = b)
  BY <1>1, <1>4 DEF FeePass
<1>8. ASSUME NEW a \in TokenAccounts \ {to1, to2}
      PROVE  d.tok[a] = b.tok[a] - (IF a = from THEN x1 + x2 ELSE 0)
  <2>1. c.tok[a] = b.tok[a] - (IF a = from THEN x1 ELSE 0)
    BY <1>1 DEF FeePass
  <2>2. d.tok[a] = c.tok[a] - (IF a = from THEN x2 ELSE 0)
    BY <1>4 DEF FeePass
  <2> QED
    BY <1>6, <2>1, <2>2
<1>9. ASSUME NEW a \in SolAccounts
      PROVE  /\ a # from => d.sol[a] >= b.sol[a]
             /\ d.sol[a] >= b.sol[a] - (x1 + x2) - 2 * M
  <2>1. /\ a # from => c.sol[a] >= b.sol[a]
        /\ c.sol[a] >= b.sol[a] - x1 - M
    BY <1>1 DEF FeePass
  <2>2. /\ a # from => d.sol[a] >= c.sol[a]
        /\ d.sol[a] >= c.sol[a] - x2 - M
    BY <1>4 DEF FeePass
  <2> QED
    BY <1>6, <2>1, <2>2
<1>10. /\ d.sol[SaAuthority]
            >= b.sol[SaAuthority] - (IF from = SaAuthority THEN x1 + x2 ELSE 0)
       /\ SaAuthority \notin {to1, to2}
            => d.sol[SaAuthority]
                 = b.sol[SaAuthority] - (IF from = SaAuthority THEN x1 + x2 ELSE 0)
  <2>1. /\ c.sol[SaAuthority] >= b.sol[SaAuthority] - (IF from = SaAuthority THEN x1 ELSE 0)
        /\ SaAuthority # to1
             => c.sol[SaAuthority] = b.sol[SaAuthority] - (IF from = SaAuthority THEN x1 ELSE 0)
    BY <1>1 DEF FeePass
  <2>2. /\ d.sol[SaAuthority] >= c.sol[SaAuthority] - (IF from = SaAuthority THEN x2 ELSE 0)
        /\ SaAuthority # to2
             => d.sol[SaAuthority] = c.sol[SaAuthority] - (IF from = SaAuthority THEN x2 ELSE 0)
    BY <1>4 DEF FeePass
  <2> QED
    BY <1>6, <2>1, <2>2
<1>11. FeePass(b, d, from, {to1, to2}, x1 + x2, 2 * M)
  BY <1>6, <1>7, <1>8, <1>9, <1>10 DEF FeePass
<1> QED
  BY <1>5, <1>11

(* The user's wallets lose what the payer pays, and what the vault pays if *)
(* the receiver is its authority.                                          *)
LEMMA FeeOnWallets ==
  ASSUME req \in Requests, NEW b \in Books, NEW c, NEW from, NEW recipients,
         NEW x \in Nat, NEW lift \in Nat, FeePass(b, c, from, recipients, x, lift),
         from \in {Payer, SaAuthority, None} \cup TokenAccounts
  PROVE  /\ UserWallets(c) \in Int /\ UserWallets(b) \in Int
         /\ UserWallets(c) >= UserWallets(b)
              - (IF from = Payer /\ x > 0 THEN x + lift ELSE 0)
              - (IF from = SaAuthority /\ req.receiver = SaAuthority THEN x ELSE 0)
<1>1. /\ Payer \in SolAccounts /\ SaAuthority \in SolAccounts /\ Payer # SaAuthority
      /\ req.receiver \in SolAccounts \cup {None} /\ None \notin SolAccounts
      /\ TokenAccounts \cap SolAccounts = {}
      /\ b.sol \in [SolAccounts -> Nat] /\ c.sol \in [SolAccounts -> Nat]
      /\ c \in Books
  BY RequestFacts, V3AccountsAssumption DEF Books, FeePass
<1>2. UserWallets(c) \in Int /\ UserWallets(b) \in Int
  BY <1>1, WalletsNumber
<1>3. CASE x = 0
  <2>1. c = b
    BY <1>3 DEF FeePass
  <2> QED
    BY <1>2, <1>3, <2>1
<1>4. CASE x > 0
  <2>1. c.sol[Payer] >= b.sol[Payer] - (IF from = Payer THEN x + lift ELSE 0)
    <3>1. from # Payer => c.sol[Payer] >= b.sol[Payer]
      BY <1>1 DEF FeePass
    <3>2. c.sol[Payer] >= b.sol[Payer] - x - lift
      BY <1>1 DEF FeePass
    <3> QED
      BY <1>1, <3>1, <3>2
  <2>2. CASE req.receiver \in {None, Payer}
    <3>1. UserWallets(c) = c.sol[Payer] /\ UserWallets(b) = b.sol[Payer]
      BY <1>1, <2>2 DEF UserWallets
    <3> QED
      BY <1>1, <1>2, <1>4, <2>1, <2>2, <3>1
  <2>3. CASE req.receiver \notin {None, Payer}
    <3>1. /\ UserWallets(c) = c.sol[Payer] + c.sol[req.receiver]
          /\ UserWallets(b) = b.sol[Payer] + b.sol[req.receiver]
      BY <2>3 DEF UserWallets
    <3>2. c.sol[req.receiver] >= b.sol[req.receiver]
            - (IF from = SaAuthority /\ req.receiver = SaAuthority THEN x ELSE 0)
      <4>1. CASE req.receiver = SaAuthority
        <5>1. c.sol[SaAuthority] >= b.sol[SaAuthority]
                                    - (IF from = SaAuthority THEN x ELSE 0)
          BY DEF FeePass
        <5> QED
          BY <4>1, <5>1
      <4>2. CASE req.receiver # SaAuthority
        <5>1. from # req.receiver /\ req.receiver \in SolAccounts
          BY <1>1, <2>3, <4>2
        <5>2. c.sol[req.receiver] >= b.sol[req.receiver]
          BY <5>1 DEF FeePass
        <5> QED
          BY <1>1, <4>2, <5>1, <5>2
      <4> QED
        BY <4>1, <4>2
    <3>3. /\ c.sol[req.receiver] \in Nat /\ b.sol[req.receiver] \in Nat
          /\ c.sol[Payer] \in Nat /\ b.sol[Payer] \in Nat
      BY <1>1, <2>3
    <3> QED
      BY <1>1, <1>2, <1>4, <2>1, <3>1, <3>2, <3>3
  <2> QED
    BY <2>2, <2>3
<1> QED
  BY <1>2, <1>3, <1>4

(* The vault's output purse loses exactly the fee, when it pays it and no  *)
(* recipient is in the vault.                                              *)
LEMMA FeeOnPurse ==
  ASSUME req \in Requests, NEW b \in Books, NEW c, NEW from, NEW recipients,
         NEW x \in Nat, NEW lift, FeePass(b, c, from, recipients, x, lift),
         recipients \cap (SaAccounts \cup {SaAuthority}) = {}
  PROVE  /\ OutputPurse(c) \in Int /\ OutputPurse(b) \in Int
         /\ from # None =>
              OutputPurse(c) = OutputPurse(b)
                               - (IF from \in {SaAuthority, DestinationSa(req)} THEN x ELSE 0)
         /\ from = None /\ x = 0 => OutputPurse(c) = OutputPurse(b)
<1>1. /\ DestinationSa(req) = None \/ (DestinationSa(req) \in SaAccounts /\ DestinationSa(req) \in TokenAccounts)
      /\ SaAuthority \in SolAccounts /\ None \notin TokenAccounts
      /\ TokenAccounts \cap SolAccounts = {}
      /\ b.tok \in [TokenAccounts -> Nat] /\ b.sol \in [SolAccounts -> Nat]
      /\ c.tok \in [TokenAccounts -> Nat] /\ c.sol \in [SolAccounts -> Nat]
      /\ c \in Books /\ (x = 0 => c = b)
  BY RequestFacts, V3AccountsAssumption DEF SaAccounts, Books, FeePass
<1>2. OutputPurse(c) \in Int /\ OutputPurse(b) \in Int
  BY <1>1, PurseNumber
<1>3. c.sol[SaAuthority] = b.sol[SaAuthority] - (IF from = SaAuthority THEN x ELSE 0)
  BY DEF FeePass
<1>4. CASE DestinationSa(req) = None
  BY <1>1, <1>2, <1>3, <1>4 DEF OutputPurse
<1>5. CASE DestinationSa(req) # None
  <2>1. c.tok[DestinationSa(req)] = b.tok[DestinationSa(req)] - (IF DestinationSa(req) = from THEN x ELSE 0)
    BY <1>1, <1>5 DEF FeePass
  <2>2. /\ OutputPurse(c) = c.sol[SaAuthority] + c.tok[DestinationSa(req)]
        /\ OutputPurse(b) = b.sol[SaAuthority] + b.tok[DestinationSa(req)]
    BY <1>5 DEF OutputPurse
  <2>3. ~(from = SaAuthority /\ from = DestinationSa(req))
    BY <1>1, <1>5
  <2>4. /\ c.tok[DestinationSa(req)] \in Nat /\ b.tok[DestinationSa(req)] \in Nat
        /\ c.sol[SaAuthority] \in Nat /\ b.sol[SaAuthority] \in Nat
    BY <1>1, <1>5
  <2> QED
    BY <1>1, <1>2, <1>3, <2>1, <2>2, <2>3, <2>4
<1> QED
  BY <1>4, <1>5

(* The vault hands over x: what the mint withholds reaches nobody.         *)
LEMMA HandOverMoves ==
  ASSUME book \in Books, req \in Requests, NEW x \in Nat, HandOverPayable(x)
  PROVE  LET c == HandOver(x)
             handed == IF DestinationSa(req) = None THEN 0 ELSE x
         IN  /\ c \in Books /\ c.closed = book.closed
             /\ UserWallets(c) = UserWallets(book)
             /\ req.dst \notin SaAccounts =>
                  /\ OutputPurse(c) = OutputPurse(book) - handed
                  /\ c.tok[req.dst] = book.tok[req.dst]
                                      + (IF DestinationSa(req) = None THEN 0
                                         ELSE x - Withheld(req.dst, x))
                  /\ SourceSa(req) # None /\ SourceSa(req) # DestinationSa(req)
                       => c.tok[SourceSa(req)] = book.tok[SourceSa(req)]
<1> DEFINE c == HandOver(x)
<1>1. /\ book.tok \in [TokenAccounts -> Nat] /\ book.sol \in [SolAccounts -> Nat]
      /\ req.dst \in TokenAccounts
      /\ DestinationSa(req) = None \/ (DestinationSa(req) \in SaAccounts /\ DestinationSa(req) \in TokenAccounts)
      /\ SourceSa(req) = None \/ (SourceSa(req) \in SaAccounts /\ SourceSa(req) \in TokenAccounts)
      /\ SaAuthority \in SolAccounts
  BY RequestFacts DEF SaAccounts, Books
<1>2. CASE DestinationSa(req) = None \/ x = 0
  <2>1. c = book
    BY <1>2 DEF HandOver
  <2>2. OutputPurse(book) \in Int /\ UserWallets(book) \in Int
    BY PurseNumber, WalletsNumber
  <2>3. x = 0 => Withheld(req.dst, x) = 0
    BY <1>1, WithheldPart
  <2> HIDE DEF c
  <2>4. QED
    BY <1>1, <1>2, <2>1, <2>2, <2>3 DEF c
<1>3. CASE DestinationSa(req) # None /\ x # 0
  <2>1. c = PayTokens(book, DestinationSa(req), req.dst, x)
    BY <1>3 DEF HandOver
  <2>2. TokenPayable(book, DestinationSa(req), req.dst, x)
    BY <1>3 DEF HandOverPayable
  <2> HIDE DEF c
  <2>3. /\ c \in Books
        /\ c.sol = book.sol /\ c.closed = book.closed
        /\ \A a \in TokenAccounts :
             c.tok[a] = book.tok[a] - (IF a = DestinationSa(req) THEN x ELSE 0)
                        + (IF a = req.dst THEN x - Withheld(a, x) ELSE 0)
    BY <1>1, <1>3, <2>1, <2>2, PayTokensEffect
  <2>4. UserWallets(c) = UserWallets(book)
    BY <2>3 DEF UserWallets
  <2>5. Withheld(req.dst, x) \in Nat
    BY <1>1, WithheldPart
  <2>6. ASSUME req.dst \notin SaAccounts
        PROVE  /\ OutputPurse(c) = OutputPurse(book) - x
               /\ c.tok[req.dst] = book.tok[req.dst] + (x - Withheld(req.dst, x))
               /\ SourceSa(req) # None /\ SourceSa(req) # DestinationSa(req)
                    => c.tok[SourceSa(req)] = book.tok[SourceSa(req)]
    <3>1. c.tok[DestinationSa(req)] = book.tok[DestinationSa(req)] - x
      BY <1>1, <1>3, <2>3, <2>6
    <3>2. OutputPurse(c) = OutputPurse(book) - x
      BY <1>1, <1>3, <2>3, <3>1 DEF OutputPurse
    <3>3. c.tok[req.dst] = book.tok[req.dst] + (x - Withheld(req.dst, x))
      BY <1>1, <1>3, <2>3, <2>5, <2>6
    <3>4. ASSUME SourceSa(req) # None, SourceSa(req) # DestinationSa(req)
          PROVE  c.tok[SourceSa(req)] = book.tok[SourceSa(req)]
      BY <1>1, <2>3, <2>6, <3>4
    <3> QED
      BY <3>2, <3>3, <3>4
  <2> QED
    BY <1>3, <2>3, <2>4, <2>6 DEF c
<1> QED
  BY <1>2, <1>3

(* Closing the user's open wSOL account turns it into SOL of whoever gets  *)
(* it: the user, or the vault.                                             *)
LEMMA CloseMoves ==
  ASSUME req \in Requests, NEW b \in Books, NEW to \in {Payer, SaAuthority},
         OwnerOf[req.dst] = Payer, req.dst \notin b.closed
  PROVE  LET c == Close(b, req.dst, to)
             x == b.tok[req.dst] + TOKEN_ACCOUNT_RENT
         IN  /\ c \in Books /\ c.closed = b.closed \cup {req.dst}
             /\ UserWallets(c) = UserWallets(b)
                  + (IF to = Payer \/ req.receiver = SaAuthority THEN x ELSE 0)
             /\ OutputPurse(c) = OutputPurse(b) + (IF to = Payer THEN 0 ELSE x)
             /\ SourceSa(req) # None => c.tok[SourceSa(req)] = b.tok[SourceSa(req)]
<1> DEFINE c == Close(b, req.dst, to)
           x == b.tok[req.dst] + TOKEN_ACCOUNT_RENT
<1>1. /\ b.tok \in [TokenAccounts -> Nat] /\ b.sol \in [SolAccounts -> Nat]
      /\ TOKEN_ACCOUNT_RENT \in Nat
      /\ req.dst \in TokenAccounts
      /\ DestinationSa(req) = None \/ (DestinationSa(req) \in TokenAccounts /\ DestinationSa(req) # req.dst)
      /\ SourceSa(req) = None \/ (SourceSa(req) \in TokenAccounts /\ SourceSa(req) # req.dst)
      /\ req.receiver \in SolAccounts \cup {None}
      /\ SaAuthority \in SolAccounts /\ Payer \in SolAccounts /\ Payer # SaAuthority
      /\ None \notin SolAccounts
      /\ to \in SolAccounts
  BY RequestFacts, V3BoundsAssumption DEF SaAccounts, Books
<1>2. c \in Books /\ c.closed = b.closed \cup {req.dst}
  BY <1>1, CloseEffect
<1>3. /\ \A a \in TokenAccounts \ {req.dst} : c.tok[a] = b.tok[a]
      /\ \A a \in SolAccounts : c.sol[a] = b.sol[a] + (IF a = to THEN x ELSE 0)
  <2>1. /\ c.tok = [b.tok EXCEPT ![req.dst] = 0]
        /\ c.sol = [b.sol EXCEPT ![to] = b.sol[to] + b.tok[req.dst] + TOKEN_ACCOUNT_RENT]
    BY <1>1 DEF Close, CloseAccount
  <2> QED
    BY <1>1, <2>1
<1> HIDE DEF c
<1>4. x \in Nat
  BY <1>1
<1> HIDE DEF x
<1>5. UserWallets(c) = UserWallets(b)
        + (IF to = Payer \/ req.receiver = SaAuthority THEN x ELSE 0)
  <2>1. CASE to = Payer
    BY <1>1, <1>3, <1>4, <2>1 DEF UserWallets
  <2>2. CASE to = SaAuthority
    BY <1>1, <1>3, <1>4, <2>2 DEF UserWallets
  <2> QED
    BY <2>1, <2>2
<1>6. OutputPurse(c) = OutputPurse(b) + (IF to = Payer THEN 0 ELSE x)
  <2>1. CASE DestinationSa(req) = None
    BY <1>1, <1>3, <1>4, <2>1 DEF OutputPurse
  <2>2. CASE DestinationSa(req) # None
    <3>1. c.tok[DestinationSa(req)] = b.tok[DestinationSa(req)]
      BY <1>1, <1>3, <2>2
    <3> QED
      BY <1>1, <1>3, <1>4, <2>2, <3>1 DEF OutputPurse
  <2> QED
    BY <2>1, <2>2
<1>7. SourceSa(req) # None => c.tok[SourceSa(req)] = b.tok[SourceSa(req)]
  BY <1>1, <1>3
<1> QED
  BY <1>2, <1>5, <1>6, <1>7 DEF c, x

(* Unwrapping moves the output, and what the account held, into the purse. *)
LEMMA UnwrapMoves ==
  ASSUME book \in Books, req \in Requests, out \in Nat, Unwrappable,
         req.dst \notin book.closed
  PROVE  LET x == book.tok[req.dst] + TOKEN_ACCOUNT_RENT
             handed == IF DestinationSa(req) = None THEN 0 ELSE out
         IN  /\ Unwrap \in Books /\ Unwrap.closed = book.closed \cup {req.dst}
             /\ UserWallets(Unwrap) = UserWallets(book)
                  + (IF req.receiver = SaAuthority THEN x + handed ELSE 0)
             /\ OutputPurse(Unwrap) = OutputPurse(book) + x
             /\ SourceSa(req) # None /\ SourceSa(req) # DestinationSa(req)
                  => Unwrap.tok[SourceSa(req)] = book.tok[SourceSa(req)]
<1> DEFINE h == HandOver(out)
           handed == IF DestinationSa(req) = None THEN 0 ELSE out
<1>1. MintOf[req.dst] = Wsol /\ OwnerOf[req.dst] = Payer /\ HandOverPayable(out)
  BY DEF Unwrappable
<1>2. /\ req.dst \in TokenAccounts /\ req.dst \notin SaAccounts
      /\ Payer # SaAuthority
  BY <1>1, RequestFacts DEF SaAccounts
<1>3. Withheld(req.dst, out) = 0
  BY <1>1, <1>2, WithheldPart
<1>4. /\ h \in Books /\ h.closed = book.closed
      /\ UserWallets(h) = UserWallets(book)
      /\ OutputPurse(h) = OutputPurse(book) - handed
      /\ h.tok[req.dst] = book.tok[req.dst] + handed
      /\ SourceSa(req) # None /\ SourceSa(req) # DestinationSa(req)
           => h.tok[SourceSa(req)] = book.tok[SourceSa(req)]
  BY <1>1, <1>2, <1>3, HandOverMoves
<1> HIDE DEF h
<1> DEFINE c == Close(h, req.dst, SaAuthority)
           y == h.tok[req.dst] + TOKEN_ACCOUNT_RENT
<1>5. /\ c \in Books /\ c.closed = h.closed \cup {req.dst}
      /\ UserWallets(c) = UserWallets(h) + (IF req.receiver = SaAuthority THEN y ELSE 0)
      /\ OutputPurse(c) = OutputPurse(h) + y
      /\ SourceSa(req) # None => c.tok[SourceSa(req)] = h.tok[SourceSa(req)]
  BY <1>1, <1>2, <1>4, CloseMoves
<1>6. Unwrap = c
  BY DEF Unwrap, h
<1> HIDE DEF c
<1>7. /\ UserWallets(book) \in Int /\ OutputPurse(book) \in Int
      /\ book.tok[req.dst] \in Nat /\ handed \in Nat /\ TOKEN_ACCOUNT_RENT \in Nat
  BY <1>2, PurseNumber, WalletsNumber, V3BoundsAssumption DEF Books
<1> QED
  BY <1>4, <1>5, <1>6, <1>7

(* The amounts of an instruction do not change while it settles.           *)
LEMMA SameAmounts ==
  ASSUME UNCHANGED <<committed, req, spent, out>>
  PROVE  /\ ToFee' = ToFee /\ TrimAndCharge' = TrimAndCharge /\ ActualOut' = ActualOut
         /\ UserSol' = UserSol
         /\ SolSpent' = SolSpent /\ NoGainAsked' = NoGainAsked
         /\ \A a : Unspent(a)' = Unspent(a)
         /\ UserWallets(book)' = UserWallets(book')
         /\ UserWallets(committed)' = UserWallets(committed)
         /\ OutputPurse(book)' = OutputPurse(book')
         /\ OutputPurse(committed)' = OutputPurse(committed)
<1>1. /\ committed' = committed /\ req' = req /\ spent' = spent /\ out' = out
  OBVIOUS
<1>2. /\ ToFee' = ToFee /\ TrimAndCharge' = TrimAndCharge /\ ActualOut' = ActualOut
      /\ UserSol' = UserSol
  BY <1>1 DEF ToFee, TotalFee, TrimAndCharge, TotalTrim, ActualOut, UserSol
<1>3. FromFee(req)' = FromFee(req) /\ Pulled(req)' = Pulled(req)
  BY <1>1 DEF FromFee, TotalFee, Pulled, IsChargeSol
<1>4. PullFee' = PullFee
  BY <1>1 DEF PullFee, Withheld, Pulled, FromFee, TotalFee, IsChargeSol
<1>5. SolSpent' = SolSpent
  BY <1>1, <1>3 DEF SolSpent, IsChargeSol
<1>6. NoGainAsked' = NoGainAsked
  BY <1>1, <1>4 DEF NoGainAsked
<1>7. \A a : Unspent(a)' = Unspent(a)
  BY <1>1, <1>4 DEF Unspent, DestinationAccount
<1>8. /\ UserWallets(book)' = UserWallets(book')
      /\ UserWallets(committed)' = UserWallets(committed)
      /\ OutputPurse(book)' = OutputPurse(book')
      /\ OutputPurse(committed)' = OutputPurse(committed)
  BY <1>1 DEF UserWallets, OutputPurse
<1> QED
  BY <1>2, <1>5, <1>6, <1>7, <1>8

(* What has been received, as the steps that settle find it.               *)
LEMMA SettlementFacts ==
  ASSUME SettlementInv, pc \in {"after", "trim", "user"}
  PROVE  /\ IInv
         /\ book \in Books /\ committed \in Books /\ req \in Requests
         /\ req.dst \in TokenAccounts
         /\ book.tok[req.dst] \in Nat /\ committed.tok[req.dst] \in Nat
         /\ UserWallets(book) \in Int /\ UserWallets(committed) \in Int
         /\ OutputPurse(book) \in Int /\ OutputPurse(committed) \in Int
         /\ SolSpent \in Nat /\ MIN_SOL_ACCOUNT_RENT \in Nat
         /\ ~req.toB => SolSpent >= 2 * MIN_SOL_ACCOUNT_RENT
         /\ SolSpentSoFar = IF req.onFrom THEN SolSpent ELSE 0
         /\ req.minReturn > 0 /\ req.dst \notin committed.closed
         /\ req.dst \in book.closed =>
              MintOf[req.dst] = Wsol /\ OwnerOf[req.dst] = Payer
         /\ pc \in {"trim", "user"} => req.toB /\ (unwrapped => req.dst \in book.closed)
         /\ pc = "user" /\ TrimAndCharge = 0 /\ ~unwrapped => req.dst \notin book.closed
         /\ pc = "trim" /\ ~unwrapped /\ DestinationSa(req) = None => ToFee = 0
         /\ req.src # req.dst =>
              /\ req.dst \notin book.closed \cup SaAccounts =>
                   book.tok[req.dst] >= committed.tok[req.dst]
                                        + (IF DestinationSa(req) = None THEN out ELSE 0)
              /\ ~Doomed => UserWallets(book) >= UserWallets(committed) + ReceivedInSol
                                                 - SolSpentSoFar
         /\ NoGainAsked =>
              /\ SourceSa(req) # None => SourceSa(req) # DestinationSa(req)
              /\ SourceSa(req) # None =>
                   book.tok[SourceSa(req)] <= committed.tok[SourceSa(req)] + Unspent(SourceSa(req))
              /\ ~Doomed => OutputPurse(book) <= OutputPurse(committed) + Owed + KeptByVault
              /\ Wrapped => book.tok[req.dst] <= committed.tok[req.dst]
                                 + (IF ThroughDestination(req) THEN 0 ELSE out)
<1>1. /\ IInv /\ TypeOK /\ HandlerInv /\ SettlingInv /\ UserCovered /\ NothingLeft
      /\ pc # "idle" /\ pc # "swap" /\ pc # "check"
  BY DEF SettlementInv, IInv
<1>2. /\ book \in Books /\ committed \in Books /\ req \in Requests
  BY <1>1 DEF TypeOK
<1>3. /\ req.dst \in TokenAccounts /\ req.toB \in BOOLEAN
      /\ MIN_SOL_ACCOUNT_RENT \in Nat /\ FromFee(req) \in Nat
  BY <1>1, <1>2, AmountsOf, RequestFacts, V3BoundsAssumption
<1>4. book.tok[req.dst] \in Nat /\ committed.tok[req.dst] \in Nat
  BY <1>2, <1>3 DEF Books
<1>5. /\ UserWallets(book) \in Int /\ UserWallets(committed) \in Int
      /\ OutputPurse(book) \in Int /\ OutputPurse(committed) \in Int
  BY <1>2, WalletsNumber, PurseNumber
<1>6. /\ SolSpent \in Nat
      /\ ~req.toB => SolSpent >= 2 * MIN_SOL_ACCOUNT_RENT
  BY <1>3 DEF SolSpent
<1>7. SolSpentSoFar = IF req.onFrom THEN SolSpent ELSE 0
  BY <1>1 DEF SolSpentSoFar
<1>8. /\ req.minReturn > 0 /\ req.dst \notin committed.closed
      /\ req.dst \in book.closed =>
           MintOf[req.dst] = Wsol /\ OwnerOf[req.dst] = Payer
      /\ pc \in {"trim", "user"} => req.toB /\ (unwrapped => req.dst \in book.closed)
      /\ pc = "user" /\ TrimAndCharge = 0 /\ ~unwrapped => req.dst \notin book.closed
      /\ pc = "trim" /\ ~unwrapped /\ DestinationSa(req) = None => ToFee = 0
  BY <1>1 DEF SettlingInv
<1>9. ReceivedInDst = IF DestinationSa(req) = None THEN out ELSE 0
  BY <1>1 DEF ReceivedInDst
<1>10. req.src # req.dst =>
         /\ req.dst \notin book.closed \cup SaAccounts =>
              book.tok[req.dst] >= committed.tok[req.dst]
                                   + (IF DestinationSa(req) = None THEN out ELSE 0)
         /\ ~Doomed => UserWallets(book) >= UserWallets(committed) + ReceivedInSol
                                            - SolSpentSoFar
  BY <1>1, <1>9 DEF UserCovered
<1>11. NoGainAsked =>
         /\ SourceSa(req) # None => SourceSa(req) # DestinationSa(req)
         /\ SourceSa(req) # None =>
              book.tok[SourceSa(req)] <= committed.tok[SourceSa(req)] + Unspent(SourceSa(req))
         /\ ~Doomed => OutputPurse(book) <= OutputPurse(committed) + Owed + KeptByVault
         /\ Wrapped => book.tok[req.dst] <= committed.tok[req.dst]
                            + (IF ThroughDestination(req) THEN 0 ELSE out)
  BY <1>1 DEF NothingLeft, NoGainAsked
<1> QED
  BY <1>1, <1>2, <1>3, <1>4, <1>5, <1>6, <1>7, <1>8, <1>10, <1>11

(* What a step that settles has to show.                                   *)
LEMMA SettleStep ==
  ASSUME UNCHANGED <<committed, req, spent, out>>, pc' \in {"trim", "user", "check"},
         /\ req.src # req.dst
         /\ req.dst \notin book'.closed \cup SaAccounts
         /\ pc' = "check" => TrimAndCharge > 0
         => book'.tok[req.dst] >= committed.tok[req.dst] + ReceivedInDst',
         req.src # req.dst /\ ~Doomed' =>
           UserWallets(book') >= UserWallets(committed) + ReceivedInSol' - SolSpentSoFar',
         NoGainAsked =>
           /\ SourceSa(req) # None =>
                book'.tok[SourceSa(req)] <= committed.tok[SourceSa(req)] + Unspent(SourceSa(req))
           /\ ~Doomed' => OutputPurse(book') <= OutputPurse(committed) + Owed' + KeptByVault'
           /\ pc' = "trim" /\ ~unwrapped' =>
                book'.tok[req.dst] <= committed.tok[req.dst]
                                      + (IF ThroughDestination(req) THEN 0 ELSE out)
  PROVE  UserCovered' /\ NothingLeft'
<1>1. /\ committed' = committed /\ req' = req /\ spent' = spent /\ out' = out
      /\ pc' # "idle" /\ pc' # "swap" /\ pc' # "after"
  OBVIOUS
<1>2. UserCovered'
  BY <1>1, SameAmounts DEF UserCovered
<1>3. Unspent(SourceSa(req))' = Unspent(SourceSa(req))
  BY <1>1 DEF Unspent, PullFee, DestinationAccount, Withheld, Pulled, FromFee, TotalFee,
     IsChargeSol
<1>4. Wrapped' = (pc' = "trim" /\ ~unwrapped')
  BY <1>1 DEF Wrapped
<1>5. NothingLeft'
  BY <1>1, <1>3, <1>4, SameAmounts DEF NothingLeft
<1> QED
  BY <1>2, <1>5

(* The amounts of SettleStep, after the last step that settles and between *)
(* two of them.                                                            *)
LEMMA AmountsAtCheck ==
  ASSUME UNCHANGED <<committed, req, spent, out, unwrapped>>, pc' = "check"
  PROVE  /\ ReceivedInDst' = ActualOut - Withheld(req.dst, ActualOut)
         /\ ReceivedInSol' = IF req.dst \in book'.closed
                             THEN ActualOut + TOKEN_ACCOUNT_RENT + committed.tok[req.dst]
                                  - KeptByVault
                             ELSE 0
         /\ SolSpentSoFar' = SolSpent
         /\ Owed' = 0 - Advanced /\ KeptByVault' = KeptByVault
         /\ Doomed' <=> (req.dst \in book'.closed /\ ~unwrapped /\ ActualOut = 0)
<1>1. /\ committed' = committed /\ req' = req /\ unwrapped' = unwrapped
      /\ ActualOut' = ActualOut /\ SolSpent' = SolSpent
  BY SameAmounts
<1>2. KeptByVault' = KeptByVault
  BY <1>1 DEF KeptByVault
<1>3. ReceivedInDst' = ActualOut - Withheld(req.dst, ActualOut)
  BY <1>1 DEF ReceivedInDst, Withheld
<1>4. ReceivedInSol' = IF req.dst \in book'.closed
                       THEN ActualOut + TOKEN_ACCOUNT_RENT + committed.tok[req.dst]
                            - KeptByVault
                       ELSE 0
  BY <1>1, <1>2 DEF ReceivedInSol
<1>5. SolSpentSoFar' = SolSpent /\ Owed' = 0 - Advanced
  BY <1>1 DEF SolSpentSoFar, Owed, Advanced
<1>6. Doomed' <=> (req.dst \in book'.closed /\ ~unwrapped /\ ActualOut = 0)
  BY <1>1 DEF Doomed
<1> QED
  BY <1>2, <1>3, <1>4, <1>5, <1>6

LEMMA AmountsBeforeCheck ==
  ASSUME UNCHANGED <<committed, req, spent, out>>, pc' \in {"trim", "user"},
         pc \in {"after", "trim"}
  PROVE  /\ ReceivedInDst' = IF DestinationSa(req) = None THEN out ELSE 0
         /\ ReceivedInSol' = IF unwrapped' /\ req.receiver = SaAuthority
                             THEN committed.tok[req.dst] + Owed'
                             ELSE 0
         /\ SolSpentSoFar' = SolSpentSoFar
         /\ KeptByVault' = IF unwrapped' THEN committed.tok[req.dst] ELSE 0
         /\ Owed' = (IF unwrapped'
                     THEN IF pc' = "trim" THEN out - ToFee + TOKEN_ACCOUNT_RENT ELSE UserSol
                     ELSE IF DestinationSa(req) = None THEN 0
                     ELSE IF pc' = "trim" THEN out - ToFee ELSE ActualOut)
                    - Advanced'
         /\ Advanced' = IF Unserved(req) /\ ~unwrapped' THEN out ELSE 0
         /\ Doomed' <=> (pc' = "user" /\ req.dst \in book'.closed /\ ~unwrapped')
<1>1. /\ committed' = committed /\ req' = req /\ out' = out
      /\ ActualOut' = ActualOut /\ SolSpent' = SolSpent /\ ToFee' = ToFee
      /\ UserSol' = UserSol
  BY SameAmounts
<1>2. SolSpentSoFar' = SolSpentSoFar
  BY <1>1 DEF SolSpentSoFar
<1>3. KeptByVault' = IF unwrapped' THEN committed.tok[req.dst] ELSE 0
  BY <1>1 DEF KeptByVault
<1>4. Advanced' = IF Unserved(req) /\ ~unwrapped' THEN out ELSE 0
  BY <1>1 DEF Advanced
<1> QED
  BY <1>1, <1>2, <1>3, <1>4 DEF ReceivedInDst, ReceivedInSol, Owed, Doomed

(* The vault hands over x, and the user's wSOL becomes SOL if asked for.   *)
UserPaid(x) ==
  LET handed == IF DestinationSa(req) = None THEN 0 ELSE x
  IN  /\ book' \in Books
      /\ book'.closed = book.closed \cup (IF ClosesForUser THEN {req.dst} ELSE {})
      /\ ClosesForUser => /\ MintOf[req.dst] = Wsol /\ OwnerOf[req.dst] = Payer
                          /\ req.dst \notin SaAccounts
      /\ UserWallets(book') = UserWallets(book)
           + (IF ClosesForUser THEN book.tok[req.dst] + handed + TOKEN_ACCOUNT_RENT ELSE 0)
      /\ req.dst \notin SaAccounts =>
           /\ OutputPurse(book') = OutputPurse(book) - handed
           /\ SourceSa(req) # None /\ SourceSa(req) # DestinationSa(req)
                => book'.tok[SourceSa(req)] = book.tok[SourceSa(req)]
           /\ ~ClosesForUser =>
                book'.tok[req.dst] = book.tok[req.dst]
                  + (IF DestinationSa(req) = None THEN 0 ELSE x - Withheld(req.dst, x))

LEMMA UserPays ==
  ASSUME book \in Books, req \in Requests, NEW x \in Nat, HandOverPayable(x),
         ClosesForUser => OwnerOf[req.dst] = Payer, req.dst \notin book.closed,
         book' = CloseForUser(HandOver(x))
  PROVE  UserPaid(x)
<1> DEFINE h == HandOver(x)
           handed == IF DestinationSa(req) = None THEN 0 ELSE x
<1>1. /\ req.dst \in TokenAccounts /\ TOKEN_ACCOUNT_RENT \in Nat /\ handed \in Nat
      /\ book.tok[req.dst] \in Nat
      /\ UserWallets(book) \in Int /\ OutputPurse(book) \in Int
  BY RequestFacts, V3BoundsAssumption, WalletsNumber, PurseNumber DEF Books
<1>2. /\ h \in Books /\ h.closed = book.closed
      /\ UserWallets(h) = UserWallets(book)
      /\ req.dst \notin SaAccounts =>
           /\ OutputPurse(h) = OutputPurse(book) - handed
           /\ h.tok[req.dst] = book.tok[req.dst]
                               + (IF DestinationSa(req) = None THEN 0 ELSE x - Withheld(req.dst, x))
           /\ SourceSa(req) # None /\ SourceSa(req) # DestinationSa(req)
                => h.tok[SourceSa(req)] = book.tok[SourceSa(req)]
  BY HandOverMoves
<1>3. book' = CloseForUser(h)
  OBVIOUS
<1> HIDE DEF h
<1>4. CASE ClosesForUser
  <2>1. MintOf[req.dst] = Wsol /\ OwnerOf[req.dst] = Payer
    BY <1>4 DEF ClosesForUser
  <2>2. req.dst \notin SaAccounts /\ Withheld(req.dst, x) = 0
    BY <1>1, <2>1, WithheldPart, RequestFacts DEF SaAccounts
  <2>3. book' = Close(h, req.dst, Payer)
    BY <1>3, <1>4 DEF CloseForUser
  <2>4. h.tok[req.dst] = book.tok[req.dst] + handed
    BY <1>1, <1>2, <2>2
  <2>5. /\ book' \in Books /\ book'.closed = h.closed \cup {req.dst}
        /\ UserWallets(book') = UserWallets(h) + (h.tok[req.dst] + TOKEN_ACCOUNT_RENT)
        /\ OutputPurse(book') = OutputPurse(h) + 0
        /\ SourceSa(req) # None => book'.tok[SourceSa(req)] = h.tok[SourceSa(req)]
    BY <1>2, <2>1, <2>3, CloseMoves
  <2> HIDE DEF handed
  <2>6. UserWallets(book') = UserWallets(book)
                             + (book.tok[req.dst] + handed + TOKEN_ACCOUNT_RENT)
    BY <1>1, <1>2, <2>4, <2>5
  <2>7. OutputPurse(book') = OutputPurse(book) - handed
    BY <1>1, <1>2, <2>2, <2>5
  <2> QED
    BY <1>2, <1>4, <2>1, <2>2, <2>5, <2>6, <2>7 DEF UserPaid, handed
<1>5. CASE ~ClosesForUser
  <2>1. book' = h
    BY <1>3, <1>5 DEF CloseForUser
  <2>2. UserWallets(book') = UserWallets(book) + 0
    BY <1>1, <1>2, <2>1
  <2> QED
    BY <1>2, <1>5, <2>1, <2>2 DEF UserPaid
<1> QED
  BY <1>4, <1>5

(* What is handed over and not advanced, and what the swap already gave to *)
(* the user's account, are the whole output together.                      *)
LEMMA WholeOutput ==
  ASSUME out \in Nat, unwrapped \in BOOLEAN
  PROVE  /\ Advanced \in Nat /\ Advanced <= out
         /\ unwrapped => Advanced = 0
         /\ DestinationSa(req) = None => Advanced = 0
         /\ ~unwrapped =>
              (IF DestinationSa(req) = None THEN 0 ELSE out) - Advanced
              + (IF ThroughDestination(req) THEN 0 ELSE out) = out
<1>1. CASE Unserved(req)
  BY <1>1 DEF Advanced, Unserved
<1>2. CASE ~Unserved(req)
  <2>1. Advanced = 0
    BY <1>2 DEF Advanced
  <2>2. CASE DestinationSa(req) = None
    BY <2>1, <2>2 DEF ThroughDestination
  <2>3. CASE DestinationSa(req) # None
    <3>1. ThroughDestination(req)
      BY <1>2, <2>3 DEF Unserved
    <3> QED
      BY <2>1, <2>3, <3>1
  <2> QED
    BY <2>2, <2>3
<1> QED
  BY <1>1, <1>2

LEMMA AfterSwapWithoutFeeSettles ==
  ASSUME SettlementInv, AfterSwapWithoutFee
  PROVE  SettlingInv' /\ UserCovered' /\ NothingLeft'
<1> DEFINE handed == IF DestinationSa(req) = None THEN 0 ELSE out
<1>1. /\ pc = "after" /\ pc' = "check" /\ RatesAllowed /\ req.toB
      /\ ToFee = 0 /\ TrimAndCharge = 0
      /\ HandOverPayable(out)
      /\ ClosesForUser => OwnerOf[req.dst] = Payer
      /\ book' = CloseForUser(HandOver(out))
      /\ UNCHANGED <<committed, req, spent, out, unwrapped, commits>>
  BY DEF AfterSwapWithoutFee
<1>2. /\ IInv /\ book \in Books /\ req \in Requests /\ req.dst \in TokenAccounts
      /\ book.tok[req.dst] \in Nat /\ committed.tok[req.dst] \in Nat
      /\ UserWallets(book) \in Int /\ UserWallets(committed) \in Int
      /\ OutputPurse(book) \in Int /\ OutputPurse(committed) \in Int
      /\ SolSpent \in Nat
      /\ SolSpentSoFar = IF req.onFrom THEN SolSpent ELSE 0
      /\ req.minReturn > 0 /\ req.dst \notin committed.closed
  BY <1>1, SettlementFacts
<1>3. /\ out \in Nat /\ TOKEN_ACCOUNT_RENT \in Nat /\ unwrapped = FALSE
      /\ ActualOut = out /\ req.dst \notin book.closed
      /\ handed \in Nat /\ Advanced \in Nat
  BY <1>1, <1>2, SettlingFacts, WholeOutput
<1>4. UserPaid(out)
  BY <1>1, <1>2, <1>3, UserPays
<1>5. SettlingInv'
  BY <1>1, <1>2, <1>3, <1>4 DEF SettlingInv, UserPaid
<1>6. /\ ReceivedInSol' = IF req.dst \in book'.closed
                          THEN out + TOKEN_ACCOUNT_RENT + committed.tok[req.dst]
                          ELSE 0
      /\ SolSpentSoFar' = SolSpent /\ Owed' = 0 - Advanced /\ KeptByVault' = 0
  BY <1>1, <1>2, <1>3, AmountsAtCheck DEF KeptByVault
<1>7. ASSUME req.src # req.dst
      PROVE  UserWallets(book') >= UserWallets(committed) + ReceivedInSol' - SolSpentSoFar'
  <2>1. UserWallets(book) >= UserWallets(committed) - SolSpentSoFar
    <3>1. ReceivedInSol = 0 /\ ~Doomed
      BY <1>1 DEF ReceivedInSol, Doomed
    <3>2. UserWallets(book) >= UserWallets(committed) + ReceivedInSol - SolSpentSoFar
      BY <1>1, <1>7, <3>1, SettlementFacts
    <3> QED
      BY <1>2, <3>1, <3>2
  <2>2. CASE ClosesForUser
    <3>1. /\ req.dst \notin SaAccounts /\ req.dst \in book'.closed
          /\ UserWallets(book') = UserWallets(book)
                                  + (book.tok[req.dst] + handed + TOKEN_ACCOUNT_RENT)
      BY <1>4, <2>2 DEF UserPaid
    <3>2. book.tok[req.dst] >= committed.tok[req.dst] + (IF DestinationSa(req) = None THEN out ELSE 0)
      BY <1>1, <1>3, <1>7, <3>1, SettlementFacts
    <3>3. book.tok[req.dst] + handed >= committed.tok[req.dst] + out
      BY <1>2, <1>3, <3>2
    <3>4. ReceivedInSol' = out + TOKEN_ACCOUNT_RENT + committed.tok[req.dst]
      BY <1>6, <3>1
    <3> HIDE DEF handed
    <3> QED
      BY <1>2, <1>3, <1>6, <2>1, <3>1, <3>3, <3>4
  <2>3. CASE ~ClosesForUser
    <3>1. req.dst \notin book'.closed /\ UserWallets(book') = UserWallets(book)
      BY <1>2, <1>3, <1>4, <2>3 DEF UserPaid
    <3> QED
      BY <1>2, <1>6, <2>1, <3>1
  <2> QED
    BY <2>2, <2>3
<1>8. ASSUME NoGainAsked
      PROVE  /\ SourceSa(req) # None =>
                  book'.tok[SourceSa(req)] <= committed.tok[SourceSa(req)] + Unspent(SourceSa(req))
             /\ OutputPurse(book') <= OutputPurse(committed) + Owed' + KeptByVault'
  <2>1. req.dst \notin SaAccounts
    BY <1>8 DEF NoGainAsked
  <2>2. /\ SourceSa(req) # None =>
             /\ SourceSa(req) # DestinationSa(req)
             /\ book.tok[SourceSa(req)] <= committed.tok[SourceSa(req)] + Unspent(SourceSa(req))
        /\ ~Doomed => OutputPurse(book) <= OutputPurse(committed) + Owed + KeptByVault
    BY <1>1, <1>8, SettlementFacts
  <2>3. ~Doomed /\ Owed = handed - Advanced /\ KeptByVault = 0
    BY <1>1, <1>3 DEF Doomed, Owed, KeptByVault, handed
  <2>4. /\ OutputPurse(book') = OutputPurse(book) - handed
        /\ SourceSa(req) # None => book'.tok[SourceSa(req)] = book.tok[SourceSa(req)]
    BY <1>4, <2>1, <2>2 DEF UserPaid
  <2> HIDE DEF handed
  <2> QED
    BY <1>2, <1>3, <1>6, <2>2, <2>3, <2>4
<1>9. UserCovered' /\ NothingLeft'
  BY <1>1, <1>3, <1>7, <1>8, SettleStep
<1> QED
  BY <1>5, <1>9

(* Fees, or trim, out of the output purse, after unwrapping or without.    *)
VaultPaid(unwraps, from, to1, to2, x) ==
  LET handed == IF DestinationSa(req) = None THEN 0 ELSE out
      gone == book.tok[req.dst] + TOKEN_ACCOUNT_RENT
  IN  /\ book' \in Books
      /\ book'.closed = book.closed \cup (IF unwraps THEN {req.dst} ELSE {})
      /\ from = None => x = 0
      /\ UserWallets(book') \in Int
      /\ UserWallets(book') >= UserWallets(book)
           + (IF unwraps /\ req.receiver = SaAuthority THEN gone + handed ELSE 0)
           - (IF from = SaAuthority /\ req.receiver = SaAuthority THEN x ELSE 0)
      /\ ~unwraps /\ req.dst \notin SaAccounts
           => book'.tok[req.dst] >= book.tok[req.dst]
      /\ /\ {to1, to2} \cap (SaAccounts \cup {SaAuthority}) = {}
         /\ req.dst \notin {to1, to2} \cup SaAccounts
         => /\ OutputPurse(book') = OutputPurse(book) + (IF unwraps THEN gone ELSE 0) - x
            /\ SourceSa(req) # None /\ SourceSa(req) # DestinationSa(req)
                 => book'.tok[SourceSa(req)] = book.tok[SourceSa(req)]
            /\ ~unwraps => book'.tok[req.dst] = book.tok[req.dst]

LEMMA VaultPays ==
  ASSUME book \in Books, req \in Requests, out \in Nat, NEW unwraps \in BOOLEAN,
         unwraps => Unwrappable /\ req.dst \notin book.closed,
         NEW from \in {SaAuthority, DestinationSa(req)},
         NEW to1, NEW x1 \in Nat, NEW to2, NEW x2 \in Nat,
         FeesPayable(IF unwraps THEN Unwrap ELSE book, from, to1, x1, to2, x2),
         book' = PayFees(IF unwraps THEN Unwrap ELSE book, from, to1, x1, to2, x2)
  PROVE  VaultPaid(unwraps, from, to1, to2, x1 + x2)
<1> DEFINE b == IF unwraps THEN Unwrap ELSE book
           handed == IF DestinationSa(req) = None THEN 0 ELSE out
           gone == book.tok[req.dst] + TOKEN_ACCOUNT_RENT
           x == x1 + x2
<1>1. /\ req.dst \in TokenAccounts /\ TOKEN_ACCOUNT_RENT \in Nat
      /\ MIN_SOL_ACCOUNT_RENT \in Nat
      /\ None \notin TokenAccounts /\ None \notin SolAccounts /\ SaAuthority \in SolAccounts
      /\ DestinationSa(req) = None \/ (DestinationSa(req) \in TokenAccounts /\ DestinationSa(req) \in SaAccounts)
      /\ SourceSa(req) = None \/ (SourceSa(req) \in TokenAccounts /\ SourceSa(req) \in SaAccounts)
      /\ TokenAccounts \cap SolAccounts = {}
      /\ book.tok \in [TokenAccounts -> Nat]
      /\ UserWallets(book) \in Int /\ OutputPurse(book) \in Int
  BY RequestFacts, V3BoundsAssumption, V3AccountsAssumption, WalletsNumber, PurseNumber
     DEF SaAccounts, Books
<1>2. gone \in Nat /\ handed \in Nat /\ x \in Nat
  BY <1>1
<1>3. /\ b \in Books
      /\ b.closed = book.closed \cup (IF unwraps THEN {req.dst} ELSE {})
      /\ UserWallets(b) = UserWallets(book)
           + (IF unwraps /\ req.receiver = SaAuthority THEN gone + handed ELSE 0)
      /\ OutputPurse(b) = OutputPurse(book) + (IF unwraps THEN gone ELSE 0)
      /\ SourceSa(req) # None /\ SourceSa(req) # DestinationSa(req) => b.tok[SourceSa(req)] = book.tok[SourceSa(req)]
      /\ ~unwraps => b = book
  <2>1. CASE unwraps
    <3>1. /\ Unwrap \in Books /\ Unwrap.closed = book.closed \cup {req.dst}
          /\ UserWallets(Unwrap) = UserWallets(book)
               + (IF req.receiver = SaAuthority THEN gone + handed ELSE 0)
          /\ OutputPurse(Unwrap) = OutputPurse(book) + gone
          /\ SourceSa(req) # None /\ SourceSa(req) # DestinationSa(req)
               => Unwrap.tok[SourceSa(req)] = book.tok[SourceSa(req)]
      BY <2>1, UnwrapMoves
    <3>2. b = Unwrap
      BY <2>1
    <3> HIDE DEF b, gone, handed
    <3> QED
      BY <2>1, <3>1, <3>2
  <2>2. CASE ~unwraps
    BY <1>1, <2>2
  <2> QED
    BY <2>1, <2>2
<1>4. FeePass(b, book', from, {to1, to2}, x, 2 * MIN_SOL_ACCOUNT_RENT)
  <2>1. b \in Books /\ FeesPayable(b, from, to1, x1, to2, x2)
        /\ book' = PayFees(b, from, to1, x1, to2, x2)
    BY <1>3
  <2> HIDE DEF b
  <2> QED
    BY <2>1, FeesPass
<1>5. FeeEffect(b, book', from, x) /\ (from = None => x = 0)
  <2>1. b \in Books /\ FeesPayable(b, from, to1, x1, to2, x2)
        /\ book' = PayFees(b, from, to1, x1, to2, x2)
    BY <1>3
  <2> HIDE DEF b
  <2>2. FeeEffect(b, book', from, x)
    BY <2>1, PayFeesEffect
  <2>3. from = None => x = 0
    BY <2>1, FeesKeep
  <2> QED
    BY <2>2, <2>3
<1> HIDE DEF b, gone, handed, x
<1>6. /\ book' \in Books /\ book'.closed = b.closed
      /\ book'.tok \in [TokenAccounts -> Nat] /\ b.tok \in [TokenAccounts -> Nat]
  BY <1>3, <1>4 DEF FeePass, Books
<1>7. /\ UserWallets(book') \in Int
      /\ UserWallets(book') >= UserWallets(b)
           - (IF from = SaAuthority /\ req.receiver = SaAuthority THEN x ELSE 0)
  <2>1. /\ from \in {Payer, SaAuthority, None} \cup TokenAccounts
        /\ from # Payer
    BY <1>1, RequestFacts, V3AccountsAssumption
  <2>2. 2 * MIN_SOL_ACCOUNT_RENT \in Nat
    BY <1>1
  <2>3. /\ UserWallets(book') \in Int /\ UserWallets(b) \in Int
        /\ UserWallets(book') >= UserWallets(b)
             - (IF from = Payer /\ x > 0 THEN x + 2 * MIN_SOL_ACCOUNT_RENT ELSE 0)
             - (IF from = SaAuthority /\ req.receiver = SaAuthority THEN x ELSE 0)
    BY <1>2, <1>3, <1>4, <2>1, <2>2, FeeOnWallets
  <2> QED
    BY <1>2, <2>1, <2>3
<1>8. ~unwraps /\ req.dst \notin SaAccounts => book'.tok[req.dst] >= book.tok[req.dst]
  <2>1. book'.tok[req.dst] >= b.tok[req.dst] - (IF req.dst = from THEN x ELSE 0)
    BY <1>1, <1>5 DEF FeeEffect
  <2>2. req.dst \notin SaAccounts => req.dst # from
    BY <1>1
  <2> QED
    BY <1>1, <1>3, <1>6, <2>1, <2>2
<1>9. ASSUME {to1, to2} \cap (SaAccounts \cup {SaAuthority}) = {},
             req.dst \notin {to1, to2} \cup SaAccounts
      PROVE  /\ OutputPurse(book') = OutputPurse(book) + (IF unwraps THEN gone ELSE 0) - x
             /\ SourceSa(req) # None /\ SourceSa(req) # DestinationSa(req)
                  => book'.tok[SourceSa(req)] = book.tok[SourceSa(req)]
             /\ ~unwraps => book'.tok[req.dst] = book.tok[req.dst]
  <2>1. OutputPurse(book') = OutputPurse(b) - x
    <3>1. /\ OutputPurse(book') \in Int /\ OutputPurse(b) \in Int
          /\ from # None =>
               OutputPurse(book') = OutputPurse(b)
                                    - (IF from \in {SaAuthority, DestinationSa(req)} THEN x ELSE 0)
          /\ from = None /\ x = 0 => OutputPurse(book') = OutputPurse(b)
      BY <1>2, <1>3, <1>4, <1>9, FeeOnPurse
    <3> QED
      BY <1>5, <3>1
  <2>2. ASSUME SourceSa(req) # None, SourceSa(req) # DestinationSa(req)
        PROVE  book'.tok[SourceSa(req)] = book.tok[SourceSa(req)]
    <3>1. SourceSa(req) \in TokenAccounts \ {to1, to2} /\ SourceSa(req) # from
      BY <1>1, <1>9, <2>2
    <3>2. book'.tok[SourceSa(req)] = b.tok[SourceSa(req)] - 0
      BY <1>4, <3>1 DEF FeePass
    <3> QED
      BY <1>3, <1>6, <2>2, <3>1, <3>2
  <2>3. ASSUME ~unwraps PROVE book'.tok[req.dst] = book.tok[req.dst]
    <3>1. req.dst \in TokenAccounts \ {to1, to2} /\ req.dst # from
      BY <1>1, <1>9
    <3>2. book'.tok[req.dst] = b.tok[req.dst] - 0
      BY <1>4, <3>1 DEF FeePass
    <3> QED
      BY <1>1, <1>3, <2>3, <3>2
  <2> QED
    BY <1>1, <1>2, <1>3, <2>1, <2>2, <2>3
<1>10. UserWallets(book') >= UserWallets(book)
         + (IF unwraps /\ req.receiver = SaAuthority THEN gone + handed ELSE 0)
         - (IF from = SaAuthority /\ req.receiver = SaAuthority THEN x ELSE 0)
  <2> DEFINE y == IF unwraps /\ req.receiver = SaAuthority THEN gone + handed ELSE 0
             z == IF from = SaAuthority /\ req.receiver = SaAuthority THEN x ELSE 0
  <2>1. UserWallets(b) = UserWallets(book) + y /\ UserWallets(book') >= UserWallets(b) - z
    BY <1>3, <1>7
  <2>2. y \in Int /\ z \in Int
    BY <1>2
  <2> HIDE DEF y, z
  <2>3. UserWallets(book') >= UserWallets(book) + y - z
    BY <1>1, <1>7, <2>1, <2>2
  <2> QED
    BY <2>3 DEF y, z
<1> QED
  BY <1>3, <1>5, <1>6, <1>7, <1>8, <1>9, <1>10 DEF VaultPaid, gone, handed, x

LEMMA TransferToFeesSettles ==
  ASSUME SettlementInv, TransferToFees
  PROVE  SettlingInv' /\ UserCovered' /\ NothingLeft'
<1> DEFINE from == IF unwrapped' THEN SaAuthority ELSE DestinationSa(req)
           handed == IF DestinationSa(req) = None THEN 0 ELSE out
           before == IF DestinationSa(req) = None THEN out ELSE 0
           above == IF ThroughDestination(req) THEN 0 ELSE out
           gone == book.tok[req.dst] + TOKEN_ACCOUNT_RENT
           b == IF unwrapped' THEN Unwrap ELSE book
<1>1. /\ pc = "after" /\ pc' = "trim" /\ RatesAllowed /\ req.toB
      /\ unwrapped' \in BOOLEAN /\ (unwrapped' => Unwrappable)
      /\ FeesPayable(b, from, req.commissionAccount, ToCommission,
                     req.platformAccount, ToPlatformFee)
      /\ book' = PayFees(b, from, req.commissionAccount, ToCommission,
                         req.platformAccount, ToPlatformFee)
      /\ UNCHANGED <<committed, req, spent, out, commits>>
  BY DEF TransferToFees
<1>2. /\ IInv /\ book \in Books /\ req \in Requests /\ req.dst \in TokenAccounts
      /\ book.tok[req.dst] \in Nat /\ committed.tok[req.dst] \in Nat
      /\ UserWallets(book) \in Int /\ UserWallets(committed) \in Int
      /\ OutputPurse(book) \in Int /\ OutputPurse(committed) \in Int
      /\ SolSpent \in Nat
      /\ SolSpentSoFar = IF req.onFrom THEN SolSpent ELSE 0
      /\ req.minReturn > 0 /\ req.dst \notin committed.closed
  BY <1>1, SettlementFacts
<1>3. /\ out \in Nat /\ TOKEN_ACCOUNT_RENT \in Nat /\ unwrapped = FALSE
      /\ ToFee \in 0..out /\ ToCommission \in Nat /\ ToPlatformFee \in Nat
      /\ ToCommission + ToPlatformFee = ToFee
      /\ req.dst \notin book.closed
      /\ handed \in Nat /\ before \in Nat /\ handed + before = out
      /\ gone \in Nat /\ above \in Nat
      /\ Advanced \in Nat /\ handed - Advanced + above = out
      /\ DestinationSa(req) = None => Advanced = 0
  BY <1>1, <1>2, SettlingFacts, WholeOutput
<1>4. /\ book'.closed = book.closed \cup (IF unwrapped' THEN {req.dst} ELSE {})
      /\ from = None => ToFee = 0
      /\ UserWallets(book') \in Int
      /\ UserWallets(book') >= UserWallets(book)
           + (IF unwrapped' /\ req.receiver = SaAuthority THEN gone + handed ELSE 0)
           - (IF from = SaAuthority /\ req.receiver = SaAuthority THEN ToFee ELSE 0)
      /\ ~unwrapped' /\ req.dst \notin SaAccounts => book'.tok[req.dst] >= book.tok[req.dst]
      /\ /\ {req.commissionAccount, req.platformAccount}
              \cap (SaAccounts \cup {SaAuthority}) = {}
         /\ req.dst \notin {req.commissionAccount, req.platformAccount} \cup SaAccounts
         => /\ OutputPurse(book') = OutputPurse(book)
                                    + (IF unwrapped' THEN gone ELSE 0) - ToFee
            /\ SourceSa(req) # None /\ SourceSa(req) # DestinationSa(req)
                 => book'.tok[SourceSa(req)] = book.tok[SourceSa(req)]
            /\ ~unwrapped' => book'.tok[req.dst] = book.tok[req.dst]
  <2>1. from \in {SaAuthority, DestinationSa(req)}
    OBVIOUS
  <2>2. VaultPaid(unwrapped', from, req.commissionAccount, req.platformAccount, ToFee)
    <3> HIDE DEF from, handed, before, gone
    <3>1. VaultPaid(unwrapped', from, req.commissionAccount, req.platformAccount,
                    ToCommission + ToPlatformFee)
      BY <1>1, <1>2, <1>3, <2>1, VaultPays
    <3> QED
      BY <1>3, <3>1
  <2> HIDE DEF from
  <2> QED
    BY <2>2 DEF VaultPaid
<1>5. SaAuthority # None /\ (DestinationSa(req) = None \/ DestinationSa(req) # SaAuthority)
  BY <1>2, RequestFacts, V3AccountsAssumption DEF SaAccounts
<1>6. SettlingInv'
  <2>1. req.dst \in book'.closed => MintOf[req.dst] = Wsol /\ OwnerOf[req.dst] = Payer
    BY <1>1, <1>3, <1>4 DEF Unwrappable
  <2>2. unwrapped' => req.dst \in book'.closed
    BY <1>4
  <2>3. ~unwrapped' /\ DestinationSa(req) = None => ToFee = 0
    BY <1>4
  <2>4. ToFee' = ToFee
    BY <1>1, SameAmounts
  <2> QED
    BY <1>1, <1>2, <2>1, <2>2, <2>3, <2>4 DEF SettlingInv
<1>7. /\ ReceivedInDst' = before
      /\ ReceivedInSol' = IF unwrapped' /\ req.receiver = SaAuthority
                          THEN committed.tok[req.dst] + Owed' ELSE 0
      /\ SolSpentSoFar' = SolSpentSoFar
      /\ KeptByVault' = IF unwrapped' THEN committed.tok[req.dst] ELSE 0
      /\ Owed' = IF unwrapped' THEN out - ToFee + TOKEN_ACCOUNT_RENT
                 ELSE (IF DestinationSa(req) = None THEN 0 ELSE out - ToFee) - Advanced
  <2>1. Advanced' = IF unwrapped' THEN 0 ELSE Advanced
    BY <1>1, <1>3, AmountsBeforeCheck DEF Advanced
  <2> QED
    BY <1>1, <1>3, <2>1, AmountsBeforeCheck
<1> HIDE DEF b
<1>8. ASSUME req.src # req.dst, req.dst \notin book'.closed \cup SaAccounts
      PROVE  book'.tok[req.dst] >= committed.tok[req.dst] + ReceivedInDst'
  <2>1. ~unwrapped'
    BY <1>4, <1>8
  <2>2. book.tok[req.dst] >= committed.tok[req.dst] + before
    BY <1>1, <1>3, <1>8, SettlementFacts
  <2>3. book'.tok[req.dst] >= book.tok[req.dst]
    BY <1>4, <1>8, <2>1
  <2>4. book'.tok[req.dst] \in Int
    <3>1. book' \in Books
      BY <1>1, TransferToFeesIInv, <1>2 DEF IInv, TypeOK
    <3> QED
      BY <1>2, <3>1 DEF Books
  <2> HIDE DEF before
  <2> QED
    BY <1>2, <1>3, <1>7, <2>2, <2>3, <2>4
<1>9. ASSUME req.src # req.dst
      PROVE  UserWallets(book') >= UserWallets(committed) + ReceivedInSol' - SolSpentSoFar'
  <2>1. UserWallets(book) >= UserWallets(committed) - SolSpentSoFar
    <3>1. ReceivedInSol = 0 /\ ~Doomed
      BY <1>1 DEF ReceivedInSol, Doomed
    <3>2. UserWallets(book) >= UserWallets(committed) + ReceivedInSol - SolSpentSoFar
      BY <1>1, <1>9, <3>1, SettlementFacts
    <3> QED
      BY <1>2, <3>1, <3>2
  <2>2. CASE unwrapped' /\ req.receiver = SaAuthority
    <3>1. /\ req.dst \notin book.closed /\ req.dst \notin SaAccounts
      BY <1>1, <1>3, <2>2, RequestFacts, <1>2 DEF Unwrappable, SaAccounts
    <3>2. book.tok[req.dst] >= committed.tok[req.dst] + before
      BY <1>1, <1>3, <1>9, <3>1, SettlementFacts
    <3>3. UserWallets(book') >= UserWallets(book) + (gone + handed) - ToFee
      BY <1>4, <2>2
    <3>4. ReceivedInSol' = committed.tok[req.dst] + (out - ToFee + TOKEN_ACCOUNT_RENT)
      BY <1>7, <2>2
    <3>5. gone + handed >= committed.tok[req.dst] + out + TOKEN_ACCOUNT_RENT
      <4> HIDE DEF handed, before
      <4> QED
        BY <1>2, <1>3, <3>2
    <3> HIDE DEF gone, handed, before
    <3> QED
      BY <1>2, <1>3, <1>4, <1>7, <2>1, <3>3, <3>4, <3>5
  <2>3. CASE ~(unwrapped' /\ req.receiver = SaAuthority)
    <3>1. UserWallets(book') >= UserWallets(book)
      <4>1. ~(from = SaAuthority /\ req.receiver = SaAuthority)
        BY <1>1, <1>2, <1>5, <2>3
      <4> HIDE DEF from, gone
      <4> QED
        BY <1>2, <1>4, <2>3, <4>1
    <3>2. ReceivedInSol' = 0
      BY <1>7, <2>3
    <3> QED
      BY <1>2, <1>4, <1>7, <2>1, <3>1, <3>2
  <2> QED
    BY <2>2, <2>3
<1>10. ASSUME NoGainAsked
       PROVE  /\ SourceSa(req) # None =>
                   book'.tok[SourceSa(req)] <= committed.tok[SourceSa(req)] + Unspent(SourceSa(req))
              /\ OutputPurse(book') <= OutputPurse(committed) + Owed' + KeptByVault'
              /\ ~unwrapped' => book'.tok[req.dst] <= committed.tok[req.dst] + above
  <2>1. /\ {req.commissionAccount, req.platformAccount}
             \cap (SaAccounts \cup {SaAuthority}) = {}
        /\ req.dst \notin {req.commissionAccount, req.platformAccount} \cup SaAccounts
    BY <1>10 DEF NoGainAsked
  <2>2. /\ SourceSa(req) # None =>
             /\ SourceSa(req) # DestinationSa(req)
             /\ book.tok[SourceSa(req)] <= committed.tok[SourceSa(req)] + Unspent(SourceSa(req))
        /\ ~Doomed => OutputPurse(book) <= OutputPurse(committed) + Owed + KeptByVault
        /\ Wrapped => book.tok[req.dst] <= committed.tok[req.dst] + above
    BY <1>1, <1>10, SettlementFacts
  <2>3. ~Doomed /\ Owed = handed - Advanced /\ KeptByVault = 0 /\ Wrapped
    BY <1>1, <1>3 DEF Doomed, Owed, KeptByVault, handed, Wrapped
  <2>4. /\ OutputPurse(book') = OutputPurse(book) + (IF unwrapped' THEN gone ELSE 0) - ToFee
        /\ SourceSa(req) # None => book'.tok[SourceSa(req)] = book.tok[SourceSa(req)]
        /\ ~unwrapped' => book'.tok[req.dst] = book.tok[req.dst]
    BY <1>4, <2>1, <2>2
  <2>5. OutputPurse(book') <= OutputPurse(committed) + Owed' + KeptByVault'
    <3>1. CASE unwrapped'
      <4> HIDE DEF handed, above
      <4> QED
        BY <1>2, <1>3, <1>7, <2>2, <2>3, <2>4, <3>1
    <3>2. CASE ~unwrapped'
      BY <1>2, <1>3, <1>4, <1>7, <2>2, <2>3, <2>4, <3>2
    <3> QED
      BY <3>1, <3>2
  <2> QED
    BY <2>2, <2>3, <2>4, <2>5
<1> HIDE DEF from, gone, handed
<1> QED
  BY <1>1, <1>6, <1>8, <1>9, <1>10, SettleStep

LEMMA TransferTrimSettles ==
  ASSUME SettlementInv, TransferTrim
  PROVE  SettlingInv' /\ UserCovered' /\ NothingLeft'
<1> DEFINE inSol == IsChargeSol(req.trimAccount, ChargeAccount, req.dst)
           from == IF inSol THEN SaAuthority ELSE DestinationSa(req)
           handed == IF DestinationSa(req) = None THEN 0 ELSE out
           before == IF DestinationSa(req) = None THEN out ELSE 0
           above == IF ThroughDestination(req) THEN 0 ELSE out
           gone == book.tok[req.dst] + TOKEN_ACCOUNT_RENT
           b == IF UnwrapsForTrim THEN Unwrap ELSE book
<1>1. /\ pc = "trim" /\ pc' = "user" /\ TrimAndCharge > 0
      /\ UnwrapsForTrim => Unwrappable
      /\ FeesPayable(b, from, req.trimAccount, TrimAmount, ChargeAccount, ChargeAmount)
      /\ book' = PayFees(b, from, req.trimAccount, TrimAmount, ChargeAccount, ChargeAmount)
      /\ unwrapped' = inSol
      /\ UNCHANGED <<committed, req, spent, out, commits>>
  BY DEF TransferTrim
<1>2. /\ IInv /\ book \in Books /\ req \in Requests /\ req.dst \in TokenAccounts
      /\ book.tok[req.dst] \in Nat /\ committed.tok[req.dst] \in Nat
      /\ UserWallets(book) \in Int /\ UserWallets(committed) \in Int
      /\ OutputPurse(book) \in Int /\ OutputPurse(committed) \in Int
      /\ SolSpent \in Nat
      /\ SolSpentSoFar = IF req.onFrom THEN SolSpent ELSE 0
      /\ req.minReturn > 0 /\ req.dst \notin committed.closed
      /\ req.toB /\ (unwrapped => req.dst \in book.closed)
      /\ req.dst \in book.closed => MintOf[req.dst] = Wsol /\ OwnerOf[req.dst] = Payer
      /\ ~unwrapped /\ DestinationSa(req) = None => ToFee = 0
  BY <1>1, SettlementFacts
<1>3. RatesAllowed
  BY <1>1, <1>2 DEF IInv, HandlerInv
<1>4. /\ out \in Nat /\ TOKEN_ACCOUNT_RENT \in Nat /\ unwrapped \in BOOLEAN
      /\ ToFee \in 0..out /\ TrimAndCharge \in 0..(out - ToFee)
      /\ ActualOut = out - ToFee - TrimAndCharge
      /\ TrimAmount \in Nat /\ ChargeAmount \in Nat
      /\ TrimAmount + ChargeAmount = TrimAndCharge
      /\ ~unwrapped => req.dst \notin book.closed
      /\ handed \in Nat /\ before \in Nat /\ handed + before = out
      /\ gone \in Nat /\ above \in Nat
      /\ Advanced \in Nat /\ (unwrapped => Advanced = 0)
      /\ ~unwrapped => handed - Advanced + above = out
      /\ DestinationSa(req) = None => Advanced = 0
  BY <1>1, <1>2, <1>3, SettlingFacts, WholeOutput
<1>5. UnwrapsForTrim = (inSol /\ ~unwrapped) /\ inSol \in BOOLEAN
      /\ UnwrapsForTrim \in BOOLEAN
  BY DEF UnwrapsForTrim, IsChargeSol
<1>6. VaultPaid(UnwrapsForTrim, from, req.trimAccount, ChargeAccount, TrimAndCharge)
  <2>1. from \in {SaAuthority, DestinationSa(req)}
    OBVIOUS
  <2> HIDE DEF from, handed, before, above, gone, inSol
  <2>2. VaultPaid(UnwrapsForTrim, from, req.trimAccount, ChargeAccount,
                  TrimAmount + ChargeAmount)
    BY <1>1, <1>2, <1>4, <1>5, <2>1, VaultPays
  <2> QED
    BY <1>4, <2>2
<1> HIDE DEF b, inSol
<1>7. /\ book' \in Books
      /\ book'.closed = book.closed \cup (IF UnwrapsForTrim THEN {req.dst} ELSE {})
      /\ from # None
      /\ UserWallets(book') \in Int
      /\ UserWallets(book') >= UserWallets(book)
           + (IF UnwrapsForTrim /\ req.receiver = SaAuthority THEN gone + handed ELSE 0)
           - (IF from = SaAuthority /\ req.receiver = SaAuthority THEN TrimAndCharge ELSE 0)
      /\ ~UnwrapsForTrim /\ req.dst \notin SaAccounts
           => book'.tok[req.dst] >= book.tok[req.dst]
  <2> HIDE DEF from
  <2> QED
    BY <1>1, <1>4, <1>6 DEF VaultPaid
<1>8. /\ {req.trimAccount, ChargeAccount} \cap (SaAccounts \cup {SaAuthority}) = {}
      /\ req.dst \notin {req.trimAccount, ChargeAccount} \cup SaAccounts
      => /\ OutputPurse(book') = OutputPurse(book)
                                 + (IF UnwrapsForTrim THEN gone ELSE 0) - TrimAndCharge
         /\ SourceSa(req) # None /\ SourceSa(req) # DestinationSa(req)
              => book'.tok[SourceSa(req)] = book.tok[SourceSa(req)]
  BY <1>6 DEF VaultPaid
<1>9. SaAuthority # None /\ (DestinationSa(req) = None \/ DestinationSa(req) # SaAuthority)
      /\ None \notin SaAccounts
  BY <1>2, RequestFacts, V3AccountsAssumption DEF SaAccounts
<1>10. SettlingInv'
  <2>1. req.dst \in book'.closed => MintOf[req.dst] = Wsol /\ OwnerOf[req.dst] = Payer
    BY <1>1, <1>2, <1>7 DEF Unwrappable
  <2>2. unwrapped' => req.dst \in book'.closed
    BY <1>1, <1>2, <1>5, <1>7
  <2>3. TrimAndCharge' = TrimAndCharge
    BY <1>1, SameAmounts
  <2> QED
    BY <1>1, <1>2, <1>4, <2>1, <2>2, <2>3 DEF SettlingInv
<1>11. /\ ReceivedInDst' = before
       /\ ReceivedInSol' = IF inSol /\ req.receiver = SaAuthority
                           THEN committed.tok[req.dst] + Owed' ELSE 0
       /\ SolSpentSoFar' = SolSpentSoFar
       /\ KeptByVault' = IF inSol THEN committed.tok[req.dst] ELSE 0
       /\ Owed' = IF inSol THEN ActualOut + TOKEN_ACCOUNT_RENT
                  ELSE (IF DestinationSa(req) = None THEN 0 ELSE ActualOut) - Advanced'
       /\ ~inSol /\ ~unwrapped => Advanced' = Advanced
       /\ Doomed' <=> (req.dst \in book'.closed /\ ~inSol)
  <2> HIDE DEF from, handed, before, above, gone
  <2>1. /\ ReceivedInDst' = IF DestinationSa(req) = None THEN out ELSE 0
        /\ ReceivedInSol' = IF unwrapped' /\ req.receiver = SaAuthority
                            THEN committed.tok[req.dst] + Owed' ELSE 0
        /\ SolSpentSoFar' = SolSpentSoFar
        /\ KeptByVault' = IF unwrapped' THEN committed.tok[req.dst] ELSE 0
        /\ Owed' = (IF unwrapped' THEN UserSol
                    ELSE IF DestinationSa(req) = None THEN 0 ELSE ActualOut) - Advanced'
        /\ Advanced' = IF Unserved(req) /\ ~unwrapped' THEN out ELSE 0
        /\ Doomed' <=> (req.dst \in book'.closed /\ ~unwrapped')
    BY <1>1, AmountsBeforeCheck
  <2>2. UserSol \in Int /\ UserSol = ActualOut + TOKEN_ACCOUNT_RENT
    BY <1>4 DEF UserSol
  <2>3. inSol => Advanced' = 0
    BY <1>1, <2>1
  <2>4. ~inSol /\ ~unwrapped => Advanced' = Advanced
    BY <1>1, <2>1 DEF Advanced
  <2>5. inSol => Owed' = UserSol - 0
    BY <1>1, <2>1, <2>3
  <2>6. before = IF DestinationSa(req) = None THEN out ELSE 0
    BY DEF before
  <2> QED
    BY <1>1, <2>1, <2>2, <2>4, <2>5, <2>6
<1>12. /\ Owed = (IF unwrapped THEN out - ToFee + TOKEN_ACCOUNT_RENT
                  ELSE IF DestinationSa(req) = None THEN 0 ELSE out - ToFee) - Advanced
       /\ KeptByVault = IF unwrapped THEN committed.tok[req.dst] ELSE 0
       /\ ReceivedInSol = IF unwrapped /\ req.receiver = SaAuthority
                          THEN committed.tok[req.dst] + Owed ELSE 0
       /\ ~Doomed
  <2> HIDE DEF from, handed, before, above, gone
  <2>1. Owed = (IF unwrapped THEN out - ToFee + TOKEN_ACCOUNT_RENT
                ELSE IF DestinationSa(req) = None THEN 0 ELSE out - ToFee) - Advanced
    BY <1>1 DEF Owed
  <2>2. ReceivedInSol = IF unwrapped /\ req.receiver = SaAuthority
                        THEN committed.tok[req.dst] + Owed ELSE 0
    BY <1>1 DEF ReceivedInSol
  <2> QED
    BY <1>1, <2>1, <2>2 DEF KeptByVault, Doomed
<1>13. ASSUME req.src # req.dst, req.dst \notin book'.closed \cup SaAccounts
       PROVE  book'.tok[req.dst] >= committed.tok[req.dst] + ReceivedInDst'
  <2>1. ~UnwrapsForTrim /\ req.dst \notin book.closed
    BY <1>7, <1>13
  <2>2. book.tok[req.dst] >= committed.tok[req.dst] + before
    BY <1>1, <1>13, <2>1, SettlementFacts
  <2>3. book'.tok[req.dst] >= book.tok[req.dst] /\ book'.tok[req.dst] \in Int
    BY <1>2, <1>7, <1>13, <2>1 DEF Books
  <2> HIDE DEF before
  <2> QED
    BY <1>2, <1>4, <1>11, <2>2, <2>3
<1>14. ASSUME req.src # req.dst, ~Doomed'
       PROVE  UserWallets(book') >= UserWallets(committed) + ReceivedInSol' - SolSpentSoFar'
  <2>1. UserWallets(book) >= UserWallets(committed) + ReceivedInSol - SolSpentSoFar
    BY <1>1, <1>12, <1>14, SettlementFacts
  <2>2. CASE inSol /\ req.receiver = SaAuthority
    <3>1. from = SaAuthority
      BY <2>2 DEF from
    <3>2. ReceivedInSol' = committed.tok[req.dst] + (ActualOut + TOKEN_ACCOUNT_RENT)
      BY <1>11, <2>2
    <3>3. CASE unwrapped
      <4>1. UserWallets(book') >= UserWallets(book) + 0 - TrimAndCharge
        BY <1>5, <1>7, <2>2, <3>1, <3>3
      <4>2. ReceivedInSol = committed.tok[req.dst] + (out - ToFee + TOKEN_ACCOUNT_RENT)
        BY <1>4, <1>12, <2>2, <3>3
      <4> QED
        BY <1>2, <1>4, <1>7, <1>11, <2>1, <3>2, <4>1, <4>2
    <3>4. CASE ~unwrapped
      <4>1. UserWallets(book') >= UserWallets(book) + (gone + handed) - TrimAndCharge
        BY <1>5, <1>7, <2>2, <3>1, <3>4
      <4>2. ReceivedInSol = 0
        BY <1>12, <3>4
      <4>3. UnwrapsForTrim
        BY <1>5, <2>2, <3>4
      <4>4. /\ req.dst \notin book.closed /\ req.dst \notin SaAccounts
        BY <1>1, <1>2, <1>4, <3>4, <4>3, RequestFacts DEF Unwrappable, SaAccounts
      <4>5. book.tok[req.dst] >= committed.tok[req.dst] + before
        BY <1>1, <1>14, <4>4, SettlementFacts
      <4> HIDE DEF handed, before
      <4> QED
        BY <1>2, <1>4, <1>7, <1>11, <2>1, <3>2, <4>1, <4>2, <4>5
    <3> QED
      BY <1>4, <3>3, <3>4
  <2>3. CASE inSol /\ req.receiver # SaAuthority
    <3>1. ReceivedInSol' = 0 /\ ReceivedInSol = 0
      BY <1>11, <1>12, <2>3
    <3>2. UserWallets(book') >= UserWallets(book) + 0 - 0
      BY <1>7, <2>3
    <3> QED
      BY <1>2, <1>7, <1>11, <2>1, <3>1, <3>2
  <2>4. CASE ~inSol
    <3>1. ~unwrapped
      BY <1>2, <1>7, <1>11, <1>14, <2>4
    <3>2. ReceivedInSol' = 0 /\ ReceivedInSol = 0
      BY <1>11, <1>12, <2>4, <3>1
    <3>3. from # SaAuthority /\ ~UnwrapsForTrim
      BY <1>5, <1>7, <1>9, <2>4 DEF from
    <3>4. UserWallets(book') >= UserWallets(book) + 0 - 0
      BY <1>7, <3>3
    <3> QED
      BY <1>2, <1>7, <1>11, <2>1, <3>2, <3>4
  <2> QED
    BY <2>2, <2>3, <2>4
<1>15. ASSUME NoGainAsked
       PROVE  /\ SourceSa(req) # None =>
                   book'.tok[SourceSa(req)] <= committed.tok[SourceSa(req)] + Unspent(SourceSa(req))
              /\ ~Doomed' =>
                   OutputPurse(book') <= OutputPurse(committed) + Owed' + KeptByVault'
  <2>1. ChargeAccount \in {req.chargeAccount, None}
    BY DEF ChargeAccount
  <2>2. /\ {req.trimAccount, ChargeAccount} \cap (SaAccounts \cup {SaAuthority}) = {}
        /\ req.dst \notin {req.trimAccount, ChargeAccount} \cup SaAccounts
    BY <1>2, <1>9, <1>15, <2>1, RequestFacts DEF NoGainAsked
  <2>3. /\ SourceSa(req) # None =>
             /\ SourceSa(req) # DestinationSa(req)
             /\ book.tok[SourceSa(req)] <= committed.tok[SourceSa(req)] + Unspent(SourceSa(req))
        /\ ~Doomed => OutputPurse(book) <= OutputPurse(committed) + Owed + KeptByVault
        /\ Wrapped => book.tok[req.dst] <= committed.tok[req.dst] + above
    BY <1>1, <1>15, SettlementFacts
  <2>4. /\ OutputPurse(book') = OutputPurse(book)
                                + (IF UnwrapsForTrim THEN gone ELSE 0) - TrimAndCharge
        /\ SourceSa(req) # None => book'.tok[SourceSa(req)] = book.tok[SourceSa(req)]
    BY <1>8, <2>2, <2>3
  <2>5. ASSUME ~Doomed'
        PROVE  OutputPurse(book') <= OutputPurse(committed) + Owed' + KeptByVault'
    <3>1. OutputPurse(book) <= OutputPurse(committed) + Owed + KeptByVault
      BY <1>12, <2>3
    <3>2. CASE inSol /\ unwrapped
      <4>1. OutputPurse(book') = OutputPurse(book) + 0 - TrimAndCharge
        BY <1>5, <2>4, <3>2
      <4> QED
        BY <1>2, <1>4, <1>11, <1>12, <3>1, <3>2, <4>1
    <3>3. CASE inSol /\ ~unwrapped
      <4>1. OutputPurse(book') = OutputPurse(book) + gone - TrimAndCharge
        BY <1>5, <2>4, <3>3
      <4>2. book.tok[req.dst] <= committed.tok[req.dst] + above
        BY <1>1, <2>3, <3>3 DEF Wrapped
      <4>3. Owed = (IF DestinationSa(req) = None THEN 0 ELSE out - ToFee) - Advanced
        BY <1>12, <3>3
      <4>4. Owed + above = out - ToFee
        <5>1. CASE DestinationSa(req) = None
          BY <1>2, <1>4, <3>3, <4>3, <5>1
        <5>2. CASE DestinationSa(req) # None
          BY <1>2, <1>4, <3>3, <4>3, <5>2
        <5> QED
          BY <5>1, <5>2
      <4>5. Owed \in Int
        BY <1>4, <4>3
      <4> HIDE DEF before, above
      <4> QED
        BY <1>2, <1>4, <1>11, <1>12, <3>1, <3>3, <4>1, <4>2, <4>4, <4>5
    <3>4. CASE ~inSol
      <4>1. ~unwrapped /\ ~UnwrapsForTrim
        BY <1>2, <1>5, <1>7, <1>11, <2>5, <3>4
      <4>2. OutputPurse(book') = OutputPurse(book) + 0 - TrimAndCharge
        BY <2>4, <4>1
      <4>3. DestinationSa(req) # None
        BY <1>7, <3>4
      <4> QED
        BY <1>2, <1>4, <1>11, <1>12, <3>1, <3>4, <4>1, <4>2, <4>3
    <3> QED
      BY <1>4, <3>2, <3>3, <3>4
  <2> QED
    BY <2>3, <2>4, <2>5
<1> HIDE DEF from, gone, handed, before, above
<1> QED
  BY <1>1, <1>10, <1>13, <1>14, <1>15, SettleStep

LEMMA NoTrimSettles ==
  ASSUME SettlementInv, NoTrim
  PROVE  SettlingInv' /\ UserCovered' /\ NothingLeft'
<1>1. /\ pc = "trim" /\ pc' = "user" /\ TrimAndCharge = 0
      /\ UNCHANGED <<book, committed, req, spent, out, unwrapped, commits>>
  BY DEF NoTrim
<1>2. /\ IInv /\ book \in Books /\ req \in Requests
      /\ req.minReturn > 0 /\ req.dst \notin committed.closed
      /\ req.toB /\ (unwrapped => req.dst \in book.closed)
      /\ req.dst \in book.closed => MintOf[req.dst] = Wsol /\ OwnerOf[req.dst] = Payer
  BY <1>1, SettlementFacts
<1>3. RatesAllowed
  BY <1>1, <1>2 DEF IInv, HandlerInv
<1>4. /\ out \in Nat /\ TOKEN_ACCOUNT_RENT \in Nat /\ ToFee \in 0..out
      /\ unwrapped \in BOOLEAN
      /\ ActualOut = out - ToFee
      /\ ~unwrapped => req.dst \notin book.closed
  BY <1>1, <1>2, <1>3, SettlingFacts
<1>5. SettlingInv'
  BY <1>1, <1>2, <1>4 DEF SettlingInv
<1>6. /\ ReceivedInDst' = IF DestinationSa(req) = None THEN out ELSE 0
      /\ ReceivedInSol' = IF unwrapped /\ req.receiver = SaAuthority
                          THEN committed.tok[req.dst] + Owed' ELSE 0
      /\ SolSpentSoFar' = SolSpentSoFar
      /\ KeptByVault' = IF unwrapped THEN committed.tok[req.dst] ELSE 0
      /\ Owed' = (IF unwrapped THEN out - ToFee + TOKEN_ACCOUNT_RENT
                  ELSE IF DestinationSa(req) = None THEN 0 ELSE out - ToFee) - Advanced'
      /\ Advanced' = Advanced
  <2>1. UserSol = out - ToFee + TOKEN_ACCOUNT_RENT
    BY <1>4 DEF UserSol
  <2>2. Advanced' = Advanced
    BY <1>1, AmountsBeforeCheck DEF Advanced
  <2> QED
    BY <1>1, <1>4, <2>1, <2>2, AmountsBeforeCheck
<1>7. /\ Owed = Owed' /\ KeptByVault = KeptByVault' /\ ReceivedInSol = ReceivedInSol'
      /\ ~Doomed
  <2>1. Owed = Owed'
    BY <1>1, <1>6 DEF Owed
  <2>2. ReceivedInSol = ReceivedInSol'
    BY <1>1, <1>6, <2>1 DEF ReceivedInSol
  <2> QED
    BY <1>1, <1>6, <2>1, <2>2 DEF KeptByVault, Doomed
<1> QED
  BY <1>1, <1>5, <1>6, <1>7, SettlementFacts, SettleStep

LEMMA TransferToUserSettles ==
  ASSUME SettlementInv, TransferToUser
  PROVE  SettlingInv' /\ UserCovered' /\ NothingLeft'
<1>1. /\ pc = "user" /\ pc' = "check"
      /\ UNCHANGED <<committed, req, spent, out, unwrapped, commits>>
  BY DEF TransferToUser
<1>2. /\ IInv /\ book \in Books /\ req \in Requests /\ req.dst \in TokenAccounts
      /\ book.tok[req.dst] \in Nat /\ committed.tok[req.dst] \in Nat
      /\ UserWallets(book) \in Int /\ UserWallets(committed) \in Int
      /\ OutputPurse(book) \in Int /\ OutputPurse(committed) \in Int
      /\ SolSpent \in Nat
      /\ SolSpentSoFar = IF req.onFrom THEN SolSpent ELSE 0
      /\ req.minReturn > 0 /\ req.dst \notin committed.closed
      /\ req.toB /\ (unwrapped => req.dst \in book.closed)
      /\ req.dst \in book.closed => MintOf[req.dst] = Wsol /\ OwnerOf[req.dst] = Payer
      /\ TrimAndCharge = 0 /\ ~unwrapped => req.dst \notin book.closed
  BY <1>1, SettlementFacts
<1>3. RatesAllowed
  BY <1>1, <1>2 DEF IInv, HandlerInv
<1>4. /\ out \in Nat /\ TOKEN_ACCOUNT_RENT \in Nat /\ unwrapped \in BOOLEAN
      /\ ActualOut \in Nat /\ TrimAndCharge \in Nat
      /\ Advanced \in Nat /\ (unwrapped => Advanced = 0)
  BY <1>1, <1>2, <1>3, SettlingFacts, WholeOutput
<1>5. /\ ReceivedInDst' = ActualOut - Withheld(req.dst, ActualOut)
      /\ ReceivedInSol' = IF req.dst \in book'.closed
                          THEN ActualOut + TOKEN_ACCOUNT_RENT + committed.tok[req.dst]
                               - KeptByVault
                          ELSE 0
      /\ SolSpentSoFar' = SolSpent /\ Owed' = 0 - Advanced /\ KeptByVault' = KeptByVault
      /\ Doomed' <=> (req.dst \in book'.closed /\ ~unwrapped /\ ActualOut = 0)
  BY <1>1, AmountsAtCheck
<1>6. /\ KeptByVault = IF unwrapped THEN committed.tok[req.dst] ELSE 0
      /\ Owed = (IF unwrapped THEN UserSol
                 ELSE IF DestinationSa(req) = None THEN 0 ELSE ActualOut) - Advanced
      /\ ReceivedInSol = IF unwrapped /\ req.receiver = SaAuthority
                         THEN committed.tok[req.dst] + Owed ELSE 0
      /\ Doomed <=> (req.dst \in book.closed /\ ~unwrapped)
  <2>1. Owed = (IF unwrapped THEN UserSol
                ELSE IF DestinationSa(req) = None THEN 0 ELSE ActualOut) - Advanced
    BY <1>1 DEF Owed
  <2>2. ReceivedInSol = IF unwrapped /\ req.receiver = SaAuthority
                        THEN committed.tok[req.dst] + Owed ELSE 0
    BY <1>1 DEF ReceivedInSol
  <2> QED
    BY <1>1, <2>1, <2>2 DEF KeptByVault, Doomed
<1>7. CASE unwrapped
  <2>1. /\ book.sol[SaAuthority] >= UserSol
        /\ book' = PaySol(book, SaAuthority, Payer, UserSol)
    BY <1>7 DEF TransferToUser
  <2>2. UserSol \in Nat /\ UserSol = ActualOut + TOKEN_ACCOUNT_RENT
    BY <1>4 DEF UserSol
  <2>3. /\ Payer \in SolAccounts /\ SaAuthority \in SolAccounts
        /\ Payer # SaAuthority
        /\ req.receiver \in SolAccounts \cup {None} /\ None \notin SolAccounts
        /\ DestinationSa(req) = None \/ DestinationSa(req) \in TokenAccounts
    BY <1>2, RequestFacts DEF SaAccounts
  <2>4. /\ book' \in Books /\ book'.tok = book.tok /\ book'.closed = book.closed
        /\ \A a \in SolAccounts :
             book'.sol[a] = book.sol[a] - (IF a = SaAuthority THEN UserSol ELSE 0)
                            + (IF a = Payer THEN UserSol ELSE 0)
    BY <1>2, <2>1, <2>2, <2>3, PaySolEffect
  <2>5. book.tok \in [TokenAccounts -> Nat] /\ book.sol \in [SolAccounts -> Nat]
    BY <1>2 DEF Books
  <2>6. UserWallets(book') = UserWallets(book)
                             + (IF req.receiver = SaAuthority THEN 0 ELSE UserSol)
    BY <2>2, <2>3, <2>4, <2>5 DEF UserWallets
  <2>7. OutputPurse(book') = OutputPurse(book) - UserSol
    BY <2>2, <2>3, <2>4, <2>5 DEF OutputPurse
  <2>8. req.dst \in book'.closed /\ req.dst \in book.closed
    BY <1>2, <1>7, <2>4
  <2>9. SettlingInv'
    BY <1>1, <1>2, <2>8 DEF SettlingInv
  <2>10. ASSUME req.src # req.dst
         PROVE  UserWallets(book') >= UserWallets(committed) + ReceivedInSol'
                                      - SolSpentSoFar'
    <3>1. UserWallets(book) >= UserWallets(committed) + ReceivedInSol - SolSpentSoFar
      BY <1>1, <1>6, <1>7, <2>10, SettlementFacts
    <3>2. ReceivedInSol' = UserSol
      BY <1>2, <1>4, <1>5, <1>6, <1>7, <2>2, <2>8
    <3> QED
      BY <1>2, <1>4, <1>5, <1>6, <1>7, <2>2, <2>6, <3>1, <3>2
  <2>11. ASSUME NoGainAsked
         PROVE  /\ SourceSa(req) # None =>
                     book'.tok[SourceSa(req)] <= committed.tok[SourceSa(req)] + Unspent(SourceSa(req))
                /\ OutputPurse(book') <= OutputPurse(committed) + Owed' + KeptByVault'
    <3>1. /\ SourceSa(req) # None =>
               book.tok[SourceSa(req)] <= committed.tok[SourceSa(req)] + Unspent(SourceSa(req))
          /\ ~Doomed => OutputPurse(book) <= OutputPurse(committed) + Owed + KeptByVault
      BY <1>1, <2>11, SettlementFacts
    <3> QED
      BY <1>2, <1>4, <1>5, <1>6, <1>7, <2>2, <2>4, <2>7, <3>1
  <2> QED
    BY <1>1, <2>8, <2>9, <2>10, <2>11, SettleStep
<1>8. CASE ~unwrapped /\ req.dst \in book.closed
  <2>1. /\ DestinationSa(req) # None /\ HandOverPayable(ActualOut)
        /\ book' = CloseForUser(HandOver(ActualOut))
    BY <1>8 DEF TransferToUser
  <2>2. ActualOut = 0
    BY <1>4, <1>8, <2>1 DEF HandOverPayable, TokenPayable
  <2>3. book' = book
    BY <1>8, <2>1, <2>2 DEF HandOver, CloseForUser, Close
  <2>4. Doomed'
    BY <1>5, <1>8, <2>2, <2>3
  <2>5. SettlingInv'
    BY <1>1, <1>2, <2>3 DEF SettlingInv
  <2>6. NoGainAsked =>
          (SourceSa(req) # None =>
             book'.tok[SourceSa(req)] <= committed.tok[SourceSa(req)] + Unspent(SourceSa(req)))
    BY <1>1, <2>3, SettlementFacts
  <2> QED
    BY <1>1, <1>8, <2>3, <2>4, <2>5, <2>6, SettleStep
<1>9. CASE ~unwrapped /\ req.dst \notin book.closed
  <2>1. /\ DestinationSa(req) # None /\ HandOverPayable(ActualOut)
        /\ ClosesForUser => OwnerOf[req.dst] = Payer
        /\ book' = CloseForUser(HandOver(ActualOut))
    BY <1>9 DEF TransferToUser
  <2>2. UserPaid(ActualOut)
    BY <1>2, <1>4, <1>9, <2>1, UserPays
  <2>3. SettlingInv'
    BY <1>1, <1>2, <1>9, <2>2 DEF SettlingInv, UserPaid
  <2>4. KeptByVault = 0 /\ ReceivedInSol = 0 /\ ~Doomed /\ Owed = ActualOut - Advanced
    BY <1>6, <1>9, <2>1
  <2>5. ASSUME req.src # req.dst, req.dst \notin book'.closed \cup SaAccounts
        PROVE  book'.tok[req.dst] >= committed.tok[req.dst] + ReceivedInDst'
    <3>1. book'.tok[req.dst] = book.tok[req.dst] + (ActualOut - Withheld(req.dst, ActualOut))
      BY <2>1, <2>2, <2>5 DEF UserPaid
    <3>2. book.tok[req.dst] >= committed.tok[req.dst] + 0
      BY <1>1, <1>9, <2>1, <2>5, SettlementFacts
    <3>3. Withheld(req.dst, ActualOut) \in Nat
      BY <1>2, <1>4, WithheldPart
    <3> QED
      BY <1>2, <1>4, <1>5, <3>1, <3>2, <3>3
  <2>6. ASSUME req.src # req.dst
        PROVE  UserWallets(book') >= UserWallets(committed) + ReceivedInSol' - SolSpentSoFar'
    <3>1. UserWallets(book) >= UserWallets(committed) + 0 - SolSpentSoFar
      BY <1>1, <2>4, <2>6, SettlementFacts
    <3>2. CASE ClosesForUser
      <4>1. /\ req.dst \notin SaAccounts /\ req.dst \in book'.closed
            /\ UserWallets(book') = UserWallets(book)
                                    + (book.tok[req.dst] + ActualOut + TOKEN_ACCOUNT_RENT)
        BY <2>1, <2>2, <3>2 DEF UserPaid
      <4>2. book.tok[req.dst] >= committed.tok[req.dst] + 0
        BY <1>1, <1>9, <2>1, <2>6, <4>1, SettlementFacts
      <4> QED
        BY <1>2, <1>4, <1>5, <2>4, <3>1, <4>1, <4>2
    <3>3. CASE ~ClosesForUser
      <4>1. req.dst \notin book'.closed /\ UserWallets(book') = UserWallets(book)
        BY <1>2, <1>9, <2>2, <3>3 DEF UserPaid
      <4> QED
        BY <1>2, <1>5, <3>1, <4>1
    <3> QED
      BY <3>2, <3>3
  <2>7. ASSUME NoGainAsked
        PROVE  /\ SourceSa(req) # None =>
                    book'.tok[SourceSa(req)] <= committed.tok[SourceSa(req)] + Unspent(SourceSa(req))
               /\ OutputPurse(book') <= OutputPurse(committed) + Owed' + KeptByVault'
    <3>1. req.dst \notin SaAccounts
      BY <2>7 DEF NoGainAsked
    <3>2. /\ SourceSa(req) # None =>
               /\ SourceSa(req) # DestinationSa(req)
               /\ book.tok[SourceSa(req)] <= committed.tok[SourceSa(req)] + Unspent(SourceSa(req))
          /\ ~Doomed => OutputPurse(book) <= OutputPurse(committed) + Owed + KeptByVault
      BY <1>1, <2>7, SettlementFacts
    <3>3. /\ OutputPurse(book') = OutputPurse(book) - ActualOut
          /\ SourceSa(req) # None => book'.tok[SourceSa(req)] = book.tok[SourceSa(req)]
      BY <2>1, <2>2, <3>1, <3>2 DEF UserPaid
    <3> QED
      BY <1>2, <1>4, <1>5, <2>4, <3>2, <3>3
  <2> QED
    BY <1>1, <2>3, <2>5, <2>6, <2>7, SettleStep
<1> QED
  BY <1>4, <1>7, <1>8, <1>9

LEMMA AfterSwapToCSettles ==
  ASSUME SettlementInv, AfterSwapToC
  PROVE  SettlingInv' /\ UserCovered' /\ NothingLeft'
<1> DEFINE h == HandOver(out)
           inSol == ToFee > 0 /\ ToFeesInSol
           b == IF inSol THEN Close(h, req.dst, Payer) ELSE h
           from == IF inSol THEN Payer ELSE req.dst
           fees == {req.commissionAccount, req.platformAccount}
           handed == IF DestinationSa(req) = None THEN 0 ELSE out
           lift == 2 * MIN_SOL_ACCOUNT_RENT
<1>1. /\ pc = "after" /\ pc' = "check" /\ ~req.toB /\ RatesAllowed
      /\ HandOverPayable(out)
      /\ ToFee > 0 => OwnerOf[req.dst] = Payer
      /\ FeesPayable(b, from, req.commissionAccount, ToCommission,
                     req.platformAccount, ToPlatformFee)
      /\ book' = PayFees(b, from, req.commissionAccount, ToCommission,
                         req.platformAccount, ToPlatformFee)
      /\ UNCHANGED <<committed, req, spent, out, unwrapped, commits>>
  BY DEF AfterSwapToC
<1>2. /\ IInv /\ book \in Books /\ req \in Requests /\ req.dst \in TokenAccounts
      /\ book.tok[req.dst] \in Nat /\ committed.tok[req.dst] \in Nat
      /\ UserWallets(book) \in Int /\ UserWallets(committed) \in Int
      /\ OutputPurse(book) \in Int /\ OutputPurse(committed) \in Int
      /\ SolSpent \in Nat /\ SolSpent >= lift /\ lift \in Nat
      /\ SolSpentSoFar = IF req.onFrom THEN SolSpent ELSE 0
      /\ req.minReturn > 0 /\ req.dst \notin committed.closed
  BY <1>1, SettlementFacts
<1>3. /\ out \in Nat /\ TOKEN_ACCOUNT_RENT \in Nat /\ unwrapped = FALSE
      /\ ToFee \in 0..out /\ ToCommission \in Nat /\ ToPlatformFee \in Nat
      /\ ToCommission + ToPlatformFee = ToFee
      /\ req.dst \notin book.closed
      /\ handed \in Nat /\ Advanced \in Nat
      /\ ActualOut = out - ToFee - TrimAndCharge
  BY <1>1, <1>2, SettlingFacts, WholeOutput
<1>4. TrimAndCharge = 0
  <2>1. req.trimRate = 0
    BY <1>1, <1>2, RequestFacts DEF IsRequest
  <2> QED
    BY <2>1 DEF TrimAndCharge
<1>5. /\ Payer \in SolAccounts /\ SaAuthority \in SolAccounts /\ Payer # SaAuthority
      /\ None \notin TokenAccounts
      /\ TokenAccounts \cap SolAccounts = {}
      /\ DestinationSa(req) = None \/ (DestinationSa(req) \in TokenAccounts /\ DestinationSa(req) \in SaAccounts)
      /\ SourceSa(req) = None \/ (SourceSa(req) \in TokenAccounts /\ SourceSa(req) \in SaAccounts)
  BY <1>2, RequestFacts, V3AccountsAssumption DEF SaAccounts
<1>6. /\ h \in Books /\ h.closed = book.closed
      /\ UserWallets(h) = UserWallets(book)
      /\ req.dst \notin SaAccounts =>
           /\ OutputPurse(h) = OutputPurse(book) - handed
           /\ h.tok[req.dst] = book.tok[req.dst]
                               + (IF DestinationSa(req) = None THEN 0 ELSE out - Withheld(req.dst, out))
           /\ SourceSa(req) # None /\ SourceSa(req) # DestinationSa(req)
                => h.tok[SourceSa(req)] = book.tok[SourceSa(req)]
  BY <1>1, <1>2, <1>3, HandOverMoves
<1> HIDE DEF h
<1>7. ASSUME inSol
      PROVE  /\ MintOf[req.dst] = Wsol /\ OwnerOf[req.dst] = Payer
             /\ req.dst \notin SaAccounts /\ ~req.onFrom
             /\ b \in Books /\ b.closed = book.closed \cup {req.dst}
             /\ h.tok[req.dst] = book.tok[req.dst] + handed
             /\ UserWallets(b) = UserWallets(book)
                                 + (book.tok[req.dst] + handed + TOKEN_ACCOUNT_RENT)
             /\ OutputPurse(b) = OutputPurse(book) - handed
             /\ SourceSa(req) # None /\ SourceSa(req) # DestinationSa(req)
                  => b.tok[SourceSa(req)] = book.tok[SourceSa(req)]
  <2>1. MintOf[req.dst] = Wsol /\ OwnerOf[req.dst] = Payer
    BY <1>1, <1>7 DEF ToFeesInSol, IsChargeSol
  <2>2. ~req.onFrom
    <3>1. req.onFrom => ToFee = 0
      BY DEF ToFee
    <3>2. ToFee > 0
      BY <1>7
    <3> HIDE DEF inSol
    <3> QED
      BY <3>1, <3>2
  <2>3. req.dst \notin SaAccounts /\ Withheld(req.dst, out) = 0
    BY <1>2, <1>3, <1>5, <2>1, WithheldPart DEF SaAccounts
  <2>4. h.tok[req.dst] = book.tok[req.dst] + handed
    BY <1>2, <1>3, <1>6, <2>3
  <2>5. b = Close(h, req.dst, Payer)
    BY <1>7
  <2> HIDE DEF b, handed, inSol
  <2>6. /\ b \in Books /\ b.closed = h.closed \cup {req.dst}
        /\ UserWallets(b) = UserWallets(h) + (h.tok[req.dst] + TOKEN_ACCOUNT_RENT)
        /\ OutputPurse(b) = OutputPurse(h) + 0
        /\ SourceSa(req) # None => b.tok[SourceSa(req)] = h.tok[SourceSa(req)]
    BY <1>2, <1>3, <1>6, <2>1, <2>5, CloseMoves
  <2> QED
    BY <1>2, <1>3, <1>6, <2>1, <2>2, <2>3, <2>4, <2>6
<1>8. ~inSol => b = h
  OBVIOUS
<1>9. b \in Books /\ from \in {Payer, req.dst}
  BY <1>6, <1>7, <1>8
<1> HIDE DEF b
<1>10. FeePass(b, book', from, fees, ToFee, lift)
  <2> HIDE DEF from
  <2>1. FeePass(b, book', from, fees, ToCommission + ToPlatformFee, lift)
    BY <1>1, <1>3, <1>9, FeesPass
  <2> QED
    BY <1>3, <2>1
<1>11. /\ book' \in Books /\ book'.closed = b.closed
  BY <1>10 DEF FeePass
<1>12. /\ UserWallets(book') \in Int /\ UserWallets(b) \in Int
       /\ UserWallets(book') >= UserWallets(b) - (IF inSol THEN ToFee + lift ELSE 0)
  <2>1. /\ from # SaAuthority /\ (from = Payer <=> inSol)
        /\ from \in {Payer, SaAuthority, None} \cup TokenAccounts
    BY <1>2, <1>5
  <2> HIDE DEF from, fees, lift
  <2>2. /\ UserWallets(book') \in Int /\ UserWallets(b) \in Int
        /\ UserWallets(book') >= UserWallets(b)
             - (IF from = Payer /\ ToFee > 0 THEN ToFee + lift ELSE 0)
             - (IF from = SaAuthority /\ req.receiver = SaAuthority THEN ToFee ELSE 0)
    BY <1>2, <1>3, <1>9, <1>10, <2>1, FeeOnWallets
  <2>3. inSol => ToFee > 0
    OBVIOUS
  <2> HIDE DEF inSol
  <2> QED
    BY <1>2, <1>3, <2>1, <2>2, <2>3
<1>13. SettlingInv'
  <2>1. req.dst \in book'.closed => inSol
    BY <1>3, <1>6, <1>8, <1>11
  <2> HIDE DEF inSol
  <2> QED
    BY <1>1, <1>2, <1>7, <2>1 DEF SettlingInv
<1>14. /\ ReceivedInSol' = IF req.dst \in book'.closed
                           THEN ActualOut + TOKEN_ACCOUNT_RENT + committed.tok[req.dst]
                           ELSE 0
       /\ SolSpentSoFar' = SolSpent /\ Owed' = 0 - Advanced /\ KeptByVault' = 0
  BY <1>1, <1>2, <1>3, <1>4, AmountsAtCheck DEF KeptByVault
<1>15. ASSUME req.src # req.dst
       PROVE  UserWallets(book') >= UserWallets(committed) + ReceivedInSol' - SolSpentSoFar'
  <2>1. UserWallets(book) >= UserWallets(committed) - SolSpentSoFar
    <3>1. ReceivedInSol = 0 /\ ~Doomed
      BY <1>1 DEF ReceivedInSol, Doomed
    <3>2. UserWallets(book) >= UserWallets(committed) + ReceivedInSol - SolSpentSoFar
      BY <1>1, <1>15, <3>1, SettlementFacts
    <3> QED
      BY <1>2, <3>1, <3>2
  <2>2. CASE inSol
    <3>1. book.tok[req.dst] >= committed.tok[req.dst] + (IF DestinationSa(req) = None THEN out ELSE 0)
      BY <1>1, <1>3, <1>7, <1>15, <2>2, SettlementFacts
    <3>2. book.tok[req.dst] + handed >= committed.tok[req.dst] + out
      BY <1>2, <1>3, <3>1
    <3>3. ReceivedInSol' = out - ToFee + TOKEN_ACCOUNT_RENT + committed.tok[req.dst]
      BY <1>3, <1>4, <1>7, <1>11, <1>14, <2>2
    <3>4. SolSpentSoFar = 0
      BY <1>2, <1>7, <2>2
    <3>5. UserWallets(b) = UserWallets(book)
                           + (book.tok[req.dst] + handed + TOKEN_ACCOUNT_RENT)
      BY <1>7, <2>2
    <3> HIDE DEF handed, lift, inSol
    <3>6. UserWallets(book') >= UserWallets(b) - (ToFee + lift)
      BY <1>12, <2>2
    <3> QED
      BY <1>2, <1>3, <1>12, <1>14, <2>1, <3>2, <3>3, <3>4, <3>5, <3>6
  <2>3. CASE ~inSol
    <3>1. req.dst \notin book'.closed
      BY <1>3, <1>6, <1>8, <1>11, <2>3
    <3>2. UserWallets(book') >= UserWallets(book) - 0
      BY <1>6, <1>8, <1>12, <2>3
    <3> HIDE DEF inSol
    <3> QED
      BY <1>2, <1>12, <1>14, <2>1, <3>1, <3>2
  <2> QED
    BY <2>2, <2>3
<1>16. ASSUME NoGainAsked
       PROVE  /\ SourceSa(req) # None =>
                   book'.tok[SourceSa(req)] <= committed.tok[SourceSa(req)] + Unspent(SourceSa(req))
              /\ OutputPurse(book') <= OutputPurse(committed) + Owed' + KeptByVault'
  <2>1. req.dst \notin SaAccounts /\ fees \cap (SaAccounts \cup {SaAuthority}) = {}
    BY <1>16 DEF NoGainAsked
  <2>2. /\ SourceSa(req) # None =>
             /\ SourceSa(req) # DestinationSa(req)
             /\ book.tok[SourceSa(req)] <= committed.tok[SourceSa(req)] + Unspent(SourceSa(req))
        /\ ~Doomed => OutputPurse(book) <= OutputPurse(committed) + Owed + KeptByVault
    BY <1>1, <1>16, SettlementFacts
  <2>3. ~Doomed /\ Owed = handed - Advanced /\ KeptByVault = 0
    BY <1>1, <1>3 DEF Doomed, Owed, KeptByVault, handed
  <2>4. /\ OutputPurse(b) = OutputPurse(book) - handed
        /\ SourceSa(req) # None => b.tok[SourceSa(req)] = book.tok[SourceSa(req)]
    BY <1>6, <1>7, <1>8, <2>1, <2>2
  <2>5. from # None /\ from \notin {SaAuthority, DestinationSa(req)} /\ from # SourceSa(req)
    BY <1>2, <1>5, <2>1, V3AccountsAssumption
  <2>6. OutputPurse(book') = OutputPurse(b) - 0 /\ OutputPurse(b) \in Int
    <3> HIDE DEF from, fees, lift
    <3> QED
      BY <1>2, <1>3, <1>9, <1>10, <2>1, <2>5, FeeOnPurse
  <2>7. SourceSa(req) # None => book'.tok[SourceSa(req)] = b.tok[SourceSa(req)]
    <3> SUFFICES ASSUME SourceSa(req) # None PROVE book'.tok[SourceSa(req)] = b.tok[SourceSa(req)]
      OBVIOUS
    <3>1. SourceSa(req) \in TokenAccounts \ fees /\ b.tok[SourceSa(req)] \in Nat
      BY <1>5, <1>9, <2>1 DEF Books
    <3>2. book'.tok[SourceSa(req)] = b.tok[SourceSa(req)] - 0
      BY <1>10, <2>5, <3>1 DEF FeePass
    <3> QED
      BY <3>1, <3>2
  <2> HIDE DEF handed
  <2> QED
    BY <1>2, <1>3, <1>14, <2>2, <2>3, <2>4, <2>6, <2>7
<1> QED
  BY <1>1, <1>4, <1>13, <1>15, <1>16, SettleStep

LEMMA Difference == \A x \in Nat : x - 0 = x /\ x - x = 0
  OBVIOUS

LEMMA ExecuteSwapSettles ==
  ASSUME SettlementInv, ExecuteSwap
  PROVE  SettlingInv' /\ UserCovered' /\ NothingLeft'
<1> DEFINE from == SourceAccount(req)
           to == DestinationAccount(req)
<1>1. /\ IInv /\ TypeOK /\ HandlerInv /\ SettlingInv /\ UserCovered /\ NothingLeft
      /\ pc = "swap" /\ pc' = "after" /\ committed' = committed /\ req' = req
      /\ unwrapped' = unwrapped /\ spent = 0 /\ out = 0 /\ ~unwrapped
      /\ req.minReturn > 0
  BY DEF SettlementInv, IInv, HandlerInv, ExecuteSwap
<1>2. /\ book' \in Books /\ book'.sol = book.sol /\ book'.closed = book.closed
      /\ spent' \in Nat /\ out' \in Nat
      /\ book'.tok[to] = book.tok[to] + out'
      /\ \A a \in TokenAccounts \ {to} :
           book'.tok[a] = book.tok[a] - (IF a = from THEN spent' ELSE 0)
      /\ SourceSa(req) # None /\ ~ThroughSource(req) => spent' = 0
  BY <1>1, ExecuteSwapEffect
<1>3. /\ req \in Requests /\ book \in Books /\ committed \in Books
      /\ req.dst \in TokenAccounts /\ req.amountIn \in Nat
      /\ req.src \in TokenAccounts /\ req.src \notin SaAccounts
      /\ SourceSa(req) = None \/ (SourceSa(req) \in TokenAccounts /\ SourceSa(req) \in SaAccounts)
      /\ DestinationSa(req) = None \/ (DestinationSa(req) \in TokenAccounts /\ DestinationSa(req) \in SaAccounts)
      /\ None \notin TokenAccounts
      /\ from = IF ThroughSource(req) THEN SourceSa(req) ELSE req.src
      /\ to = IF ThroughDestination(req) THEN DestinationSa(req) ELSE req.dst
      /\ ThroughDestination(req) => DestinationSa(req) # None
      /\ ThroughSource(req) => SourceSa(req) # None
  BY <1>1, RequestFacts DEF TypeOK, SaAccounts, SourceAccount, DestinationAccount,
     ThroughSource, ThroughDestination
<1> HIDE DEF from, to
<1>4. /\ book.tok[req.dst] \in Nat /\ committed.tok[req.dst] \in Nat
      /\ book'.tok[req.dst] \in Nat
      /\ UserWallets(book) \in Int /\ UserWallets(committed) \in Int
      /\ OutputPurse(book) \in Int /\ OutputPurse(committed) \in Int
      /\ PullFee \in Nat
  BY <1>1, <1>2, <1>3, WalletsNumber, PurseNumber, AmountsOf DEF Books
<1>5. SettlingInv'
  BY <1>1, <1>2 DEF SettlingInv
<1>6. PullFee' = PullFee /\ SolSpent' = SolSpent
  BY <1>1 DEF PullFee, SolSpent, Withheld, Pulled, FromFee, TotalFee, IsChargeSol
<1>7. /\ ReceivedInDst = 0 /\ ReceivedInSol = 0 /\ ~Doomed
      /\ ReceivedInDst' = (IF DestinationSa(req) = None THEN out' ELSE 0)
      /\ ReceivedInSol' = 0
      /\ SolSpentSoFar' = SolSpentSoFar
      /\ Owed = 0 /\ KeptByVault = 0 /\ KeptByVault' = 0
      /\ Owed' = IF ThroughDestination(req) THEN out' ELSE 0
  <2>1. Advanced = 0 /\ Advanced' = IF Unserved(req) THEN out' ELSE 0
    BY <1>1 DEF Advanced
  <2>2. Owed = 0
    BY <1>1, <2>1 DEF Owed
  <2>3. Owed' = (IF DestinationSa(req) = None THEN 0 ELSE out') - Advanced'
    BY <1>1 DEF Owed
  <2>4. Owed' = IF ThroughDestination(req) THEN out' ELSE 0
    <3>0. out' \in Nat
      BY <1>2
    <3>1. ThroughDestination(req) => DestinationSa(req) # None
      BY <1>3
    <3>2. CASE DestinationSa(req) = None
      <4>1. ~ThroughDestination(req) /\ Advanced' = 0
        BY <2>1, <3>1, <3>2 DEF Unserved
      <4> QED
        BY <2>3, <3>2, <4>1
    <3>3. CASE DestinationSa(req) # None
      <4>0. Owed' = out' - Advanced'
        BY <2>3, <3>3, Zenon
      <4>1. CASE ThroughDestination(req)
        <5>1. Advanced' = 0
          BY <2>1, <4>1 DEF Unserved
        <5>2. Owed' = out' - 0
          BY <4>0, <5>1, Zenon
        <5>3. Owed' = out'
          BY <3>0, <5>2, Difference, Zenon
        <5> QED
          BY <4>1, <5>3
      <4>2. CASE ~ThroughDestination(req)
        <5>1. Advanced' = out'
          BY <2>1, <3>3, <4>2 DEF Unserved
        <5>2. Owed' = out' - out'
          BY <4>0, <5>1, Zenon
        <5>3. Owed' = 0
          BY <3>0, <5>2, Difference, Zenon
        <5> QED
          BY <4>2, <5>3
      <4> QED
        BY <4>1, <4>2
    <3> QED
      BY <3>2, <3>3
  <2> QED
    BY <1>1, <1>6, <2>2, <2>4 DEF ReceivedInDst, ReceivedInSol, Doomed, SolSpentSoFar,
       KeptByVault
<1>8. UserCovered'
  <2>1. ASSUME req.src # req.dst, req.dst \notin book'.closed \cup SaAccounts
        PROVE  book'.tok[req.dst] >= committed.tok[req.dst] + ReceivedInDst'
    <3>1. book.tok[req.dst] >= committed.tok[req.dst] + 0
      BY <1>1, <1>2, <1>7, <2>1 DEF UserCovered
    <3>2. CASE DestinationSa(req) = None
      BY <1>2, <1>3, <1>4, <1>7, <3>1, <3>2
    <3>3. CASE DestinationSa(req) # None
      <4>1. req.dst # from
        BY <1>3, <2>1
      <4>2. book'.tok[req.dst] >= book.tok[req.dst]
        BY <1>2, <1>3, <1>4, <4>1
      <4> QED
        BY <1>4, <1>7, <3>1, <3>3, <4>2
    <3> QED
      BY <3>2, <3>3
  <2>2. ASSUME req.src # req.dst
        PROVE  UserWallets(book)' >= UserWallets(committed)' + ReceivedInSol' - SolSpentSoFar'
    <3>1. /\ UserWallets(book)' = UserWallets(book)
          /\ UserWallets(committed)' = UserWallets(committed)
      BY <1>1, <1>2 DEF UserWallets
    <3>2. UserWallets(book) >= UserWallets(committed) + ReceivedInSol - SolSpentSoFar
      BY <1>1, <1>7, <2>2 DEF UserCovered
    <3> QED
      BY <1>7, <3>1, <3>2
  <2> QED
    BY <1>1, <2>1, <2>2 DEF UserCovered
<1>9. ASSUME NoGainAsked
      PROVE  /\ SourceSa(req) # None =>
                  book'.tok[SourceSa(req)] <= committed.tok[SourceSa(req)] + Unspent(SourceSa(req))'
             /\ OutputPurse(book)' <= OutputPurse(committed)' + Owed' + KeptByVault'
             /\ book'.tok[req.dst] <= committed.tok[req.dst]
                                      + (IF ThroughDestination(req) THEN 0 ELSE out')
  <2>1. /\ req.dst \notin SaAccounts
        /\ SourceSa(req) # None =>
             /\ SourceSa(req) # DestinationSa(req)
             /\ book.tok[SourceSa(req)] <= committed.tok[SourceSa(req)] + Unspent(SourceSa(req))
        /\ OutputPurse(book) <= OutputPurse(committed) + Owed + KeptByVault
        /\ book.tok[req.dst] <= committed.tok[req.dst] + 0
    BY <1>1, <1>7, <1>9 DEF NothingLeft, NoGainAsked, Wrapped
  <2>2. ASSUME SourceSa(req) # None
        PROVE  book'.tok[SourceSa(req)] <= committed.tok[SourceSa(req)] + Unspent(SourceSa(req))'
    <3>1. SourceSa(req) # to /\ SourceSa(req) \in TokenAccounts
      BY <1>3, <2>1, <2>2
    <3>2. book'.tok[SourceSa(req)] = book.tok[SourceSa(req)] - spent'
      <4>1. CASE ThroughSource(req)
        BY <1>2, <1>3, <3>1, <4>1
      <4>2. CASE ~ThroughSource(req)
        <5>1. spent' = 0
          BY <1>2, <2>2, <4>2
        <5> QED
          BY <1>2, <3>1, <5>1
      <4> QED
        BY <4>1, <4>2
    <3>3. SourceSa(req) # DestinationAccount(req)
      BY <3>1 DEF to
    <3>4. /\ Unspent(SourceSa(req)) = req.amountIn - PullFee - 0
          /\ Unspent(SourceSa(req))' = req.amountIn - PullFee - spent'
      BY <1>1, <1>6, <2>2, <3>3 DEF Unspent
    <3>5. book.tok[SourceSa(req)] \in Nat /\ committed.tok[SourceSa(req)] \in Nat
      BY <1>3, <3>1 DEF Books
    <3> QED
      BY <1>2, <1>3, <1>4, <2>1, <2>2, <3>2, <3>4, <3>5
  <2>3. OutputPurse(book)' <= OutputPurse(committed)' + Owed' + KeptByVault'
    <3>1. OutputPurse(committed)' = OutputPurse(committed)
      BY <1>1 DEF OutputPurse
    <3>2. CASE DestinationSa(req) = None
      <4>1. OutputPurse(book)' = OutputPurse(book)
        BY <1>1, <1>2, <3>2 DEF OutputPurse
      <4> QED
        BY <1>3, <1>4, <1>7, <2>1, <3>1, <3>2, <4>1
    <3>3. CASE DestinationSa(req) # None
      <4>1. /\ OutputPurse(book) = book.sol[SaAuthority] + book.tok[DestinationSa(req)]
            /\ OutputPurse(book)' = book.sol[SaAuthority] + book'.tok[DestinationSa(req)]
        BY <1>1, <1>2, <3>3 DEF OutputPurse
      <4>2. book.tok[DestinationSa(req)] \in Nat /\ book.sol[SaAuthority] \in Nat
        BY <1>3, <3>3, V3AccountsAssumption DEF Books
      <4>3. book'.tok[DestinationSa(req)]
              = book.tok[DestinationSa(req)]
                + (IF ThroughDestination(req) THEN out' ELSE 0)
        <5>1. CASE ThroughDestination(req)
          BY <1>2, <1>3, <5>1
        <5>2. CASE ~ThroughDestination(req)
          <6>1. DestinationSa(req) # to /\ DestinationSa(req) # from
            BY <1>3, <2>1, <3>3, <5>2
          <6>2. book'.tok[DestinationSa(req)] = book.tok[DestinationSa(req)] - 0
            BY <1>2, <1>3, <3>3, <6>1
          <6> QED
            BY <4>2, <5>2, <6>2
        <5> QED
          BY <5>1, <5>2
      <4> QED
        BY <1>2, <1>4, <1>7, <2>1, <3>1, <3>3, <4>1, <4>2, <4>3
    <3> QED
      BY <3>2, <3>3
  <2>4. book'.tok[req.dst] <= committed.tok[req.dst]
                              + (IF ThroughDestination(req) THEN 0 ELSE out')
    <3>1. CASE ~ThroughDestination(req)
      BY <1>2, <1>3, <1>4, <2>1, <3>1
    <3>2. CASE ThroughDestination(req)
      <4>1. req.dst # to
        BY <1>3, <2>1, <3>2
      <4>2. book'.tok[req.dst] <= book.tok[req.dst]
        BY <1>2, <1>3, <1>4, <4>1
      <4> QED
        BY <1>4, <2>1, <3>2, <4>2
    <3> QED
      BY <3>1, <3>2
  <2> QED
    BY <2>2, <2>3, <2>4
<1>10. NothingLeft'
  <2>1. NoGainAsked' <=> NoGainAsked
    BY <1>1, <1>6 DEF NoGainAsked
  <2> QED
    BY <1>1, <1>9, <2>1 DEF NothingLeft
<1> QED
  BY <1>5, <1>8, <1>10

(* Before the swap, the payer pays the fees in SOL, the vault passes on    *)
(* what it got for them, and keeps the amount.                             *)
LEMMA BeginMoves ==
  ASSUME book \in Books, NEW r \in Requests, Begin(r)
  PROVE  LET sol == IsChargeSol(r.commissionAccount, r.platformAccount, r.src)
             recipients == {r.commissionAccount, r.platformAccount}
         IN  /\ book'.sol[Payer] >= book.sol[Payer]
                  - (IF r.onFrom
                     THEN (IF sol THEN FromFee(r) ELSE 0)
                          + (IF r.toB THEN 0 ELSE 2 * MIN_SOL_ACCOUNT_RENT)
                     ELSE 0)
             /\ SaAuthority \notin recipients
                  => book'.sol[SaAuthority] = book.sol[SaAuthority]
             /\ \A a \in TokenAccounts \ recipients :
                  /\ a \notin {r.src, SourceSa(r)} => book'.tok[a] = book.tok[a]
                  /\ a # SourceSa(r) => book'.tok[a] <= book.tok[a]
                  /\ a = SourceSa(r) /\ Withheld(a, Pulled(r)) = 0
                       => book'.tok[a] = book.tok[a] + r.amountIn
<1> DEFINE d == Funded(r)
           from == FromFeesPaidBy(r)
           sol == IsChargeSol(r.commissionAccount, r.platformAccount, r.src)
           recipients == {r.commissionAccount, r.platformAccount}
           lift == 2 * MIN_SOL_ACCOUNT_RENT
<1>1. /\ FeesPayable(d, from, r.commissionAccount, FromCommission(r),
                     r.platformAccount, FromPlatformFee(r))
      /\ book' = PayFees(d, from, r.commissionAccount, FromCommission(r),
                         r.platformAccount, FromPlatformFee(r))
      /\ d \in Books /\ d.closed = book.closed
  BY FundedEffect
<1>2. /\ FromCommission(r) \in Nat /\ FromPlatformFee(r) \in Nat
      /\ FromCommission(r) + FromPlatformFee(r) = FromFee(r)
      /\ FromFee(r) \in Nat /\ FeesOfPayer(r) \in Nat /\ Pulled(r) \in Nat
  BY FundedEffect
<1>3. \A a \in TokenAccounts :
        d.tok[a] = book.tok[a] - (IF a = r.src THEN Pulled(r) ELSE 0)
                   + (IF a = SourceSa(r) THEN Pulled(r) - Withheld(a, Pulled(r)) ELSE 0)
  BY FundedEffect
<1>4. /\ r.src \in TokenAccounts /\ OwnerOf[r.src] = Payer /\ r.amountIn \in Nat
      /\ SourceSa(r) = None \/ (SourceSa(r) \in TokenAccounts /\ OwnerOf[SourceSa(r)] = SaAuthority)
      /\ Payer \in SolAccounts /\ SaAuthority \in SolAccounts /\ Payer # SaAuthority
      /\ None \notin TokenAccounts /\ None \notin SolAccounts
      /\ TokenAccounts \cap SolAccounts = {}
      /\ lift \in Nat
  BY RequestFacts, V3AccountsAssumption, V3BoundsAssumption DEF SaAccounts
<1>5. \A a \in SolAccounts :
        d.sol[a] = book.sol[a] - (IF a = Payer THEN FeesOfPayer(r) ELSE 0)
                   + (IF a = SaAuthority THEN FeesOfPayer(r) ELSE 0)
  BY FundedEffect
<1> HIDE DEF d, from
<1>6. FeePass(d, book', from, recipients, FromFee(r), lift)
  <2>1. FeePass(d, book', from, recipients, FromCommission(r) + FromPlatformFee(r), lift)
    BY <1>1, <1>2, FeesPass
  <2> QED
    BY <1>2, <2>1
<1> HIDE DEF recipients
<1>7. /\ book.tok \in [TokenAccounts -> Nat] /\ book.sol \in [SolAccounts -> Nat]
      /\ d.tok \in [TokenAccounts -> Nat] /\ d.sol \in [SolAccounts -> Nat]
      /\ book'.tok \in [TokenAccounts -> Nat] /\ book'.sol \in [SolAccounts -> Nat]
  BY <1>1, <1>6 DEF Books, FeePass
<1>8. /\ from = IF sol THEN (IF r.toB THEN SaAuthority ELSE Payer)
                ELSE IF r.toB THEN SourceSa(r) ELSE r.src
      /\ FeesOfPayer(r) = IF r.toB /\ sol THEN FromFee(r) ELSE 0
      /\ Pulled(r) = IF SourceSa(r) = None THEN 0
                     ELSE IF r.toB /\ ~sol THEN r.amountIn + FromFee(r)
                     ELSE r.amountIn
      /\ ~r.onFrom => FromFee(r) = 0
  BY DEF from, FromFeesPaidBy, FeesOfPayer, Pulled, FromFee
<1> HIDE DEF sol, lift
<1>9. book'.sol[Payer] >= book.sol[Payer]
        - (IF r.onFrom THEN (IF sol THEN FromFee(r) ELSE 0) + (IF r.toB THEN 0 ELSE lift)
           ELSE 0)
  <2>1. d.sol[Payer] = book.sol[Payer] - FeesOfPayer(r)
    BY <1>2, <1>4, <1>5, <1>7
  <2>2. from # Payer => book'.sol[Payer] >= d.sol[Payer]
    BY <1>4, <1>6 DEF FeePass
  <2>3. /\ book'.sol[Payer] >= d.sol[Payer] - FromFee(r) - lift
        /\ FromFee(r) = 0 => book' = d
    BY <1>4, <1>6 DEF FeePass
  <2>4. /\ book.sol[Payer] \in Nat /\ d.sol[Payer] \in Nat /\ book'.sol[Payer] \in Nat
    BY <1>4, <1>7
  <2>5. CASE FromFee(r) = 0
    BY <1>2, <1>4, <1>8, <2>1, <2>3, <2>4, <2>5
  <2>6. CASE FromFee(r) > 0 /\ sol /\ ~r.toB
    BY <1>2, <1>4, <1>8, <2>1, <2>3, <2>4, <2>6
  <2>7. CASE FromFee(r) > 0 /\ ~(sol /\ ~r.toB)
    <3>1. from # Payer
      BY <1>4, <1>8, <2>7
    <3> QED
      BY <1>2, <1>4, <1>8, <2>1, <2>2, <2>4, <2>7, <3>1
  <2> QED
    BY <1>2, <2>5, <2>6, <2>7
<1>10. SaAuthority \notin recipients => book'.sol[SaAuthority] = book.sol[SaAuthority]
  <2>1. d.sol[SaAuthority] = book.sol[SaAuthority] + FeesOfPayer(r)
    BY <1>2, <1>4, <1>5, <1>7
  <2>2. SaAuthority \notin recipients =>
          book'.sol[SaAuthority]
            = d.sol[SaAuthority] - (IF from = SaAuthority THEN FromFee(r) ELSE 0)
    BY <1>6 DEF FeePass
  <2>3. from = SaAuthority <=> (sol /\ r.toB)
    BY <1>4, <1>8
  <2>4. book.sol[SaAuthority] \in Nat
    BY <1>4, <1>7
  <2> QED
    BY <1>2, <1>8, <2>1, <2>2, <2>3, <2>4
<1>11. ASSUME NEW a \in TokenAccounts \ recipients
       PROVE  /\ a \notin {r.src, SourceSa(r)} => book'.tok[a] = book.tok[a]
              /\ a # SourceSa(r) => book'.tok[a] <= book.tok[a]
              /\ a = SourceSa(r) /\ Withheld(a, Pulled(r)) = 0
                   => book'.tok[a] = book.tok[a] + r.amountIn
  <2>1. book'.tok[a] = d.tok[a] - (IF a = from THEN FromFee(r) ELSE 0)
    BY <1>6 DEF FeePass
  <2>2. d.tok[a] = book.tok[a] - (IF a = r.src THEN Pulled(r) ELSE 0)
                   + (IF a = SourceSa(r) THEN Pulled(r) - Withheld(a, Pulled(r)) ELSE 0)
    BY <1>3
  <2>3. book.tok[a] \in Nat /\ r.src # SourceSa(r)
    BY <1>4, <1>7
  <2>4. a \notin {r.src, SourceSa(r)} => a # from
    BY <1>4, <1>8
  <2>5. CASE a \notin {r.src, SourceSa(r)}
    BY <2>1, <2>2, <2>3, <2>4, <2>5
  <2>6. CASE a = r.src
    BY <1>2, <2>1, <2>2, <2>3, <2>6
  <2>7. CASE a = SourceSa(r)
    <3>1. SourceSa(r) # None /\ (a = from <=> (r.toB /\ ~sol))
      BY <1>4, <1>8, <2>3, <2>7
    <3>2. Withheld(a, Pulled(r)) \in Nat
      BY <1>2, WithheldPart
    <3> QED
      BY <1>2, <1>4, <1>8, <2>1, <2>2, <2>3, <2>7, <3>1, <3>2
  <2> QED
    BY <2>5, <2>6, <2>7
<1> QED
  BY <1>9, <1>10, <1>11 DEF sol, recipients, lift

LEMMA BeginSettles ==
  ASSUME SettlementInv, NEW r \in Requests, Begin(r)
  PROVE  SettlingInv' /\ UserCovered' /\ NothingLeft'
<1> DEFINE sol == IsChargeSol(r.commissionAccount, r.platformAccount, r.src)
           solSpent == (IF sol THEN FromFee(r) ELSE 0)
                       + (IF r.toB THEN 0 ELSE 2 * MIN_SOL_ACCOUNT_RENT)
<1>1. /\ TypeOK /\ HandlerInv /\ pc = "idle" /\ book = committed
      /\ req' = r /\ pc' = "swap" /\ committed' = committed
      /\ spent' = 0 /\ out' = 0 /\ unwrapped' = FALSE
      /\ {r.src, r.dst} \cap book.closed = {}
      /\ r.onFrom => FeeRatesAllowed(r.rate, r.platformRate)
  BY DEF SettlementInv, IInv, HandlerInv, TypeOK, Begin
<1>2. /\ book \in Books /\ book' \in Books /\ book'.closed = book.closed
      /\ \A a \in TokenAccounts :
           book'.tok[a] >= book.tok[a]
             - (IF a = r.src THEN FromFee(r) + (IF SourceSa(r) = None THEN 0 ELSE r.amountIn)
                ELSE 0)
             + (IF a = SourceSa(r) THEN r.amountIn - Withheld(a, Pulled(r)) ELSE 0)
      /\ \A a \in SolAccounts \ {Payer} : book'.sol[a] >= book.sol[a]
  BY <1>1, BeginEffect DEF TypeOK
<1>3. /\ book'.sol[Payer] >= book.sol[Payer] - (IF r.onFrom THEN solSpent ELSE 0)
      /\ SaAuthority \notin {r.commissionAccount, r.platformAccount}
           => book'.sol[SaAuthority] = book.sol[SaAuthority]
      /\ \A a \in TokenAccounts \ {r.commissionAccount, r.platformAccount} :
           /\ a \notin {r.src, SourceSa(r)} => book'.tok[a] = book.tok[a]
           /\ a # SourceSa(r) => book'.tok[a] <= book.tok[a]
           /\ a = SourceSa(r) /\ Withheld(a, Pulled(r)) = 0
                => book'.tok[a] = book.tok[a] + r.amountIn
  BY <1>2, BeginMoves
<1>4. /\ r.dst \in TokenAccounts /\ r.amountIn \in Nat
      /\ r.src \in TokenAccounts /\ r.src \notin SaAccounts
      /\ SourceSa(r) = None \/ (SourceSa(r) \in TokenAccounts /\ SourceSa(r) \in SaAccounts)
      /\ DestinationSa(r) = None \/ (DestinationSa(r) \in TokenAccounts /\ DestinationSa(r) \in SaAccounts)
      /\ r.receiver \in SolAccounts \cup {None}
      /\ None \notin TokenAccounts /\ None \notin SolAccounts
      /\ Payer \in SolAccounts /\ SaAuthority \in SolAccounts
  BY RequestFacts DEF SaAccounts
<1>5. /\ book.tok \in [TokenAccounts -> Nat] /\ book.sol \in [SolAccounts -> Nat]
      /\ book'.tok \in [TokenAccounts -> Nat] /\ book'.sol \in [SolAccounts -> Nat]
      /\ FromFee(r) \in Nat /\ Pulled(r) \in Nat /\ MIN_SOL_ACCOUNT_RENT \in Nat
  BY <1>1, <1>2, FromFees, V3BoundsAssumption DEF Books
<1>6. SolSpent' = solSpent /\ solSpent \in Nat
  BY <1>1, <1>5 DEF SolSpent, IsChargeSol, FromFee, TotalFee
<1> HIDE DEF sol, solSpent
<1>7. /\ ReceivedInDst' = 0 /\ ReceivedInSol' = 0 /\ Owed' = 0 /\ KeptByVault' = 0
      /\ SolSpentSoFar' = IF r.onFrom THEN solSpent ELSE 0
      /\ PullFee' = IF SourceSa(r) = None THEN 0 ELSE Withheld(SourceSa(r), Pulled(r))
  <2>1. Advanced' = 0
    BY <1>1 DEF Advanced
  <2>2. Owed' = 0 - Advanced'
    BY <1>1 DEF Owed
  <2> QED
    BY <1>1, <1>6, <2>1, <2>2 DEF ReceivedInDst, ReceivedInSol, SolSpentSoFar, KeptByVault,
       PullFee, Withheld, Pulled, FromFee, TotalFee, IsChargeSol
<1>8. SettlingInv'
  BY <1>1, <1>2 DEF SettlingInv
<1>9. UserCovered'
  <2>1. ASSUME r.src # r.dst, r.dst \notin SaAccounts
        PROVE  book'.tok[r.dst] >= committed'.tok[r.dst] + ReceivedInDst'
    <3>1. r.dst # SourceSa(r)
      BY <1>4, <2>1
    <3>2. book'.tok[r.dst] >= book.tok[r.dst] - 0 + 0
      BY <1>2, <1>4, <2>1, <3>1
    <3>3. book'.tok[r.dst] \in Nat /\ book.tok[r.dst] \in Nat
      BY <1>4, <1>5
    <3> QED
      BY <1>1, <1>7, <3>2, <3>3
  <2>2. UserWallets(book)' >= UserWallets(committed)' + ReceivedInSol' - SolSpentSoFar'
    <3>1. /\ UserWallets(book)' = book'.sol[Payer]
               + (IF r.receiver \in {None, Payer} THEN 0 ELSE book'.sol[r.receiver])
          /\ UserWallets(committed)' = book.sol[Payer]
               + (IF r.receiver \in {None, Payer} THEN 0 ELSE book.sol[r.receiver])
      BY <1>1 DEF UserWallets
    <3>2. /\ book'.sol[Payer] \in Nat /\ book.sol[Payer] \in Nat
          /\ book'.sol[Payer] >= book.sol[Payer] - SolSpentSoFar'
          /\ SolSpentSoFar' \in Nat
      BY <1>3, <1>4, <1>5, <1>6, <1>7
    <3>3. r.receiver \notin {None, Payer} =>
            /\ book'.sol[r.receiver] \in Nat /\ book.sol[r.receiver] \in Nat
            /\ book'.sol[r.receiver] >= book.sol[r.receiver]
      BY <1>2, <1>4, <1>5
    <3> QED
      BY <1>7, <3>1, <3>2, <3>3
  <2> QED
    BY <1>1, <2>1, <2>2 DEF UserCovered
<1>10. ASSUME NoGainAsked'
       PROVE  /\ SourceSa(r) # None =>
                   book'.tok[SourceSa(r)] <= committed'.tok[SourceSa(r)] + Unspent(SourceSa(req))'
              /\ OutputPurse(book)' <= OutputPurse(committed)' + Owed' + KeptByVault'
              /\ book'.tok[r.dst] <= committed'.tok[r.dst]
  <2> DEFINE recipients == {r.commissionAccount, r.platformAccount}
  <2>1. /\ SourceSa(r) # None => SourceSa(r) # DestinationSa(r) /\ Withheld(SourceSa(r), Pulled(r)) = 0
        /\ recipients \cap (SaAccounts \cup {SaAuthority}) = {}
        /\ r.dst \notin recipients \cup SaAccounts
        /\ PullFee' = 0
    BY <1>1, <1>7, <1>10 DEF NoGainAsked
  <2>2. ASSUME SourceSa(r) # None
        PROVE  book'.tok[SourceSa(r)] <= committed'.tok[SourceSa(r)] + Unspent(SourceSa(req))'
    <3>1. book'.tok[SourceSa(r)] = book.tok[SourceSa(r)] + r.amountIn
      BY <1>3, <1>4, <2>1, <2>2
    <3>2. Unspent(SourceSa(req))' = r.amountIn
      BY <1>1, <1>4, <2>1, <2>2 DEF Unspent
    <3>3. book.tok[SourceSa(r)] \in Nat
      BY <1>4, <1>5, <2>2
    <3> QED
      BY <1>1, <1>4, <3>1, <3>2, <3>3
  <2>3. OutputPurse(book)' <= OutputPurse(committed)' + Owed' + KeptByVault'
    <3>1. book'.sol[SaAuthority] = book.sol[SaAuthority]
      BY <1>3, <2>1
    <3>2. DestinationSa(r) # None => book'.tok[DestinationSa(r)] = book.tok[DestinationSa(r)]
      BY <1>3, <1>4, <2>1
    <3>3. /\ OutputPurse(book)' = OutputPurse(committed)'
          /\ OutputPurse(book)' \in Int
      BY <1>1, <1>4, <1>5, <3>1, <3>2 DEF OutputPurse
    <3> QED
      BY <1>7, <3>3
  <2>4. book'.tok[r.dst] <= committed'.tok[r.dst]
    BY <1>1, <1>3, <1>4, <2>1
  <2> QED
    BY <2>2, <2>3, <2>4
<1>11. NothingLeft'
  <2>1. NoGainAsked' => book'.tok[r.dst] <= committed'.tok[r.dst] + 0
    BY <1>1, <1>4, <1>5, <1>10
  <2> QED
    BY <1>1, <1>10, <2>1 DEF NothingLeft
<1> QED
  BY <1>8, <1>9, <1>11

LEMMA NextSettles ==
  ASSUME SettlementInv, [Next]_vars
  PROVE  SettlementInv'
<1>1. IInv'
  BY NextIInv DEF SettlementInv
<1>2. CASE UNCHANGED vars
  <2>1. /\ book' = book /\ committed' = committed /\ pc' = pc /\ req' = req
        /\ spent' = spent /\ out' = out /\ unwrapped' = unwrapped
    BY <1>2 DEF vars
  <2>2. /\ ToFee' = ToFee /\ TrimAndCharge' = TrimAndCharge /\ ActualOut' = ActualOut
        /\ UserSol' = UserSol /\ SolSpent' = SolSpent /\ NoGainAsked' = NoGainAsked
        /\ UserWallets(book)' = UserWallets(book)
        /\ UserWallets(committed)' = UserWallets(committed)
        /\ OutputPurse(book)' = OutputPurse(book)
        /\ OutputPurse(committed)' = OutputPurse(committed)
    BY <2>1, SameAmounts
  <2>3. Unspent(SourceSa(req))' = Unspent(SourceSa(req))
    BY <2>1 DEF Unspent, PullFee, DestinationAccount, Withheld, Pulled, FromFee, TotalFee,
       IsChargeSol
  <2>4. /\ Owed' = Owed /\ KeptByVault' = KeptByVault
        /\ Doomed' = Doomed /\ Wrapped' = Wrapped
        /\ SolSpentSoFar' = SolSpentSoFar
    BY <2>1, <2>2 DEF Owed, Advanced, KeptByVault, Doomed, Wrapped, SolSpentSoFar
  <2>5. ReceivedInDst' = ReceivedInDst /\ ReceivedInSol' = ReceivedInSol
    BY <2>1, <2>2, <2>4 DEF ReceivedInDst, ReceivedInSol, Withheld
  <2>6. SettlingInv'
    BY <2>1, <2>2 DEF SettlementInv, SettlingInv
  <2>7. UserCovered'
    BY <2>1, <2>2, <2>4, <2>5 DEF SettlementInv, UserCovered
  <2>8. NothingLeft'
    BY <2>1, <2>2, <2>3, <2>4 DEF SettlementInv, NothingLeft
  <2> QED
    BY <1>1, <2>6, <2>7, <2>8 DEF SettlementInv
<1>3. CASE pc' = "idle"
  BY <1>1, <1>3 DEF SettlementInv, SettlingInv, UserCovered, NothingLeft
<1>4. Finish \/ Fail => pc' = "idle"
  BY DEF Finish, Fail
<1>5. CASE ~(UNCHANGED vars) /\ ~(Finish \/ Fail)
  BY <1>1, <1>5, BeginSettles, ExecuteSwapSettles, AfterSwapWithoutFeeSettles,
     TransferToFeesSettles, TransferTrimSettles, NoTrimSettles, TransferToUserSettles,
     AfterSwapToCSettles DEF Next, SettlementInv
<1> QED
  BY <1>2, <1>3, <1>4, <1>5

(* At every point of every instruction: what user and vault have received  *)
(* so far (SettlementInv), besides what V3Invariance says.                 *)
THEOREM V3Settlement == Spec => []SettlementInv
<1>1. Init => SettlementInv
  <2> SUFFICES ASSUME Init PROVE SettlementInv
    OBVIOUS
  <2>1. IInv /\ pc = "idle"
    BY InitIInv DEF Init
  <2> QED
    BY <2>1 DEF SettlementInv, SettlingInv, UserCovered, NothingLeft
<1> QED
  BY <1>1, NextSettles, PTL DEF Spec

(* What an instruction that commits has settled.  The receiver is paid     *)
(* from the payer's wallet: together they have the same as before.         *)
LEMMA CommitFacts ==
  ASSUME SettlementInv, [Next]_vars, Commits
  PROVE  /\ IInv /\ TypeOK /\ pc = "check" /\ req \in Requests /\ RatesAllowed
         /\ req.dst \in TokenAccounts /\ ActualOut \in Nat
         /\ committed' = book' /\ book'.tok = book.tok /\ book'.closed = book.closed
         /\ UserWallets(book') = UserWallets(book)
         /\ req.receiver # SaAuthority => OutputPurse(book') = OutputPurse(book)
         /\ DestinationChange \in Int
         /\ DestinationChange >= req.minReturn /\ req.minReturn \in Nat /\ req.minReturn > 0
         /\ ~Doomed
         /\ book \in Books /\ committed \in Books /\ book' \in Books
         /\ req.dst \notin committed.closed
<1>1. Finish
  BY CommitStep DEF SettlementInv
<1>2. /\ IInv /\ TypeOK /\ HandlerInv /\ SettlingInv /\ pc = "check" /\ RatesAllowed
      /\ committed' = book' /\ MinReturnReached
  BY <1>1 DEF SettlementInv, IInv, HandlerInv, Finish
<1>3. /\ book \in Books /\ committed \in Books /\ req \in Requests
  BY <1>2 DEF TypeOK
<1>4. /\ book' \in Books /\ book'.tok = book.tok /\ book'.closed = book.closed
      /\ ReceiverGets \in Nat
      /\ req.receiver \in {None, Payer} => ReceiverGets = 0
      /\ \A a \in SolAccounts :
           book'.sol[a] = book.sol[a] - (IF a = Payer THEN ReceiverGets ELSE 0)
                          + (IF a = req.receiver THEN ReceiverGets ELSE 0)
  BY <1>1, <1>2, FinishEffect
<1>5. /\ req.dst \in TokenAccounts /\ req.minReturn \in Nat
      /\ Payer \in SolAccounts /\ SaAuthority \in SolAccounts /\ Payer # SaAuthority
      /\ req.receiver \in SolAccounts \cup {None}
      /\ book.sol \in [SolAccounts -> Nat] /\ book'.sol \in [SolAccounts -> Nat]
      /\ book.tok[req.dst] \in Nat /\ committed.tok[req.dst] \in Nat
  BY <1>3, <1>4, RequestFacts DEF Books
<1>6. ActualOut \in Nat
  BY <1>2, OutAmounts
<1>7. UserWallets(book') = UserWallets(book)
  <2>1. CASE req.receiver \in {None, Payer}
    <3>1. ReceiverGets = 0
      BY <1>4, <2>1
    <3>2. book'.sol[Payer] = book.sol[Payer]
      BY <1>4, <1>5, <3>1
    <3> QED
      BY <2>1, <3>2 DEF UserWallets
  <2>2. CASE req.receiver \notin {None, Payer}
    <3>1. /\ book'.sol[Payer] = book.sol[Payer] - ReceiverGets
          /\ book'.sol[req.receiver] = book.sol[req.receiver] + ReceiverGets
      BY <1>4, <1>5, <2>2
    <3>2. book.sol[Payer] \in Nat /\ book.sol[req.receiver] \in Nat
      BY <1>5, <2>2
    <3> QED
      BY <1>4, <2>2, <3>1, <3>2 DEF UserWallets
  <2> QED
    BY <2>1, <2>2
<1>8. req.receiver # SaAuthority => OutputPurse(book') = OutputPurse(book)
  <2> SUFFICES ASSUME req.receiver # SaAuthority PROVE OutputPurse(book') = OutputPurse(book)
    OBVIOUS
  <2>1. book'.sol[SaAuthority] = book.sol[SaAuthority]
    BY <1>4, <1>5
  <2> QED
    BY <1>4, <2>1 DEF OutputPurse
<1>9. DestinationChange \in Int /\ DestinationChange >= req.minReturn /\ req.minReturn > 0
  BY <1>2, <1>5, <1>6 DEF DestinationChange, MinReturnReached, SettlingInv
<1>10. ~Doomed
  <2>1. Doomed => DestinationChange = 0
    BY <1>2 DEF Doomed, DestinationChange
  <2> QED
    BY <1>5, <1>9, <2>1
<1>11. req.dst \notin committed.closed
  BY <1>2 DEF SettlingInv
<1> QED
  BY <1>2, <1>3, <1>4, <1>5, <1>6, <1>7, <1>8, <1>9, <1>10, <1>11

(* The user ends with min_return more than before: in the destination      *)
(* account, or in SOL when that was closed (UserGetsMinReturn).            *)
THEOREM V3UserGetsMinReturn == Spec => UserGetsMinReturn
<1> DEFINE A ==
      Commits =>
        /\ req.dst \notin committed'.closed =>
             committed'.tok[req.dst] >= committed.tok[req.dst] + req.minReturn
        /\ req.dst \in committed'.closed /\ req.src # req.dst =>
             UserPurse(committed') >= UserPurse(committed) + req.minReturn
                                      - SolSpent - KeptByVault
<1>1. SettlementInv /\ [Next]_vars => [A]_vars
  <2> SUFFICES ASSUME SettlementInv, [Next]_vars, Commits PROVE A
    OBVIOUS
  <2>1. /\ pc = "check" /\ req \in Requests /\ req.dst \in TokenAccounts
        /\ ActualOut \in Nat /\ committed' = book'
        /\ book'.tok = book.tok /\ book'.closed = book.closed
        /\ UserWallets(book') = UserWallets(book)
        /\ DestinationChange \in Int
        /\ DestinationChange >= req.minReturn /\ req.minReturn \in Nat
        /\ ~Doomed /\ req.dst \notin committed.closed /\ IInv
        /\ book \in Books /\ committed \in Books
    BY CommitFacts
  <2>2. book.tok[req.dst] \in Nat /\ committed.tok[req.dst] \in Nat
    BY <2>1 DEF Books
  <2>3. ASSUME req.dst \notin committed'.closed
        PROVE  committed'.tok[req.dst] >= committed.tok[req.dst] + req.minReturn
    <3>1. DestinationChange = book.tok[req.dst] - committed.tok[req.dst]
      BY <2>1, <2>3 DEF DestinationChange
    <3> QED
      BY <2>1, <2>2, <3>1
  <2>4. ASSUME req.dst \in committed'.closed, req.src # req.dst
        PROVE  UserPurse(committed') >= UserPurse(committed) + req.minReturn
                                        - SolSpent - KeptByVault
    <3>1. /\ DestinationChange = ActualOut
          /\ ReceivedInSol = ActualOut + TOKEN_ACCOUNT_RENT + committed.tok[req.dst]
                             - KeptByVault
          /\ SolSpentSoFar = SolSpent
      BY <2>1, <2>4 DEF DestinationChange, ReceivedInSol, SolSpentSoFar
    <3>2. UserWallets(book) >= UserWallets(committed) + ReceivedInSol - SolSpentSoFar
      BY <2>1, <2>4 DEF SettlementInv, UserCovered
    <3>3. /\ UserPurse(committed') = UserWallets(book)
          /\ UserPurse(committed) = UserWallets(committed)
               + (committed.tok[req.dst] + TOKEN_ACCOUNT_RENT)
      <4>1. UserWallets(book) \in Int
        BY <2>1, WalletsNumber
      <4>2. UserPurse(committed') = UserWallets(book) + 0
        BY <2>1, <2>4 DEF UserPurse
      <4> QED
        BY <2>1, <4>1, <4>2 DEF UserPurse
    <3>4. /\ UserWallets(book) \in Int /\ UserWallets(committed) \in Int
          /\ TOKEN_ACCOUNT_RENT \in Nat /\ KeptByVault \in Nat /\ SolSpent \in Int
      <4>1. FromFee(req) \in Nat /\ MIN_SOL_ACCOUNT_RENT \in Nat /\ TOKEN_ACCOUNT_RENT \in Nat
        BY <2>1, AmountsOf, V3BoundsAssumption DEF IInv
      <4> QED
        BY <2>1, <2>2, <4>1, WalletsNumber DEF KeptByVault, SolSpent
    <3> QED
      BY <2>1, <2>2, <3>1, <3>2, <3>3, <3>4
  <2> QED
    BY <2>3, <2>4
<1> HIDE DEF A
<1>2. Spec => [][A]_vars
  BY <1>1, V3Settlement, PTL DEF Spec
<1> QED
  BY <1>2 DEF A, UserGetsMinReturn

(* Trim takes only of the surplus over the expected amount, whatever the   *)
(* fees took (TrimLeavesExpected).                                         *)
THEOREM V3TrimLeavesExpected == Spec => TrimLeavesExpected
<1> DEFINE A ==
      Commits /\ TrimAndCharge > 0 /\ req.dst \notin {req.src} \cup SaAccounts =>
        DestinationChange >= req.expectOut - Withheld(req.dst, ActualOut)
<1>1. SettlementInv /\ [Next]_vars => [A]_vars
  <2> SUFFICES ASSUME SettlementInv, [Next]_vars, Commits, TrimAndCharge > 0,
                      req.dst \notin {req.src} \cup SaAccounts
               PROVE  DestinationChange >= req.expectOut - Withheld(req.dst, ActualOut)
    OBVIOUS
  <2>1. /\ pc = "check" /\ req \in Requests /\ req.dst \in TokenAccounts
        /\ ActualOut \in Nat /\ RatesAllowed /\ IInv
        /\ book \in Books /\ committed \in Books
    BY CommitFacts
  <2>2. /\ Withheld(req.dst, ActualOut) \in Nat /\ req.expectOut \in Nat
        /\ book.tok[req.dst] \in Nat /\ committed.tok[req.dst] \in Nat
    BY <2>1, WithheldPart, RequestFacts DEF Books
  <2>3. ActualOut >= req.expectOut
    <3>1. /\ out \in Nat /\ ToFee \in 0..out /\ req.trimRate \in Nat
          /\ ActualOut = out - ToFee - TrimAndCharge
      BY <2>1, OutAmounts, RequestFacts DEF IInv
    <3>2. TrimAndCharge = TotalTrim(out, req.expectOut, ToFee, req.trimRate)
      BY DEF TrimAndCharge
    <3> QED
      BY <2>2, <3>1, <3>2, TrimOfSurplus
  <2>4. CASE req.dst \in book.closed
    <3>1. DestinationChange = ActualOut
      BY <2>4 DEF DestinationChange
    <3> QED
      BY <2>1, <2>2, <2>3, <3>1
  <2>5. CASE req.dst \notin book.closed
    <3>1. DestinationChange = book.tok[req.dst] - committed.tok[req.dst]
      BY <2>5 DEF DestinationChange
    <3>2. ReceivedInDst = ActualOut - Withheld(req.dst, ActualOut)
      BY <2>1 DEF ReceivedInDst
    <3>3. book.tok[req.dst] >= committed.tok[req.dst] + ReceivedInDst
      BY <2>1, <2>5 DEF SettlementInv, UserCovered
    <3> QED
      BY <2>1, <2>2, <2>3, <3>1, <3>2, <3>3
  <2> QED
    BY <2>4, <2>5
<1> HIDE DEF A
<1>2. Spec => [][A]_vars
  BY <1>1, V3Settlement, PTL DEF Spec
<1> QED
  BY <1>2 DEF A, TrimLeavesExpected

(* The vault keeps nothing of the user's but what an unwrapped destination *)
(* account held before, and what it advanced is gone (NothingStranded).    *)
THEOREM V3NothingStranded == Spec => NothingStranded
<1> DEFINE A ==
      Commits /\ NoGain =>
        /\ SourceSa(req) # None => committed'.tok[SourceSa(req)] = committed.tok[SourceSa(req)]
        /\ OutputPurse(committed') <= OutputPurse(committed) + KeptByVault - Advanced
<1>1. SettlementInv /\ [Next]_vars => [A]_vars
  <2> SUFFICES ASSUME SettlementInv, [Next]_vars, Commits, NoGain PROVE A
    OBVIOUS
  <2>1. /\ pc = "check" /\ req \in Requests /\ IInv /\ ~Doomed
        /\ committed' = book' /\ book'.tok = book.tok
        /\ req.receiver # SaAuthority => OutputPurse(book') = OutputPurse(book)
        /\ book \in Books /\ committed \in Books
    BY CommitFacts
  <2>2. /\ NoGainAsked /\ spent = req.amountIn /\ PullFee = 0
        /\ req.dst \notin SaAccounts /\ req.receiver # SaAuthority
        /\ SourceSa(req) # None => SourceSa(req) # DestinationSa(req)
    BY DEF NoGain, NoGainAsked
  <2>3. ASSUME SourceSa(req) # None
        PROVE  committed'.tok[SourceSa(req)] = committed.tok[SourceSa(req)]
    <3>1. /\ SourceSa(req) \in SaAccounts /\ SourceSa(req) \in TokenAccounts
          /\ req.amountIn \in Nat
      BY <2>1, <2>3, RequestFacts DEF SaAccounts
    <3>2. SourceSa(req) # DestinationAccount(req)
      BY <2>2, <2>3, <3>1 DEF DestinationAccount
    <3>3. Unspent(SourceSa(req)) = req.amountIn - 0 - req.amountIn
      BY <2>2, <2>3, <3>2 DEF Unspent
    <3>4. book.tok[SourceSa(req)] <= committed.tok[SourceSa(req)] + Unspent(SourceSa(req))
      BY <2>1, <2>2, <2>3 DEF SettlementInv, NothingLeft
    <3>5. book.tok[SourceSa(req)] >= committed.tok[SourceSa(req)] + Unspent(SourceSa(req))
      BY <2>1, <2>2, <2>3, <3>1 DEF IInv, VaultCovered
    <3>6. book.tok[SourceSa(req)] \in Nat /\ committed.tok[SourceSa(req)] \in Nat
      BY <2>1, <3>1 DEF Books
    <3> QED
      BY <2>1, <3>1, <3>3, <3>4, <3>5, <3>6
  <2>4. OutputPurse(committed') <= OutputPurse(committed) + KeptByVault - Advanced
    <3>1. OutputPurse(book) <= OutputPurse(committed) + Owed + KeptByVault
      BY <2>1, <2>2 DEF SettlementInv, NothingLeft
    <3>2. Owed = 0 - Advanced
      BY <2>1 DEF Owed
    <3>3. OutputPurse(committed) \in Int /\ OutputPurse(book) \in Int
      BY <2>1, PurseNumber
    <3>4. Advanced \in Int
      BY <2>1 DEF Advanced, IInv, TypeOK
    <3>5. KeptByVault \in Int
      BY <2>1, RequestFacts DEF KeptByVault, Books
    <3> QED
      BY <2>1, <2>2, <3>1, <3>2, <3>3, <3>4, <3>5
  <2> QED
    BY <2>3, <2>4
<1> HIDE DEF A
<1>2. Spec => [][A]_vars
  BY <1>1, V3Settlement, PTL DEF Spec
<1> QED
  BY <1>2 DEF A, NothingStranded

=============================================================================
