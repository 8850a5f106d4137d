-------------------------- MODULE SwapRouterProofs --------------------------
(***************************************************************************)
(* Proofs about SwapRouter, for every set of accounts, every argument list *)
(* and every bound: its types, the two accounting invariants, that a swap  *)
(* never takes from the vault or more than amount_in from the payer, and   *)
(* that it implements AtomicSwap.                                          *)
(***************************************************************************)
EXTENDS SwapRouter, TLAPS

(* IInv is inductive: types and loop facts feed the accounting invariants, *)
(* which need each other's accounts to be apart.  That the vault holds no  *)
(* less than it must and no more are proved side by side: what a step      *)
(* moves is the same, what it may rely on is not.                          *)

-----------------------------------------------------------------------------
(* What membership of Requests gives.                                      *)
LEMMA RequestType ==
  ASSUME NEW r \in Requests
  PROVE  /\ r.src \in Accounts /\ OwnerOf[r.src] = Payer
         /\ r.src \notin SaAccounts
         /\ r.dst \in Accounts
         /\ r.srcSa \in SaAccounts \cup {ZeroAddress}
         /\ r.dstSa \in SaAccounts \cup {ZeroAddress}
         /\ SourceAccount(r) \in Accounts
         /\ DestinationAccount(r) \in Accounts
         /\ IsArgs(r.args)
         /\ r # NoRequest
<1>1. /\ r.src \in Accounts /\ OwnerOf[r.src] = Payer
      /\ r.dst \in Accounts
      /\ r.srcSa \in SaAccounts \cup {ZeroAddress}
      /\ r.dstSa \in SaAccounts \cup {ZeroAddress}
      /\ IsArgs(r.args)
  BY RequestsAssumption DEF IsRequest, VaultAccountFor, PayerAccounts
<1>2. r.src \notin SaAccounts
  BY <1>1, AccountsAssumption DEF SaAccounts
<1>3. r.src # NoRequest.src
  BY <1>1, AccountsAssumption DEF NoRequest
<1> QED
  BY <1>1, <1>2, <1>3
  DEF SourceAccount, DestinationAccount, ThroughSource, ThroughDestination, SaAccounts

(* What a request uses of the vault, and what each use takes: the swap     *)
(* starts at a vault account only if amount_in was pulled into it, and     *)
(* ends at one only if after_swap pays from it.                            *)
LEMMA SidesType ==
  ASSUME NEW r \in Requests
  PROVE  /\ PullsIn(r) => r.srcSa \in SaAccounts
         /\ HandsOver(r) => r.dstSa \in SaAccounts
         /\ ThroughSource(r) => PullsIn(r) /\ SourceAccount(r) = r.srcSa
         /\ ~ThroughSource(r) => SourceAccount(r) = r.src
         /\ ThroughDestination(r) => HandsOver(r) /\ DestinationAccount(r) = r.dstSa
         /\ ~ThroughDestination(r) => DestinationAccount(r) = r.dst
<1>1. /\ r.srcSa \in SaAccounts \cup {ZeroAddress}
      /\ r.dstSa \in SaAccounts \cup {ZeroAddress}
  BY RequestType
<1> QED
  BY <1>1 DEF PullsIn, HandsOver, ThroughSource, ThroughDestination, CREATES_SA,
              SourceAccount, DestinationAccount

(* The arguments that passed execute_swap's checks: the running totals of  *)
(* the amounts end in amount_in.                                           *)
LEMMA ArgsType ==
  ASSUME NEW a, IsArgs(a), ArgsChecked(a)
  PROVE  /\ a.amountIn \in Nat /\ a.minReturn \in Nat
         /\ Len(a.routes) \in Nat
         /\ a.sums[0] = 0
         /\ a.sums[Len(a.routes)] = a.amountIn
         /\ \A i \in 0..Len(a.routes) : a.sums[i] \in Nat
         /\ \A i \in 1..Len(a.routes) :
              /\ a.amounts[i] \in Nat
              /\ a.sums[i] = a.sums[i - 1] + a.amounts[i]
              /\ a.routes[i] \in Seq(Seq(Nat))
<1>1. /\ a.amountIn \in Nat /\ a.minReturn \in Nat
      /\ a.amounts \in Seq(Nat)
      /\ a.routes \in Seq(Seq(Seq(Nat)))
      /\ Len(a.routes) = Len(a.amounts)
      /\ a.sums \in [0..Len(a.amounts) -> Nat]
      /\ a.sums[0] = 0
      /\ a.sums[Len(a.amounts)] = a.amountIn
      /\ \A i \in 1..Len(a.amounts) : a.sums[i] = a.sums[i - 1] + a.amounts[i]
  BY DEF IsArgs, ArgsChecked
<1>2. Len(a.routes) \in Nat
  BY <1>1
<1>3. \A i \in 0..Len(a.routes) : a.sums[i] \in Nat
  BY <1>1
<1>4. \A i \in 1..Len(a.routes) : a.amounts[i] \in Nat
  BY <1>1
<1>5. \A i \in 1..Len(a.routes) : a.routes[i] \in Seq(Seq(Nat))
  BY <1>1
<1> QED
  BY <1>1, <1>2, <1>3, <1>4, <1>5

(* What a token transfer does to the balances.                             *)
LEMMA TransferEffect ==
  ASSUME NEW b \in [Accounts -> 0..MaxBal],
         NEW from \in Accounts, NEW to \in Accounts, NEW x \in 0..MaxBal,
         x <= b[from]
  PROVE  LET b2 == Transfer(b, from, to, x)
             fee == TransferFee(MintOf[to], x)
         IN  /\ fee \in 0..x
             /\ b2 = [a \in Accounts |-> b2[a]]
             /\ \A a \in Accounts : b2[a] \in Nat
             /\ \A a \in Accounts : b2[a] >= b[a] - (IF a = from THEN x ELSE 0)
             /\ from # to => b2[from] = b[from] - x
             /\ b2[to] = b[to] + x - fee - (IF from = to THEN x ELSE 0)
             /\ \A a \in Accounts \ {from, to} : b2[a] = b[a]
<1>1. TransferFee(MintOf[to], x) \in 0..x
  BY AccountsAssumption, TransferFeeAssumption
<1>2. MaxBal \in Nat /\ TransferFee(MintOf[to], x) \in Nat /\ x \in Nat
  BY <1>1, BoundsAssumption
<1> QED
  BY <1>1, <1>2 DEF Transfer, Move

(* Shares of a hop are natural numbers.                                    *)
LEMMA ShareType ==
  ASSUME NEW x \in Nat, NEW w \in Nat
  PROVE  (x * w) \div TOTAL_WEIGHT \in Nat
<1>1. x * w \in Nat
  OBVIOUS
<1>2. \A y \in Nat : y \div 100 \in Nat
  OBVIOUS
<1> QED
  BY <1>1, <1>2 DEF TOTAL_WEIGHT

-----------------------------------------------------------------------------
(* What the invariant says in the middle of an instruction.                *)
LEMMA SwapState ==
  ASSUME IInv, phase = "swap"
  PROVE  /\ req \in Requests
         /\ req # NoRequest
         /\ ArgsChecked(req.args)
         /\ Hops \in Seq(Seq(Nat))
         /\ route \in 0..Len(req.args.routes)
         /\ PullFee(req) \in Nat
<1>1. req \in Requests
  BY DEF IInv, TypeOK
<1>2. ArgsChecked(req.args) /\ PullFee(req) \in 0..MaxBal
  BY DEF IInv, LoopInv
<1>3. IsArgs(req.args)
  BY <1>1, RequestType
<1>4. route \in Nat /\ route <= Len(req.args.routes)
  BY DEF IInv, TypeOK
<1>5. /\ Len(req.args.routes) \in Nat
      /\ \A i \in 1..Len(req.args.routes) : req.args.routes[i] \in Seq(Seq(Nat))
  BY <1>2, <1>3, ArgsType
<1>6. Hops \in Seq(Seq(Nat))
  BY <1>4, <1>5 DEF Hops
<1>7. PullFee(req) \in Nat
  BY <1>2, BoundsAssumption
<1>8. req # NoRequest
  BY <1>1, RequestType
<1> QED
  BY <1>1, <1>2, <1>4, <1>5, <1>6, <1>7, <1>8

(* The hop at work, when the route is not done.                            *)
LEMMA HopState ==
  ASSUME IInv, phase = "swap", ~RouteDone
  PROVE  /\ hop \in 1..Len(Hops)
         /\ route > 0
         /\ Weights \in Seq(Nat)
<1>1. Hops \in Seq(Seq(Nat))
  BY SwapState
<1>2. hop \in Nat \ {0} /\ route \in Nat
  BY DEF IInv, TypeOK
<1>3. hop \in 1..Len(Hops)
  BY <1>1, <1>2 DEF RouteDone
<1>4. route # 0
  BY <1>3 DEF Hops
<1> QED
  BY <1>1, <1>2, <1>3, <1>4 DEF Weights

-----------------------------------------------------------------------------
LEMMA InitIInv == Init => IInv
<1> SUFFICES ASSUME Init PROVE IInv
  OBVIOUS
<1>1. TypeOK
  <2>1. 0 \in 0..MaxBal /\ bal \in [Accounts -> 0..MaxBal]
    BY BoundsAssumption DEF Init
  <2>2. /\ bal \in [Accounts -> 0..MaxBal] /\ ledger \in [Accounts -> 0..MaxBal]
        /\ outBefore \in 0..MaxBal
    BY <2>1 DEF Init
  <2>3. {lastTo, hopFrom, hopTo} \subseteq Accounts \cup {ZeroAddress}
    BY DEF Init
  <2>4. /\ phase \in {"idle", "swap"} /\ phase # "swap"
        /\ IF phase = "idle" THEN req = NoRequest ELSE req \in Requests
        /\ underspent \in BOOLEAN
    BY DEF Init
  <2>5. /\ route \in Nat /\ hop \in Nat \ {0} /\ fork \in Nat \ {0}
        /\ amountIn \in Nat /\ accForkIn \in Nat /\ amountOut \in Nat
        /\ commits \in Nat
    BY DEF Init
  <2> QED
    BY <2>2, <2>3, <2>4, <2>5 DEF TypeOK
<1>2. LoopInv
  BY DEF Init, LoopInv
<1>3. VaultCovered /\ PayerCovered /\ NothingLeft
  BY DEF Init, VaultCovered, PayerCovered, NothingLeft
<1> QED
  BY <1>1, <1>2, <1>3 DEF IInv

(* Begin: the pull of amount_in is what the vault now holds.               *)
LEMMA BeginIInv ==
  ASSUME IInv, NEW r \in Requests, Begin(r)
  PROVE  IInv'
<1>1. /\ phase = "idle" /\ phase' = "swap"
      /\ req' = r
      /\ ArgsChecked(r.args)
      /\ bal' = BeforeSwap(r)
      /\ outBefore' = bal'[DestinationAccount(r)]
      /\ UNCHANGED <<ledger, underspent, commits>>
      /\ UNCHANGED <<route, hop, fork, amountIn, accForkIn, amountOut,
                     lastTo, hopFrom, hopTo>>
  BY DEF Begin, loopVars
<1>2. /\ TypeOK
      /\ bal = ledger /\ route = 0 /\ hop = 1 /\ fork = 1
      /\ hopFrom = ZeroAddress /\ amountOut = 0
  BY <1>1 DEF IInv, LoopInv
<1>3. /\ r.src \in Accounts \ SaAccounts
      /\ r.srcSa \in SaAccounts \cup {ZeroAddress}
      /\ DestinationAccount(r) \in Accounts
      /\ r.args.amountIn \in Nat /\ r.args.sums[0] = 0
      /\ Len(r.args.routes) \in Nat
  BY <1>1, RequestType, ArgsType
<1>4. SaAccounts \subseteq Accounts /\ ZeroAddress \notin Accounts
  BY AccountsAssumption DEF SaAccounts
<1>5. /\ bal' \in [Accounts -> 0..MaxBal]
      /\ PullFee(r) \in 0..MaxBal
      /\ \A a \in Accounts \ {r.src} : bal'[a] >= bal[a]
      /\ bal'[r.src] >= bal[r.src]
                         - (IF PullsIn(r) THEN r.args.amountIn ELSE 0)
      /\ PullsIn(r) =>
           bal'[r.srcSa] = bal[r.srcSa] + r.args.amountIn - PullFee(r)
  <2>1. CASE ~PullsIn(r)
    BY <1>1, <1>2, <1>3, <2>1, BoundsAssumption DEF TypeOK, BeforeSwap, PullFee
  <2>2. CASE PullsIn(r)
    <3>1. /\ bal[r.src] >= r.args.amountIn
          /\ bal[r.srcSa] + r.args.amountIn <= MaxBal
          /\ bal' = Transfer(bal, r.src, r.srcSa, r.args.amountIn)
          /\ r.srcSa \in Accounts /\ r.src \in Accounts /\ r.src # r.srcSa
          /\ bal \in [Accounts -> 0..MaxBal]
          /\ PullFee(r) = TransferFee(MintOf[r.srcSa], r.args.amountIn)
      BY <1>1, <1>2, <1>3, <1>4, <2>2, SidesType DEF Begin, BeforeSwap, TypeOK, PullFee
    <3>2. r.args.amountIn \in 0..MaxBal /\ MaxBal \in Nat
      BY <1>3, <3>1, BoundsAssumption
    <3>3. /\ PullFee(r) \in 0..r.args.amountIn
          /\ bal' = [a \in Accounts |-> bal'[a]]
          /\ \A a \in Accounts : bal'[a] \in Nat
          /\ bal'[r.src] = bal[r.src] - r.args.amountIn
          /\ bal'[r.srcSa] = bal[r.srcSa] + r.args.amountIn - PullFee(r)
          /\ \A a \in Accounts \ {r.src, r.srcSa} : bal'[a] = bal[a]
      BY <3>1, <3>2, TransferEffect
    <3>4. \A a \in Accounts : bal[a] \in 0..MaxBal /\ bal'[a] \in 0..MaxBal
      BY <3>1, <3>2, <3>3
    <3> QED
      BY <2>2, <3>1, <3>2, <3>3, <3>4
  <2> QED
    BY <2>1, <2>2
<1>6. TypeOK'
  BY <1>1, <1>2, <1>3, <1>5 DEF TypeOK
<1>7. PullFee(req)' = PullFee(r)
  BY <1>1 DEF PullFee
<1>8. RouteDone' /\ Remaining' = 0
  BY <1>1, <1>2 DEF RouteDone, Hops, Remaining
<1>9. LoopInv'
  BY <1>1, <1>2, <1>5, <1>7 DEF LoopInv, TypeOK, RouteDone, Hops
<1>10. VaultCovered'
  <2>1. \A a : HeldFor(a)' = IF a = r.srcSa /\ PullsIn(r)
                              THEN r.args.amountIn - PullFee(r) ELSE 0
    BY <1>1, <1>2, <1>3, <1>5, <1>7, <1>8, BoundsAssumption DEF HeldFor
  <2>2. \A a \in Accounts : bal[a] \in Nat /\ ledger[a] \in Nat /\ bal'[a] \in Nat
    BY <1>2, <1>5, BoundsAssumption DEF TypeOK
  <2>3. ASSUME NEW a \in SaAccounts PROVE bal'[a] >= ledger'[a] + HeldFor(a)'
    <3>1. a \in Accounts \ {r.src} /\ PullFee(r) \in Nat
      BY <1>3, <1>4, <1>5, BoundsAssumption
    <3>2. CASE a = r.srcSa /\ PullsIn(r)
      <4>1. HeldFor(a)' = r.args.amountIn - PullFee(r)
        BY <2>1, <3>2
      <4> QED
        BY <1>1, <1>2, <1>3, <1>5, <2>2, <3>1, <3>2, <4>1
    <3>3. CASE ~(a = r.srcSa /\ PullsIn(r))
      <4>1. HeldFor(a)' = 0
        BY <2>1, <3>3
      <4> QED
        BY <1>1, <1>2, <1>5, <2>2, <3>1, <4>1
    <3> QED
      BY <3>2, <3>3
  <2>4. DestinationAccount(r) # r.src => outBefore' >= ledger'[DestinationAccount(r)]
    BY <1>1, <1>2, <1>3, <1>5, <2>2
  <2>5. DestinationAccount(req)' = DestinationAccount(r)
    BY <1>1 DEF DestinationAccount, ThroughDestination
  <2> QED
    BY <1>1, <2>3, <2>4, <2>5 DEF VaultCovered
<1>11. PayerCovered'
  <2>1. ChargedSoFar' = IF r.srcSa = ZeroAddress THEN 0 ELSE r.args.amountIn
    BY <1>1, <1>2, <1>3, <1>8 DEF ChargedSoFar, ProxyFrom
  <2>1a. PullsIn(r) => r.srcSa # ZeroAddress
    BY DEF PullsIn
  <2>2. \A a \in Accounts : bal[a] \in Nat /\ bal'[a] \in Nat
    BY <1>2, <1>5, BoundsAssumption DEF TypeOK
  <2>3. Shielded(r) \subseteq Accounts
    BY <1>3 DEF Shielded
  <2>4. \A a \in Shielded(r) :
          bal'[a] >= bal[a] - (IF a = r.src THEN ChargedSoFar' ELSE 0)
    BY <1>3, <1>5, <2>1, <2>1a, <2>2, <2>3
  <2> QED
    BY <1>1, <1>2, <2>4 DEF PayerCovered, Shielded
<1>12. NothingLeft'
  <2> SUFFICES ASSUME LeavesNothing'
               PROVE  /\ \A a \in SaAccounts \ {DestinationAccount(r)} :
                           bal'[a] <= ledger[a] + HeldFor(a)'
                      /\ DestinationAccount(r) \in SaAccounts =>
                           outBefore' <= ledger[DestinationAccount(r)]
    BY <1>1 DEF NothingLeft, DestinationAccount, ThroughDestination
  <2>1. /\ PullFee(r) = 0
        /\ r.dst \notin SaAccounts
        /\ r.srcSa # ZeroAddress => r.srcSa # r.dstSa
    BY <1>1, <1>7 DEF LeavesNothing, ProxyFrom
  <2>2. \A a : HeldFor(a)' = IF a = r.srcSa /\ PullsIn(r)
                              THEN r.args.amountIn - PullFee(r) ELSE 0
    BY <1>1, <1>2, <1>3, <1>5, <1>7, <1>8, BoundsAssumption DEF HeldFor
  <2>3. \A a \in Accounts : bal[a] \in Nat /\ ledger[a] \in Nat /\ bal'[a] \in Nat
    BY <1>2, <1>5, BoundsAssumption DEF TypeOK
  <2>4. \A a \in SaAccounts : a # r.srcSa \/ ~PullsIn(r) => bal'[a] = bal[a]
    <3>1. CASE ~PullsIn(r)
      BY <1>1, <3>1 DEF BeforeSwap
    <3>2. CASE PullsIn(r)
      <4>1. \A a \in Accounts : bal'[a] = Transfer(bal, r.src, r.srcSa, r.args.amountIn)[a]
        BY <1>1, <3>2 DEF BeforeSwap
      <4>2. \A a \in Accounts \ {r.src, r.srcSa} : bal'[a] = bal[a] - 0 + 0
        BY <4>1 DEF Transfer, Move
      <4> QED
        BY <1>3, <1>4, <2>3, <3>2, <4>2
    <3> QED
      BY <3>1, <3>2
  <2>5. ASSUME NEW a \in SaAccounts PROVE bal'[a] <= ledger[a] + HeldFor(a)'
    <3>1. CASE a = r.srcSa /\ PullsIn(r)
      BY <1>2, <1>3, <1>4, <1>5, <2>1, <2>2, <2>3, <3>1
    <3>2. CASE a # r.srcSa \/ ~PullsIn(r)
      BY <1>2, <1>4, <2>2, <2>3, <2>4, <3>2
    <3> QED
      BY <3>1, <3>2
  <2>6. ASSUME DestinationAccount(r) \in SaAccounts
        PROVE  outBefore' <= ledger[DestinationAccount(r)]
    <3>1. DestinationAccount(r) # r.srcSa
      BY <1>4, <2>1, <2>6, SidesType, RequestType
    <3> QED
      BY <1>1, <1>2, <1>3, <2>3, <2>4, <2>6, <3>1
  <2> QED
    BY <2>5, <2>6
<1> QED
  BY <1>6, <1>9, <1>10, <1>11, <1>12 DEF IInv

(* Failure and the end of an instruction leave nothing pending.            *)
LEMMA QuietIInv ==
  ASSUME Quiet, bal' \in [Accounts -> 0..MaxBal], ledger' = bal', commits' \in Nat
  PROVE  IInv'
<1>1. /\ phase' = "idle" /\ req' = NoRequest /\ outBefore' = 0
      /\ route' = 0 /\ hop' = 1 /\ fork' = 1
      /\ amountIn' = 0 /\ accForkIn' = 0 /\ amountOut' = 0
      /\ lastTo' = ZeroAddress /\ hopFrom' = ZeroAddress /\ hopTo' = ZeroAddress
      /\ underspent' = FALSE
  BY DEF Quiet, ResetHop, RequestAfter
<1>2. TypeOK'
  <2>1. 0 \in 0..MaxBal
    BY BoundsAssumption
  <2>2. {lastTo', hopFrom', hopTo'} \subseteq Accounts \cup {ZeroAddress}
    BY <1>1
  <2>3. /\ phase' \in {"idle", "swap"} /\ phase' # "swap"
        /\ IF phase' = "idle" THEN req' = NoRequest ELSE req' \in Requests
        /\ underspent' \in BOOLEAN
    BY <1>1
  <2>4. /\ route' \in Nat /\ hop' \in Nat \ {0} /\ fork' \in Nat \ {0}
        /\ amountIn' \in Nat /\ accForkIn' \in Nat /\ amountOut' \in Nat
        /\ outBefore' \in 0..MaxBal
    BY <1>1, <2>1
  <2> QED
    BY <2>2, <2>3, <2>4 DEF TypeOK, NoRequest
<1>3. LoopInv'
  BY <1>1 DEF LoopInv
<1>4. VaultCovered' /\ PayerCovered' /\ NothingLeft'
  BY <1>1 DEF VaultCovered, PayerCovered, NothingLeft
<1> QED
  BY <1>2, <1>3, <1>4 DEF IInv

(* StartRoute: what the source account owes moves from the routes still to *)
(* come to the first hop of this one.                                      *)
LEMMA StartRouteIInv ==
  ASSUME IInv, StartRoute
  PROVE  IInv'
<1>1. /\ phase = "swap" /\ RouteDone
      /\ route < Len(req.args.routes)
      /\ route' = route + 1 /\ hop' = 1 /\ fork' = 1
      /\ amountIn' = req.args.amounts[route + 1]
      /\ accForkIn' = 0 /\ amountOut' = 0
      /\ lastTo' = ZeroAddress /\ hopFrom' = ZeroAddress /\ hopTo' = ZeroAddress
      /\ UNCHANGED <<bal, ledger, phase, req, outBefore, underspent, commits>>
  BY DEF StartRoute, ResetHop
<1>2. TypeOK /\ LoopInv /\ VaultCovered /\ PayerCovered /\ NothingLeft
  BY DEF IInv
<1>3. /\ req \in Requests /\ req # NoRequest /\ ArgsChecked(req.args)
      /\ route \in 0..Len(req.args.routes) /\ PullFee(req) \in Nat
  BY <1>1, SwapState
<1>4. IsArgs(req.args)
  BY <1>3, RequestType
<1>5. /\ req.args.amountIn \in Nat /\ Len(req.args.routes) \in Nat
      /\ route + 1 \in 1..Len(req.args.routes)
      /\ req.args.amounts[route + 1] \in Nat
      /\ req.args.sums[route] \in Nat
      /\ req.args.sums[route + 1] = req.args.sums[route] + req.args.amounts[route + 1]
  <2>1. Len(req.args.routes) \in Nat /\ route + 1 \in 1..Len(req.args.routes)
    BY <1>1, <1>3, <1>4, ArgsType
  <2>2. req.args.sums[route + 1]
          = req.args.sums[(route + 1) - 1] + req.args.amounts[route + 1]
    BY <1>3, <1>4, <2>1, ArgsType
  <2>3. (route + 1) - 1 = route
    BY <1>3
  <2> QED
    BY <1>3, <1>4, <2>1, <2>2, <2>3, ArgsType
<1>6. TypeOK'
  BY <1>1, <1>2, <1>3, <1>5 DEF TypeOK
<1>7. PullFee(req)' = PullFee(req)
  BY <1>1 DEF PullFee
<1>8. hopFrom = ZeroAddress /\ ~OffSource /\ amountOut = 0
  BY <1>1, <1>2 DEF LoopInv, OffSource
<1>9. LoopInv'
  BY <1>1, <1>2, <1>7 DEF LoopInv
<1>10. Remaining = 0 /\ Remaining' \in 0..req.args.amounts[route + 1]
  BY <1>1, <1>5 DEF Remaining
<1>11. VaultCovered'
  <2>1. SaAccounts \subseteq Accounts
    BY DEF SaAccounts
  <2>2. \A a \in Accounts : bal[a] \in Nat /\ ledger[a] \in Nat
    BY <1>2, BoundsAssumption DEF TypeOK
  <2>3. ASSUME NEW a \in SaAccounts
        PROVE  HeldFor(a)' <= HeldFor(a) /\ HeldFor(a) \in Int /\ HeldFor(a)' \in Int
    <3> DEFINE due == IF a = req.srcSa /\ PullsIn(req)
                      THEN req.args.amountIn - req.args.sums[route] - PullFee(req)
                      ELSE 0
               taken == IF a = req.srcSa /\ PullsIn(req) THEN req.args.amounts[route + 1] ELSE 0
               offered == IF SignedBySa' /\ a = SourceAccount(req) THEN Remaining' ELSE 0
    <3>1. due \in Int /\ taken \in Nat /\ offered \in 0..taken
      <4>1. a = SourceAccount(req) => a = req.srcSa /\ PullsIn(req)
        BY <1>3, RequestType, SidesType
      <4> QED
        BY <1>3, <1>5, <1>10, <4>1
    <3>2. HeldFor(a) = due + 0 + 0
      BY <1>8, <1>10 DEF HeldFor
    <3>3. HeldFor(a)' = (due - taken) + offered + 0
      <4>1. HeldFor(a)' =
              (IF a = req.srcSa /\ PullsIn(req)
               THEN req.args.amountIn - req.args.sums[route + 1] - PullFee(req)
               ELSE 0)
              + offered + (IF a = ZeroAddress THEN 0 ELSE 0)
        BY <1>1, <1>7 DEF HeldFor, PullsIn, SourceAccount, ThroughSource
      <4>2. due - taken =
              IF a = req.srcSa /\ PullsIn(req)
              THEN req.args.amountIn - req.args.sums[route + 1] - PullFee(req)
              ELSE 0
        BY <1>3, <1>5
      <4> QED
        BY <4>1, <4>2
    <3> HIDE DEF due, taken, offered
    <3> QED
      BY <3>1, <3>2, <3>3
  <2>4. ASSUME NEW a \in SaAccounts
        PROVE  bal'[a] >= ledger'[a] + HeldFor(a)'
    BY <1>1, <1>2, <1>8, <2>1, <2>2, <2>3 DEF VaultCovered
  <2> QED
    BY <1>1, <1>2, <1>7, <1>8, <2>4 DEF VaultCovered, DestinationAccount, ThroughDestination
<1>12. PayerCovered'
  <2>1. \A a \in Accounts : bal[a] \in Nat /\ ledger[a] \in Nat
    BY <1>2, BoundsAssumption DEF TypeOK
  <2>2. ChargedSoFar <= ChargedSoFar' /\ ChargedSoFar \in Int /\ ChargedSoFar' \in Int
    <3>1. ChargedSoFar = IF ProxyFrom THEN req.args.amountIn
                         ELSE req.args.sums[route] - 0
      BY <1>10 DEF ChargedSoFar
    <3>2. ChargedSoFar' = IF ProxyFrom THEN req.args.amountIn
                          ELSE req.args.sums[route + 1] - Remaining'
      BY <1>1 DEF ChargedSoFar, ProxyFrom
    <3> QED
      BY <1>5, <1>10, <3>1, <3>2
  <2> QED
    BY <1>1, <1>2, <1>3, <1>8, <2>1, <2>2, RequestType DEF PayerCovered, Shielded
<1>13. NothingLeft'
  <2> SUFFICES ASSUME LeavesNothing', ~StuckHop'
               PROVE  /\ \A a \in SaAccounts \ {DestinationAccount(req)} :
                           bal[a] <= ledger[a] + HeldFor(a)'
                      /\ DestinationAccount(req) \in SaAccounts =>
                           outBefore <= ledger[DestinationAccount(req)]
    BY <1>1 DEF NothingLeft, DestinationAccount, ThroughDestination
  <2>1. LeavesNothing /\ ~StuckHop
    BY <1>1, <1>7 DEF LeavesNothing, ProxyFrom, StuckHop
  <2>2. /\ \A a \in SaAccounts \ {DestinationAccount(req)} :
             bal[a] <= ledger[a] + HeldFor(a)
        /\ DestinationAccount(req) \in SaAccounts =>
             outBefore <= ledger[DestinationAccount(req)]
    BY <1>1, <1>2, <1>8, <2>1 DEF NothingLeft
  <2>3. Remaining' = req.args.amounts[route + 1]
    <3> DEFINE hops == req.args.routes[route + 1]
    <3>1. hops \in Seq(Seq(Nat)) /\ hops # <<>>
      BY <1>3, <1>4, <1>5, <2>1, ArgsType DEF LeavesNothing
    <3>2. Hops' = hops
      BY <1>1, <1>3 DEF Hops
    <3> HIDE DEF hops
    <3>3. Len(hops) \in Nat /\ Len(hops) # 0
      BY <3>1
    <3>4. ~RouteDone' /\ Weights' \in Seq(Nat)
      BY <1>1, <3>1, <3>2, <3>3 DEF RouteDone, Weights
    <3>5. Len(Weights') \in Nat /\ Len(Weights') # 0
      BY <3>4 DEF StuckHop
    <3> QED
      BY <1>1, <1>5, <3>4, <3>5 DEF Remaining
  <2>5. ~RouteDone'
    BY <1>3, <1>4, <1>5, <2>1, ArgsType, <1>1 DEF LeavesNothing, RouteDone, Hops
  <2>4. ASSUME NEW a \in SaAccounts PROVE HeldFor(a)' = HeldFor(a)
    <3> DEFINE due == IF a = req.srcSa /\ PullsIn(req)
                      THEN req.args.amountIn - req.args.sums[route] - PullFee(req)
                      ELSE 0
               taken == IF a = req.srcSa /\ PullsIn(req) THEN req.args.amounts[route + 1] ELSE 0
    <3>1. due \in Int /\ taken \in Nat /\ a # ZeroAddress
      BY <1>3, <1>5, AccountsAssumption DEF SaAccounts
    <3>2. HeldFor(a) = due + 0 + 0
      BY <1>8, <1>10 DEF HeldFor
    <3>3. HeldFor(a)' =
            (IF a = req.srcSa /\ PullsIn(req)
             THEN req.args.amountIn - req.args.sums[route + 1] - PullFee(req)
             ELSE 0)
            + (IF SignedBySa' /\ a = SourceAccount(req)
               THEN req.args.amounts[route + 1] ELSE 0)
            + (IF a = ZeroAddress THEN 0 ELSE 0)
      BY <1>1, <1>7, <2>3 DEF HeldFor, PullsIn, SourceAccount, ThroughSource
    <3>4. a = req.srcSa /\ PullsIn(req) <=> SignedBySa' /\ a = SourceAccount(req)
      <4>1. a = SourceAccount(req) => a = req.srcSa /\ PullsIn(req)
        BY <1>3, RequestType, SidesType
      <4>2. a = req.srcSa => SignedBySa' /\ ThroughSource(req)
        BY <1>1, <2>5, <3>1 DEF SignedBySa, ProxyFrom, StuckHop, ThroughSource
      <4> QED
        BY <1>3, <4>1, <4>2, SidesType
    <3>5. (IF a = req.srcSa /\ PullsIn(req)
           THEN req.args.amountIn - req.args.sums[route + 1] - PullFee(req)
           ELSE 0) = due - taken
      BY <1>3, <1>5
    <3>6. HeldFor(a)' = (due - taken) + taken + 0
      BY <3>3, <3>4, <3>5
    <3> HIDE DEF due, taken
    <3> QED
      BY <3>1, <3>2, <3>6
  <2> QED
    BY <2>2, <2>4
<1> QED
  BY <1>6, <1>9, <1>11, <1>12, <1>13 DEF IInv

(* EndHop: what the hop gave is the next hop's input.                      *)
LEMMA EndHopIInv ==
  ASSUME IInv, EndHop
  PROVE  IInv'
<1>1. /\ phase = "swap" /\ ~RouteDone
      /\ fork > Len(Weights) /\ Weights # <<>>
      /\ EndsChecked
      /\ amountIn' = amountOut
      /\ lastTo' = hopTo
      /\ hop' = hop + 1 /\ fork' = 1
      /\ accForkIn' = 0 /\ amountOut' = 0
      /\ hopFrom' = ZeroAddress /\ hopTo' = ZeroAddress
      /\ UNCHANGED <<bal, ledger, phase, req, outBefore, route, underspent, commits>>
  BY DEF EndHop, ResetHop, NextAmountIn, WeightsSumTo100
<1>2. TypeOK /\ LoopInv /\ VaultCovered /\ PayerCovered /\ NothingLeft
  BY DEF IInv
<1>3. /\ req \in Requests /\ ArgsChecked(req.args)
      /\ route \in 0..Len(req.args.routes) /\ PullFee(req) \in Nat
  BY <1>1, SwapState
<1>4. /\ hop \in 1..Len(Hops) /\ Weights \in Seq(Nat)
  BY <1>1, HopState
<1>5. fork > 1
  BY <1>1, <1>2, <1>4 DEF TypeOK
<1>6. hopTo \in Accounts
  BY <1>1, <1>2, <1>5 DEF LoopInv
<1>7. TypeOK'
  BY <1>1, <1>2, <1>3, <1>4 DEF TypeOK
<1>8. PullFee(req)' = PullFee(req)
  BY <1>1 DEF PullFee
<1>9. LoopInv'
  BY <1>1, <1>2, <1>6, <1>8 DEF LoopInv
<1>10. ~OffSource
  BY <1>1 DEF OffSource, EndsChecked
<1>11. hop \in Nat /\ hop' # 1 /\ hop' > 1 /\ amountOut \in Nat
  BY <1>1, <1>2, <1>4 DEF TypeOK
<1>12. Remaining = 0 /\ Remaining' \in 0..amountOut
  BY <1>1, <1>11 DEF Remaining
<1>13. req.args.amountIn \in Nat /\ req.args.sums[route] \in Nat
  BY <1>3, RequestType, ArgsType
<1>14. \A a \in Accounts : bal[a] \in Nat /\ ledger[a] \in Nat
  BY <1>2, BoundsAssumption DEF TypeOK
<1>15. VaultCovered'
  <2>1. SaAccounts \subseteq Accounts
    BY DEF SaAccounts
  <2>2. ASSUME NEW a \in SaAccounts
        PROVE  HeldFor(a)' <= HeldFor(a) /\ HeldFor(a) \in Int /\ HeldFor(a)' \in Int
    <3> DEFINE due == IF a = req.srcSa /\ PullsIn(req)
                      THEN req.args.amountIn - req.args.sums[route] - PullFee(req)
                      ELSE 0
               offered == IF SignedBySa' /\ a = hopTo THEN Remaining' ELSE 0
    <3>1. due \in Int
      BY <1>3, <1>13
    <3>2. HeldFor(a) = due + 0 + (IF a = hopTo THEN amountOut ELSE 0)
      BY <1>12 DEF HeldFor
    <3>3. HeldFor(a)' = due + offered + (IF a = ZeroAddress THEN 0 ELSE 0)
      BY <1>1, <1>8, <1>11 DEF HeldFor
    <3>4. offered \in 0..(IF a = hopTo THEN amountOut ELSE 0)
      BY <1>11, <1>12
    <3> HIDE DEF due, offered
    <3> QED
      BY <1>11, <3>1, <3>2, <3>3, <3>4
  <2>3. ASSUME NEW a \in SaAccounts
        PROVE  bal'[a] >= ledger'[a] + HeldFor(a)'
    BY <1>1, <1>2, <1>10, <1>14, <2>1, <2>2 DEF VaultCovered
  <2> QED
    BY <1>1, <1>2, <1>8, <1>10, <2>3 DEF VaultCovered, DestinationAccount, ThroughDestination
<1>16. PayerCovered'
  <2>1. ChargedSoFar' = ChargedSoFar
    BY <1>1, <1>11, <1>12, <1>13 DEF ChargedSoFar, ProxyFrom
  <2> QED
    BY <1>1, <1>2, <1>10, <2>1 DEF PayerCovered
<1>17. NothingLeft'
  <2> SUFFICES ASSUME LeavesNothing', ~StuckHop'
               PROVE  /\ \A a \in SaAccounts \ {DestinationAccount(req)} :
                           bal[a] <= ledger[a] + HeldFor(a)'
                      /\ DestinationAccount(req) \in SaAccounts =>
                           outBefore <= ledger[DestinationAccount(req)]
    BY <1>1 DEF NothingLeft, DestinationAccount, ThroughDestination
  <2>1. LeavesNothing /\ ~StuckHop
    <3>1. ASSUME hop = 1 /\ ProxyFrom PROVE ThroughSource(req)
      <4>1. OwnerOf[SourceAccount(req)] = SaAuthority
        BY <1>1, <1>2, <1>5, <3>1 DEF LoopInv, EndsChecked, Signer, SignedBySa
      <4> QED
        BY <1>3, <4>1, RequestType, SidesType, AccountsAssumption
    <3> QED
      BY <1>1, <1>8, <3>1 DEF LeavesNothing, ProxyFrom, StuckHop
  <2>2. /\ \A a \in SaAccounts \ {DestinationAccount(req)} :
             bal[a] <= ledger[a] + HeldFor(a)
        /\ DestinationAccount(req) \in SaAccounts =>
             outBefore <= ledger[DestinationAccount(req)]
    BY <1>1, <1>2, <1>10, <2>1 DEF NothingLeft
  <2>3. CASE hop = Len(Hops)
    <3>1. hopTo = DestinationAccount(req)
      BY <1>1, <2>3 DEF EndsChecked
    <3>2. ASSUME NEW a \in SaAccounts \ {DestinationAccount(req)}
          PROVE  HeldFor(a)' = HeldFor(a)
      <4> DEFINE due == IF a = req.srcSa /\ PullsIn(req)
                        THEN req.args.amountIn - req.args.sums[route] - PullFee(req)
                        ELSE 0
      <4>1. due \in Int
        BY <1>3, <1>13
      <4>2. HeldFor(a) = due + 0 + 0
        BY <1>12, <3>1 DEF HeldFor
      <4>3. HeldFor(a)' = due + 0 + 0
        <5>1. HeldFor(a)' = due + (IF SignedBySa' /\ a = hopTo THEN Remaining' ELSE 0)
                                + (IF a = ZeroAddress THEN 0 ELSE 0)
          BY <1>1, <1>8, <1>11 DEF HeldFor, PullsIn
        <5> QED
          BY <3>1, <5>1
      <4> QED
        BY <4>2, <4>3
    <3> QED
      BY <2>2, <3>2
  <2>4. CASE hop # Len(Hops)
    <3>1. Hops \in Seq(Seq(Nat)) /\ Hops' = Hops /\ hop' \in 1..Len(Hops)
      <4>1. Hops \in Seq(Seq(Nat)) /\ Len(Hops) \in Nat
        BY <1>1, SwapState
      <4>2. Hops' = Hops
        BY <1>1 DEF Hops
      <4> QED
        BY <1>1, <1>4, <2>4, <4>1, <4>2
    <3>2. ~RouteDone' /\ Weights' \in Seq(Nat)
      BY <3>1 DEF RouteDone, Weights
    <3>3. Len(Weights') \in Nat /\ Len(Weights') # 0
      BY <3>2 DEF StuckHop
    <3>4. Remaining' = amountOut
      BY <1>1, <1>11, <3>2, <3>3 DEF Remaining
    <3>5. ASSUME NEW a \in SaAccounts PROVE HeldFor(a)' = HeldFor(a)
      <4> DEFINE due == IF a = req.srcSa /\ PullsIn(req)
                        THEN req.args.amountIn - req.args.sums[route] - PullFee(req)
                        ELSE 0
                 gave == IF a = hopTo THEN amountOut ELSE 0
      <4>1. due \in Int /\ gave \in Nat
        BY <1>3, <1>11, <1>13
      <4>2. HeldFor(a) = due + 0 + gave
        BY <1>12 DEF HeldFor
      <4>3. HeldFor(a)' = due + gave + 0
        BY <1>1, <1>8, <1>11, <3>4 DEF HeldFor, SignedBySa
      <4> HIDE DEF due, gave
      <4> QED
        BY <4>1, <4>2, <4>3
    <3> QED
      BY <2>2, <3>5
  <2> QED
    BY <2>3, <2>4
<1> QED
  BY <1>7, <1>9, <1>15, <1>16, <1>17 DEF IInv

(* One DEX call: the account it may charge is the one where the hop's      *)
(* input lies, and no other account of the payer or the vault loses.       *)
LEMMA DexCallEffect ==
  ASSUME IInv, NEW from \in Accounts, NEW to \in Accounts, DexCall(from, to)
  PROVE  /\ ForkAmountIn \in Nat
         /\ bal' \in [Accounts -> 0..MaxBal]
         /\ bal'[from] >= bal[from] - ForkAmountIn
         /\ \A a \in Accounts \ {from} :
              SignedBySa \/ OwnerOf[a] # Payer => bal'[a] >= bal[a]
         /\ from # to
         /\ bal'[to] > bal[to]
         /\ amountOut' = amountOut + (bal'[to] - bal[to])
         /\ accForkIn' \in Nat
         /\ Remaining' = Remaining - ForkAmountIn
         /\ underspent \/ bal'[from] <= bal[from] - ForkAmountIn \/ underspent'
         /\ underspent => underspent'
         /\ \A a \in Accounts \ {from, to} : bal'[a] <= bal[a]
<1>1. /\ phase = "swap" /\ ~RouteDone
      /\ fork <= Len(Weights)
      /\ ForkAmountChecked
      /\ accForkIn' = IF LastFork THEN accForkIn ELSE accForkIn + ForkAmountIn
      /\ fork' = fork + 1
      /\ UNCHANGED <<req, route, hop, amountIn>>
  BY DEF DexCall
<1>2. TypeOK
  BY DEF IInv
<1>3. Weights \in Seq(Nat) /\ fork \in 1..Len(Weights) /\ amountIn \in Nat
      /\ accForkIn \in Nat /\ amountOut \in Nat
  BY <1>1, <1>2, HopState DEF TypeOK
<1>4. ForkAmountIn \in Nat
  <2>1. CASE LastFork
    BY <1>1, <1>3, <2>1 DEF ForkAmountIn, ForkAmountChecked
  <2>2. CASE ~LastFork
    <3>1. Weights[fork] \in Nat
      BY <1>3
    <3> QED
      BY <1>3, <2>2, <3>1, ShareType DEF ForkAmountIn
  <2> QED
    BY <2>1, <2>2
<1>5. accForkIn' \in Nat
  BY <1>1, <1>3, <1>4
<1>6. Remaining' = Remaining - ForkAmountIn
  <2>1. Weights' = Weights /\ RouteDone' = RouteDone
    BY <1>1 DEF Weights, RouteDone, Hops
  <2>2. Remaining = amountIn - accForkIn
    BY <1>1, <1>3 DEF Remaining
  <2>3. CASE LastFork
    BY <1>1, <1>3, <2>1, <2>2, <2>3 DEF Remaining, LastFork, ForkAmountIn
  <2>4. CASE ~LastFork
    BY <1>1, <1>3, <1>4, <2>1, <2>2, <2>4 DEF Remaining, LastFork
  <2> QED
    BY <2>3, <2>4
<1>7. PICK extra \in Accounts : \E took \in Takes(extra, from, to),
                                  spent \in 0..bal[from], got \in 0..MaxOut :
        /\ Trade(from, to, ForkAmountIn, extra, took, spent, got)
        /\ bal'[to] <= MaxBal
        /\ underspent' = (underspent \/ spent < ForkAmountIn)
  BY DEF DexCall
<1> PICK took \in Takes(extra, from, to), spent \in 0..bal[from], got \in 0..MaxOut :
        /\ Trade(from, to, ForkAmountIn, extra, took, spent, got)
        /\ bal'[to] <= MaxBal
        /\ underspent' = (underspent \/ spent < ForkAmountIn)
  BY <1>7
<1>a. /\ MaxBal \in Nat /\ spent \in Nat /\ got \in Nat
      /\ \A a \in Accounts : bal[a] \in Nat /\ bal[a] <= MaxBal
      /\ spent <= bal[from]
  BY <1>2, BoundsAssumption DEF TypeOK
<1>b. /\ took \in Nat /\ took <= bal[extra]
      /\ took = 0 \/ (extra \notin {from, to} /\ OwnerOf[extra] = Signer)
  BY <1>a DEF Takes
<1>c. \A a \in Accounts : Move(bal, from, to, spent, got)[a] \in Int
  BY <1>a DEF Move
<1>8. /\ bal' = [a \in Accounts |-> bal'[a]]
      /\ \A a \in Accounts :
           a \in {from, to} \/ SignedBySa \/ OwnerOf[a] # Payer =>
             bal'[a] = Move(bal, from, to, spent, got)[a]
      /\ \A a \in Accounts :
           \/ bal'[a] = Move(bal, from, to, spent, got)[a]
           \/ /\ a = extra /\ a \notin {from, to}
              /\ bal'[a] = Move(bal, from, to, spent, got)[a] - took
  BY <1>b, <1>c DEF Trade, AfterCall, AllowListed, Signer, SaAccounts
<1>9. /\ bal'[to] <= MaxBal
      /\ amountOut' = amountOut + bal'[to] - bal[to]
      /\ bal[from] - bal'[from] <= ForkAmountIn
      /\ bal[from] - bal'[from] >= (ForkAmountIn * 95) \div 100
      /\ bal'[to] - bal[to] > 0
  BY DEF Trade, PostSwapCheck
<1>10. /\ MaxBal \in Nat /\ spent \in Nat /\ got \in Nat /\ took \in Nat
       /\ \A a \in Accounts : bal[a] \in Nat /\ bal[a] <= MaxBal
       /\ spent <= bal[from] /\ took <= bal[extra]
  BY <1>a, <1>b
<1>11. \A a \in Accounts :
         /\ a \in {from, to} \/ SignedBySa \/ OwnerOf[a] # Payer =>
              bal'[a] = bal[a] - (IF a = from THEN spent ELSE 0)
                               + (IF a = to THEN got ELSE 0)
         /\ a \notin {from, to} => bal'[a] \in 0..bal[a]
  BY <1>8, <1>10 DEF Move
<1>12. \A a \in Accounts : bal'[a] \in Int
  BY <1>10, <1>11
<1>13. from # to
  <2>1. (ForkAmountIn * 95) \div 100 \in Nat
    <3>1. \A x \in Nat : (x * 95) \div 100 \in Nat
      OBVIOUS
    <3> QED
      BY <1>4, <3>1
  <2>2. bal[from] - bal'[from] >= 0
    BY <1>9, <1>10, <1>12, <2>1
  <2>3. bal'[to] - bal[to] > 0
    BY <1>9
  <2> QED
    BY <1>10, <1>12, <2>2, <2>3
<1>14. \A a \in Accounts : bal'[a] \in 0..MaxBal
  BY <1>9, <1>10, <1>11, <1>13
<1>15. bal' \in [Accounts -> 0..MaxBal]
  BY <1>8, <1>14
<1>16. \A a \in Accounts \ {from} :
         SignedBySa \/ OwnerOf[a] # Payer => bal'[a] >= bal[a]
  BY <1>10, <1>11
<1>17. bal'[from] >= bal[from] - ForkAmountIn
  <2>1. bal[from] - bal'[from] <= ForkAmountIn
    BY <1>9
  <2>2. bal[from] \in Int /\ bal'[from] \in Int
    BY <1>10, <1>12
  <2> QED
    BY <1>4, <2>1, <2>2
<1>18. bal'[to] > bal[to] /\ amountOut' = amountOut + (bal'[to] - bal[to])
  <2>1. amountOut' = amountOut + bal'[to] - bal[to] /\ bal'[to] - bal[to] > 0
    BY <1>9
  <2>2. bal[to] \in Int /\ bal'[to] \in Int
    BY <1>10, <1>12
  <2> QED
    BY <1>3, <2>1, <2>2
<1>19. underspent \/ bal'[from] <= bal[from] - ForkAmountIn \/ underspent'
  <2>1. underspent \/ underspent' \/ ~(spent < ForkAmountIn)
    OBVIOUS
  <2>2. bal'[from] = bal[from] - spent
    <3>1. bal'[from] = bal[from] - spent + 0
      BY <1>11, <1>13
    <3> QED
      BY <1>10, <3>1
  <2>3. ~(spent < ForkAmountIn) => bal'[from] <= bal[from] - ForkAmountIn
    BY <1>4, <1>10, <2>2
  <2> QED
    BY <2>1, <2>3
<1>20. underspent => underspent'
  OBVIOUS
<1>21. \A a \in Accounts \ {from, to} : bal'[a] <= bal[a]
  BY <1>10, <1>11
<1> QED
  BY <1>4, <1>5, <1>6, <1>13, <1>15, <1>16, <1>17, <1>18, <1>19, <1>20, <1>21

(* DexCall: the fork's amount leaves the account that held it.             *)
LEMMA DexCallIInv ==
  ASSUME IInv, NEW from \in Accounts, NEW to \in Accounts, DexCall(from, to)
  PROVE  IInv'
<1>1. /\ phase = "swap" /\ ~RouteDone
      /\ BeforeCheck(from, to)
      /\ hopFrom' = from /\ hopTo' = to /\ fork' = fork + 1
      /\ UNCHANGED <<ledger, phase, req, outBefore, route, hop, amountIn, lastTo,
                     commits>>
      /\ underspent' \in BOOLEAN
  BY DEF DexCall
<1>2. TypeOK /\ LoopInv /\ VaultCovered /\ PayerCovered /\ NothingLeft
  BY DEF IInv
<1>3. /\ req \in Requests /\ ArgsChecked(req.args)
      /\ route \in 0..Len(req.args.routes) /\ PullFee(req) \in Nat
  BY <1>1, SwapState
<1>4. /\ req.args.amountIn \in Nat /\ req.args.sums[route] \in Nat
      /\ req.src \in Accounts \ SaAccounts
      /\ req.srcSa \in SaAccounts \cup {ZeroAddress}
  BY <1>3, RequestType, ArgsType
<1>5. /\ ForkAmountIn \in Nat
      /\ bal' \in [Accounts -> 0..MaxBal]
      /\ bal'[from] >= bal[from] - ForkAmountIn
      /\ \A a \in Accounts \ {from} :
           SignedBySa \/ OwnerOf[a] # Payer => bal'[a] >= bal[a]
      /\ from # to
      /\ bal'[to] > bal[to]
      /\ amountOut' = amountOut + (bal'[to] - bal[to])
      /\ accForkIn' \in Nat
      /\ Remaining' = Remaining - ForkAmountIn
      /\ underspent \/ bal'[from] <= bal[from] - ForkAmountIn \/ underspent'
      /\ underspent => underspent'
      /\ \A a \in Accounts \ {from, to} : bal'[a] <= bal[a]
  BY DexCallEffect
<1>6. \A a \in Accounts : bal[a] \in Nat /\ ledger[a] \in Nat /\ bal'[a] \in Nat
  BY <1>2, <1>5, BoundsAssumption DEF TypeOK
<1>7. amountOut \in Nat /\ amountOut' \in Nat /\ hop \in Nat \ {0}
  <2>1. amountOut \in Nat /\ hop \in Nat \ {0}
    BY <1>2 DEF TypeOK
  <2>2. bal'[to] - bal[to] \in Nat
    BY <1>5, <1>6
  <2> QED
    BY <1>5, <2>1, <2>2
<1>8. TypeOK'
  <2>1. {lastTo', hopFrom', hopTo'} \subseteq Accounts \cup {ZeroAddress}
    BY <1>1, <1>2 DEF TypeOK
  <2>2. /\ fork' \in Nat \ {0}
        /\ phase' = "swap" => route' <= Len(req.args.routes)'
    BY <1>1, <1>2 DEF TypeOK
  <2> QED
    BY <1>1, <1>2, <1>5, <1>7, <2>1, <2>2 DEF TypeOK
<1>9. PullFee(req)' = PullFee(req) /\ RouteDone' = RouteDone /\ SignedBySa' = SignedBySa
  BY <1>1 DEF PullFee, RouteDone, Hops, SignedBySa, ProxyFrom
<1>10. LoopInv'
  <2>1. from # ZeroAddress
    BY AccountsAssumption
  <2>2. OwnerOf[from] = Signer /\ Signer' = Signer
    BY <1>1, <1>9 DEF BeforeCheck, Signer
  <2> QED
    BY <1>1, <1>2, <1>9, <2>1, <2>2 DEF LoopInv
<1>11. Remaining \in Int
  BY <1>2 DEF TypeOK, Remaining
<1>12. OffSource => OffSource'
  BY <1>1 DEF OffSource, BeforeCheck, SourceAccount, ThroughSource
<1>13. ASSUME ~OffSource'
       PROVE  /\ from \in SaAccounts =>
                   SignedBySa /\ from = (IF hop = 1 THEN SourceAccount(req) ELSE lastTo)
              /\ from \notin SaAccounts => hop = 1 /\ ~ProxyFrom /\ from = req.src
  <2>1. from # ZeroAddress /\ Payer # SaAuthority
    BY AccountsAssumption
  <2>2. CASE hop = 1
    <3>1. from = SourceAccount(req) /\ OwnerOf[from] = Signer
      BY <1>1, <1>13, <2>1, <2>2 DEF OffSource, SourceAccount, ThroughSource, BeforeCheck
    <3>2. from = req.src \/ (from = req.srcSa /\ from \in SaAccounts)
      BY <1>3, <3>1, SidesType
    <3> QED
      BY <1>4, <1>7, <2>1, <2>2, <3>1, <3>2 DEF SignedBySa, Signer, ProxyFrom, SaAccounts
  <2>3. CASE hop # 1
    <3>1. hop > 1 /\ lastTo \in Accounts
      BY <1>1, <1>2, <1>7, <2>3 DEF LoopInv
    <3>2. SignedBySa /\ from = lastTo /\ OwnerOf[from] = SaAuthority
      BY <1>1, <3>1, AccountsAssumption DEF BeforeCheck, Signer, SignedBySa
    <3> QED
      BY <2>3, <3>2 DEF SaAccounts
  <2> QED
    BY <2>2, <2>3
<1>14. VaultCovered'
  <2> SUFFICES ASSUME ~OffSource'
               PROVE  /\ \A a \in SaAccounts : bal'[a] >= ledger'[a] + HeldFor(a)'
                      /\ (DestinationAccount(req) # req.src =>
                            outBefore >= ledger[DestinationAccount(req)])'
    BY DEF VaultCovered
  <2>1. ~OffSource
    BY <1>12
  <2>2. ASSUME NEW a \in SaAccounts
        PROVE  bal'[a] >= ledger'[a] + HeldFor(a)'
    <3> DEFINE due == IF a = req.srcSa /\ PullsIn(req)
                      THEN req.args.amountIn - req.args.sums[route] - PullFee(req)
                      ELSE 0
               here == SignedBySa /\ a = (IF hop = 1 THEN SourceAccount(req) ELSE lastTo)
               held == IF here THEN Remaining ELSE 0
               paid == IF here THEN ForkAmountIn ELSE 0
               gave == IF a = hopTo THEN amountOut ELSE 0
               gain == IF a = to THEN bal'[to] - bal[to] ELSE 0
    <3>1. a \in Accounts
      BY DEF SaAccounts
    <3>2. /\ due \in Int /\ held \in Int /\ paid \in Nat /\ gave \in Nat
          /\ gain \in Nat
      <4>1. bal'[to] - bal[to] \in Nat
        BY <1>5, <1>6
      <4>2. due \in Int
        BY <1>3, <1>4
      <4> HIDE DEF here
      <4> QED
        BY <1>5, <1>7, <1>11, <4>1, <4>2
    <3>3. HeldFor(a) = due + held + gave
      BY DEF HeldFor
    <3>4. HeldFor(a)' = due + (held - paid) + (gave + gain)
      <4>1. HeldFor(a)' = due + (IF here THEN Remaining' ELSE 0)
                              + (IF a = to THEN amountOut' ELSE 0)
        BY <1>1, <1>9 DEF HeldFor
      <4>2. (IF here THEN Remaining' ELSE 0) = held - paid
        BY <1>5
      <4>3. (IF a = to THEN amountOut' ELSE 0) = gave + gain
        <5>1. hopFrom = ZeroAddress => amountOut = 0
          BY <1>2 DEF LoopInv
        <5>2. hopFrom # ZeroAddress => hopTo = to
          BY <1>1 DEF BeforeCheck
        <5>3. gave = IF a = to THEN amountOut ELSE 0
          BY <5>1, <5>2
        <5>4. bal'[to] - bal[to] \in Int
          BY <1>6
        <5> QED
          BY <1>5, <1>7, <5>3, <5>4
      <4> QED
        BY <4>1, <4>2, <4>3
    <3>5. bal'[a] >= bal[a] - paid + gain
      <4>1. a = from => here
        BY <1>13
      <4> HIDE DEF here
      <4> QED
        BY <1>5, <1>6, <3>1, <3>2, <4>1, AccountsAssumption DEF SaAccounts
    <3>6. bal[a] >= ledger[a] + HeldFor(a)
      BY <1>1, <1>2, <2>1 DEF VaultCovered
    <3>7. bal[a] \in Nat /\ bal'[a] \in Nat /\ ledger[a] \in Nat /\ ledger'[a] = ledger[a]
      BY <1>1, <1>6, <3>1
    <3> HIDE DEF due, here, held, paid, gave, gain
    <3> QED
      BY <3>2, <3>3, <3>4, <3>5, <3>6, <3>7
  <2> QED
    BY <1>1, <1>2, <1>9, <2>1, <2>2 DEF VaultCovered, DestinationAccount, ThroughDestination
<1>15. PayerCovered'
  <2> SUFFICES ASSUME ~OffSource', NEW a \in Shielded(req)
               PROVE  bal'[a] >= ledger'[a] - (IF a = req'.src THEN ChargedSoFar' ELSE 0)
    BY <1>1 DEF PayerCovered, Shielded
  <2>0. a \in Accounts \ SaAccounts /\ (a = req.src \/ OwnerOf[a] # Payer)
    BY <1>4 DEF Shielded, PayerAccounts
  <2>1. bal[a] >= ledger[a] - (IF a = req.src THEN ChargedSoFar ELSE 0)
    BY <1>1, <1>2, <1>12 DEF PayerCovered
  <2>2. /\ ChargedSoFar \in Int /\ ChargedSoFar' \in Int
        /\ ChargedSoFar' >= ChargedSoFar
        /\ hop = 1 /\ ~ProxyFrom => ChargedSoFar' = ChargedSoFar + ForkAmountIn
    <3>1. ChargedSoFar' = IF ProxyFrom THEN req.args.amountIn
                          ELSE req.args.sums[route] - (IF hop = 1 THEN Remaining' ELSE 0)
      BY <1>1 DEF ChargedSoFar, ProxyFrom
    <3> QED
      BY <1>4, <1>5, <1>11, <3>1 DEF ChargedSoFar
  <2>3. a = from => bal'[a] >= bal[a] - ForkAmountIn /\ a = req.src /\ hop = 1 /\ ~ProxyFrom
    BY <1>5, <1>13, <2>0
  <2>4. a # from => bal'[a] >= bal[a]
    <3>1. ~SignedBySa => from = req.src
      BY <1>7, <1>13 DEF SignedBySa
    <3> QED
      BY <1>5, <2>0, <3>1
  <2>5. bal[a] \in Nat /\ bal'[a] \in Nat /\ ledger[a] \in Nat
    BY <1>6, <2>0
  <2> QED
    BY <1>1, <1>5, <2>1, <2>2, <2>3, <2>4, <2>5
<1>16. NothingLeft'
  <2> SUFFICES ASSUME LeavesNothing', ~OffSource'
               PROVE  /\ \A a \in SaAccounts \ {DestinationAccount(req)} :
                           bal'[a] <= ledger[a] + HeldFor(a)'
                      /\ DestinationAccount(req) \in SaAccounts =>
                           outBefore <= ledger[DestinationAccount(req)]
    BY <1>1 DEF NothingLeft, DestinationAccount, ThroughDestination
  <2>0. ~OffSource'
    OBVIOUS
  <2>1. LeavesNothing /\ ~underspent'
    BY <1>1, <1>5, <1>9 DEF LeavesNothing, ProxyFrom
  <2>2. ~StuckHop
    <3>1. Weights \in Seq(Nat) /\ fork \in Nat \ {0} /\ fork <= Len(Weights)
      BY <1>1, <1>2, HopState DEF TypeOK, DexCall
    <3>2. Weights # <<>>
      BY <3>1
    <3>3. CASE hop = 1 /\ ProxyFrom
      <4>1. SignedBySa
        BY <3>3 DEF SignedBySa
      <4>2. from \in SaAccounts /\ from = SourceAccount(req)
        BY <1>1, <1>13, <2>0, <3>3, <4>1
      <4>3. ThroughSource(req)
        BY <1>3, <1>4, <4>2, SidesType
      <4> QED
        BY <3>2, <4>3 DEF StuckHop
    <3>4. CASE ~(hop = 1 /\ ProxyFrom)
      BY <3>2, <3>4 DEF StuckHop
    <3> QED
      BY <3>3, <3>4
  <2>3. /\ \A a \in SaAccounts \ {DestinationAccount(req)} :
             bal[a] <= ledger[a] + HeldFor(a)
        /\ DestinationAccount(req) \in SaAccounts =>
             outBefore <= ledger[DestinationAccount(req)]
    BY <1>1, <1>2, <1>12, <2>1, <2>2 DEF NothingLeft
  <2>4. bal'[from] <= bal[from] - ForkAmountIn
    BY <1>5, <2>1 DEF LeavesNothing
  <2>5. ASSUME NEW a \in SaAccounts \ {DestinationAccount(req)}
        PROVE  bal'[a] <= ledger[a] + HeldFor(a)'
    <3> DEFINE due == IF a = req.srcSa /\ PullsIn(req)
                      THEN req.args.amountIn - req.args.sums[route] - PullFee(req)
                      ELSE 0
               here == SignedBySa /\ a = (IF hop = 1 THEN SourceAccount(req) ELSE lastTo)
               held == IF here THEN Remaining ELSE 0
               paid == IF here THEN ForkAmountIn ELSE 0
               gave == IF a = hopTo THEN amountOut ELSE 0
               gain == IF a = to THEN bal'[to] - bal[to] ELSE 0
    <3>1. a \in Accounts
      BY DEF SaAccounts
    <3>2. /\ due \in Int /\ held \in Int /\ paid \in Nat /\ gave \in Nat
          /\ gain \in Nat
      <4>1. bal'[to] - bal[to] \in Nat
        BY <1>5, <1>6
      <4>2. due \in Int
        BY <1>3, <1>4
      <4> HIDE DEF here
      <4> QED
        BY <1>5, <1>7, <1>11, <4>1, <4>2
    <3>3. HeldFor(a) = due + held + gave
      BY DEF HeldFor
    <3>4. HeldFor(a)' = due + (held - paid) + (gave + gain)
      <4>1. HeldFor(a)' = due + (IF here THEN Remaining' ELSE 0)
                              + (IF a = to THEN amountOut' ELSE 0)
        BY <1>1, <1>9 DEF HeldFor
      <4>2. (IF here THEN Remaining' ELSE 0) = held - paid
        BY <1>5
      <4>3. (IF a = to THEN amountOut' ELSE 0) = gave + gain
        <5>1. hopFrom = ZeroAddress => amountOut = 0
          BY <1>2 DEF LoopInv
        <5>2. hopFrom # ZeroAddress => hopTo = to
          BY <1>1 DEF BeforeCheck
        <5>3. gave = IF a = to THEN amountOut ELSE 0
          BY <5>1, <5>2
        <5>4. bal'[to] - bal[to] \in Int
          BY <1>6
        <5> QED
          BY <1>5, <1>7, <5>3, <5>4
      <4> QED
        BY <4>1, <4>2, <4>3
    <3>5. bal'[a] <= bal[a] - paid + gain
      <4>1. here => a = from
        <5>1. ASSUME here PROVE a = from
          <6>1. from \in SaAccounts
            BY <1>13, <1>7, <5>1 DEF SignedBySa
          <6> QED
            BY <1>13, <5>1, <6>1
        <5> QED
          BY <5>1
      <4>2. a = from => here
        BY <1>13
      <4>3. here <=> a = from
        BY <4>1, <4>2
      <4> HIDE DEF here
      <4>4. CASE a = from
        BY <1>5, <1>6, <2>4, <3>1, <4>3, <4>4
      <4>5. CASE a = to
        BY <1>5, <1>6, <3>1, <4>3, <4>5
      <4>6. CASE a \notin {from, to}
        BY <1>5, <1>6, <3>1, <4>3, <4>6
      <4> QED
        BY <4>4, <4>5, <4>6
    <3>6. bal[a] <= ledger[a] + HeldFor(a)
      BY <2>3
    <3>7. bal[a] \in Nat /\ bal'[a] \in Nat /\ ledger[a] \in Nat
      BY <1>6, <3>1
    <3> HIDE DEF due, here, held, paid, gave, gain
    <3> QED
      BY <3>2, <3>3, <3>4, <3>5, <3>6, <3>7
  <2> QED
    BY <2>3, <2>5
<1> QED
  BY <1>8, <1>10, <1>14, <1>15, <1>16 DEF IInv

(* The balances a committed swap leaves, against those before it.          *)
LEMMA FinishEffect ==
  ASSUME IInv, Finish
  PROVE  /\ bal' \in [Accounts -> 0..MaxBal]
         /\ \A a \in SaAccounts :
              bal'[a] >= ledger[a]
                         - (IF a = req.srcSa THEN PullFee(req) ELSE 0)
                         - (IF a = req.dstSa /\ Unserved(req) THEN AmountOut ELSE 0)
         /\ \A a \in Shielded(req) :
              bal'[a] >= ledger[a] - (IF a = req.src THEN req.args.amountIn ELSE 0)
         /\ AmountOut \in Nat
         /\ Unserved(req) /\ req.dst \notin {req.src, req.dstSa} =>
              bal'[req.dst] >= ledger[req.dst] + AmountOut
<1> DEFINE pull(a) == IF a = req.srcSa THEN PullFee(req) ELSE 0
           handed(a) == IF a = req.dstSa /\ Unserved(req) THEN AmountOut ELSE 0
<1>1. /\ phase = "swap" /\ RouteDone
      /\ route = Len(req.args.routes)
      /\ AmountOut >= 0
      /\ HandsOver(req) => bal[req.dstSa] >= AmountOut
      /\ AfterSwap[req.dst] <= MaxBal
      /\ bal' = AfterSwap
  BY DEF Finish
<1>2. TypeOK /\ LoopInv /\ VaultCovered /\ PayerCovered /\ NothingLeft
  BY DEF IInv
<1>3. /\ req \in Requests /\ ArgsChecked(req.args) /\ PullFee(req) \in Nat
  BY <1>1, SwapState
<1>4. /\ req.args.amountIn \in Nat
      /\ req.args.sums[route] = req.args.amountIn
      /\ req.src \in Accounts \ SaAccounts
      /\ req.dst \in Accounts
      /\ DestinationAccount(req) \in Accounts
  BY <1>1, <1>3, RequestType, ArgsType
<1>5. Remaining = 0 /\ ~OffSource /\ amountOut \in Nat
  BY <1>1, <1>2 DEF Remaining, OffSource, LoopInv, TypeOK
<1>6. /\ \A a \in Accounts : bal[a] \in 0..MaxBal /\ ledger[a] \in 0..MaxBal
      /\ bal \in [Accounts -> 0..MaxBal]
      /\ outBefore \in 0..MaxBal /\ MaxBal \in Nat
  BY <1>2, BoundsAssumption DEF TypeOK
<1>7. ASSUME NEW a \in SaAccounts
      PROVE  bal[a] >= ledger[a] - pull(a)
  <2>1. bal[a] >= ledger[a] + HeldFor(a)
    BY <1>1, <1>2, <1>5 DEF VaultCovered
  <2>2. HeldFor(a) = (IF a = req.srcSa /\ PullsIn(req) THEN 0 - PullFee(req) ELSE 0)
                     + 0 + (IF a = hopTo THEN amountOut ELSE 0)
    BY <1>3, <1>4, <1>5 DEF HeldFor
  <2>3. HeldFor(a) >= 0 - pull(a) /\ HeldFor(a) \in Int /\ pull(a) \in Nat
    BY <1>3, <1>5, <2>2 DEF PullFee
  <2> HIDE DEF pull
  <2> QED
    BY <1>6, <2>1, <2>3 DEF SaAccounts
<1>8. ASSUME NEW a \in Shielded(req)
      PROVE  bal[a] >= ledger[a] - (IF a = req.src THEN req.args.amountIn ELSE 0)
  <2>1. bal[a] >= ledger[a] - (IF a = req.src THEN ChargedSoFar ELSE 0)
    BY <1>1, <1>2, <1>5 DEF PayerCovered
  <2>2. ChargedSoFar = req.args.amountIn
    BY <1>4, <1>5 DEF ChargedSoFar
  <2> QED
    BY <2>1, <2>2
<1>9. AmountOut \in 0..MaxBal
  BY <1>1, <1>4, <1>6 DEF AmountOut
<1>10. /\ bal[DestinationAccount(req)] = outBefore + AmountOut
       /\ DestinationAccount(req) # req.src =>
            outBefore >= ledger[DestinationAccount(req)]
  BY <1>1, <1>2, <1>4, <1>5, <1>6 DEF VaultCovered, AmountOut
<1>11. \A a : pull(a) \in Nat /\ handed(a) \in Nat
  BY <1>3, <1>9
<1> HIDE DEF pull
<1>12. CASE ~HandsOver(req)
  <2>1. bal' = bal /\ ~Unserved(req)
    BY <1>1, <1>12 DEF AfterSwap, Unserved
  <2>2. \A a \in SaAccounts : bal'[a] >= ledger[a] - pull(a) - handed(a)
    BY <1>6, <1>7, <1>11, <2>1 DEF SaAccounts
  <2> QED
    BY <1>6, <1>8, <1>9, <2>1, <2>2 DEF pull
<1>13. CASE HandsOver(req)
  <2> DEFINE x == AmountOut
             fee == TransferFee(MintOf[req.dst], x)
  <2>1. /\ req.dstSa \in SaAccounts /\ req.dstSa \in Accounts
        /\ bal' = Transfer(bal, req.dstSa, req.dst, x)
    BY <1>1, <1>3, <1>13, SidesType DEF AfterSwap, SaAccounts
  <2>2. x \in 0..MaxBal /\ x <= bal[req.dstSa]
    BY <1>1, <1>6, <1>9, <1>13, <2>1
  <2> HIDE DEF x
  <2>3. /\ fee \in 0..x
        /\ bal' = [a \in Accounts |-> bal'[a]]
        /\ \A a \in Accounts : bal'[a] \in Nat
        /\ \A a \in Accounts : bal'[a] >= bal[a] - (IF a = req.dstSa THEN x ELSE 0)
        /\ req.dstSa # req.dst => bal'[req.dstSa] = bal[req.dstSa] - x
        /\ bal'[req.dst] = bal[req.dst] + x - fee
                            - (IF req.dstSa = req.dst THEN x ELSE 0)
        /\ \A a \in Accounts \ {req.dstSa, req.dst} : bal'[a] = bal[a]
    <3> DEFINE b2 == Transfer(bal, req.dstSa, req.dst, x)
    <3>1. bal \in [Accounts -> 0..MaxBal] /\ req.dst \in Accounts /\ req.dstSa \in Accounts
      BY <1>4, <1>6, <2>1
    <3>2. /\ fee \in 0..x
          /\ b2 = [a \in Accounts |-> b2[a]]
          /\ \A a \in Accounts : b2[a] \in Nat
          /\ \A a \in Accounts : b2[a] >= bal[a] - (IF a = req.dstSa THEN x ELSE 0)
          /\ req.dstSa # req.dst => b2[req.dstSa] = bal[req.dstSa] - x
          /\ b2[req.dst] = bal[req.dst] + x - fee
                           - (IF req.dstSa = req.dst THEN x ELSE 0)
          /\ \A a \in Accounts \ {req.dstSa, req.dst} : b2[a] = bal[a]
      BY <2>2, <3>1, TransferEffect
    <3>3. bal' = b2
      BY <2>1
    <3> HIDE DEF b2, fee
    <3> QED
      BY <3>2, <3>3
  <2> HIDE DEF fee
  <2>4. ASSUME NEW a \in Accounts
        PROVE  bal'[a] <= MaxBal
    <3>1. bal[a] \in Nat /\ bal[a] <= MaxBal /\ x \in Nat /\ MaxBal \in Nat
      BY <1>6, <2>2
    <3>2. CASE a = req.dst
      BY <1>1, <3>2
    <3>3. CASE a # req.dst
      BY <2>3, <3>1, <3>3
    <3> QED
      BY <3>2, <3>3
  <2>5. bal' \in [Accounts -> 0..MaxBal]
    <3>1. \A a \in Accounts : bal'[a] \in 0..MaxBal
      BY <1>6, <2>3, <2>4
    <3> QED
      BY <2>3, <3>1
  <2>6. \A a \in Accounts : bal[a] \in Nat /\ ledger[a] \in Nat /\ bal'[a] \in Nat
    BY <1>6, <2>3
  <2>7. ASSUME NEW a \in SaAccounts
        PROVE  bal'[a] >= ledger[a] - pull(a) - handed(a)
    <3>1. a \in Accounts /\ pull(a) \in Nat /\ handed(a) \in Nat
      BY <1>11 DEF SaAccounts
    <3>2. bal[a] >= ledger[a] - pull(a)
      BY <1>7
    <3>3. CASE a # req.dstSa
      <4> HIDE DEF handed
      <4> QED
        BY <2>3, <2>6, <3>1, <3>2, <3>3
    <3>4. CASE a = req.dstSa /\ Unserved(req)
      <4>1. bal'[a] >= bal[a] - x /\ handed(a) = x /\ x \in Nat
        BY <1>6, <2>2, <2>3, <3>1, <3>4 DEF x
      <4> HIDE DEF handed
      <4> QED
        BY <2>6, <3>1, <3>2, <4>1
    <3>5. CASE a = req.dstSa /\ ~Unserved(req)
      <4>1. DestinationAccount(req) = a /\ a # req.src
        BY <1>3, <1>4, <1>13, <3>5, SidesType DEF Unserved
      <4>2. bal[a] = outBefore + x /\ outBefore >= ledger[a] /\ outBefore \in Nat /\ x \in Nat
        BY <1>6, <1>10, <2>2, <4>1 DEF x
      <4>3. bal'[a] >= bal[a] - x
        BY <2>3, <3>1, <3>5
      <4> HIDE DEF handed
      <4> QED
        BY <2>6, <3>1, <4>2, <4>3
    <3> QED
      BY <3>3, <3>4, <3>5
  <2>8. ASSUME NEW a \in Shielded(req)
        PROVE  bal'[a] >= ledger[a] - (IF a = req.src THEN req.args.amountIn ELSE 0)
    <3>1. a \in Accounts \ SaAccounts
      BY <1>4 DEF Shielded
    <3> QED
      BY <1>4, <1>8, <2>1, <2>3, <2>6, <3>1
  <2>9. ASSUME Unserved(req), req.dst \notin {req.src, req.dstSa}
        PROVE  bal'[req.dst] >= ledger[req.dst] + x
    <3>1. DestinationAccount(req) = req.dst
      BY <1>3, <2>9, SidesType DEF Unserved
    <3>2. bal[req.dst] = outBefore + x /\ outBefore >= ledger[req.dst]
      BY <1>10, <2>9, <3>1 DEF x
    <3>3. bal'[req.dst] = bal[req.dst] + x - fee /\ fee \in Nat /\ fee <= x /\ x \in Nat
      <4>1. x \in Nat
        BY <1>6, <2>2
      <4>2. fee \in Nat /\ fee <= x
        BY <2>3, <4>1
      <4>3. bal'[req.dst] = bal[req.dst] + x - fee - 0
        BY <2>3, <2>9
      <4> QED
        BY <1>4, <2>6, <4>1, <4>2, <4>3
    <3>4. outBefore \in Nat /\ ledger[req.dst] \in Nat
      BY <1>4, <1>6
    <3> QED
      BY <3>2, <3>3, <3>4
  <2> QED
    BY <1>9, <1>6, <2>5, <2>7, <2>8, <2>9 DEF pull, x
<1> QED
  BY <1>12, <1>13

LEMMA FinishIInv ==
  ASSUME IInv, Finish
  PROVE  IInv'
<1>1. bal' \in [Accounts -> 0..MaxBal]
  BY FinishEffect
<1>2. Quiet /\ ledger' = bal' /\ commits' = commits + 1
  BY DEF Finish
<1>3. commits' \in Nat
  BY <1>2 DEF IInv, TypeOK
<1> QED
  BY <1>1, <1>2, <1>3, QuietIInv

LEMMA FailIInv ==
  ASSUME IInv, Fail
  PROVE  IInv'
<1>1. Quiet /\ ledger' = bal' /\ bal' \in [Accounts -> 0..MaxBal] /\ commits' \in Nat
  BY DEF Fail, IInv, TypeOK
<1> QED
  BY <1>1, QuietIInv

-----------------------------------------------------------------------------
LEMMA NextIInv == IInv /\ [Next]_vars => IInv'
<1> SUFFICES ASSUME IInv, [Next]_vars PROVE IInv'
  OBVIOUS
<1>1. CASE \E r \in Requests : Begin(r)
  BY <1>1, BeginIInv
<1>2. CASE StartRoute
  BY <1>2, StartRouteIInv
<1>3. CASE \E from, to \in Accounts : DexCall(from, to)
  BY <1>3, DexCallIInv
<1>4. CASE EndHop
  BY <1>4, EndHopIInv
<1>5. CASE Finish
  BY <1>5, FinishIInv
<1>6. CASE Fail
  BY <1>6, FailIInv
<1>7. CASE UNCHANGED vars
  <2>1. /\ TypeOK' = TypeOK
        /\ RouteDone' = RouteDone /\ Weights' = Weights
        /\ Remaining' = Remaining /\ SignedBySa' = SignedBySa /\ ProxyFrom' = ProxyFrom
        /\ PullFee(req)' = PullFee(req)
    BY <1>7 DEF vars, loopVars, TypeOK, Remaining, SignedBySa, PullFee, PullsIn, RouteDone,
                Hops, Weights, ProxyFrom
  <2>2. /\ SourceAccount(req)' = SourceAccount(req)
        /\ DestinationAccount(req)' = DestinationAccount(req)
        /\ ThroughSource(req)' = ThroughSource(req)
        /\ PullsIn(req)' = PullsIn(req)
        /\ Shielded(req)' = Shielded(req)
    BY <1>7 DEF vars, SourceAccount, DestinationAccount, ThroughSource, ThroughDestination,
                PullsIn, Shielded
  <2>3. /\ OffSource' = OffSource /\ ChargedSoFar' = ChargedSoFar
        /\ LeavesNothing' = LeavesNothing /\ StuckHop' = StuckHop
        /\ \A a : HeldFor(a)' = HeldFor(a)
        /\ LoopInv' = LoopInv
    BY <1>7, <2>1, <2>2
    DEF vars, loopVars, OffSource, ChargedSoFar, LeavesNothing, StuckHop, HeldFor, LoopInv,
        Signer
  <2> QED
    BY <1>7, <2>1, <2>2, <2>3
    DEF vars, loopVars, IInv, VaultCovered, PayerCovered, NothingLeft
<1> QED
  BY <1>1, <1>2, <1>3, <1>4, <1>5, <1>6, <1>7 DEF Next

(* The router's state keeps its types and its loops their bookkeeping, and *)
(* at every point of every instruction the vault and the payer are covered *)
(* (execute_swap, distribute_swap and the checks of adapters/common.rs).   *)
THEOREM Invariance == Spec => []IInv
  BY InitIInv, NextIInv, PTL DEF Spec

(* A step that touches the committed balances is the end of a swap.        *)
LEMMA LedgerStep ==
  ASSUME IInv, [Next]_vars
  PROVE  UNCHANGED ledger \/ (phase = "swap" /\ Finish /\ ledger' = bal')
BY DEF Next, vars, Begin, StartRoute, DexCall, EndHop, Finish, Fail

(* Whatever optional accounts are given, the vault loses only what a mint  *)
(* withholds from the pull and what after_swap pays for a destination side *)
(* the swap did not go through (VaultPaysOnlyUnserved).                    *)
THEOREM VaultSafe == Spec => VaultPaysOnlyUnserved
<1> DEFINE A == ledger' # ledger =>
                  \A a \in SaAccounts :
                    ledger'[a] >= ledger[a]
                       - (IF a = req.srcSa THEN PullFee(req) ELSE 0)
                       - (IF a = req.dstSa /\ Unserved(req) THEN AmountOut ELSE 0)
<1>1. IInv /\ [Next]_vars => [A]_vars
  <2> SUFFICES ASSUME IInv, [Next]_vars, ledger' # ledger PROVE A
    BY DEF A
  <2>1. Finish /\ ledger' = bal'
    BY LedgerStep
  <2> QED
    BY <2>1, FinishEffect
<1>2. Spec => []IInv
  BY InitIInv, NextIInv, PTL DEF Spec
<1>3. Spec => [][A]_vars
  BY <1>1, <1>2, PTL DEF Spec
<1> QED
  BY <1>3 DEF VaultPaysOnlyUnserved

(* No instruction charges the payer more than amount_in, nor anyone else   *)
(* at all (PayerSpendsAtMostAmountIn).                                     *)
THEOREM PayerSafe == Spec => PayerSpendsAtMostAmountIn
<1> DEFINE A == phase = "swap" =>
                  \A a \in Shielded(req) :
                    ledger'[a] >= ledger[a] - (IF a = req.src
                                               THEN req.args.amountIn ELSE 0)
<1>1. IInv /\ [Next]_vars => [A]_vars
  <2> SUFFICES ASSUME IInv, [Next]_vars, phase = "swap" PROVE A
    BY DEF A
  <2>1. \A a \in Accounts : ledger[a] \in Nat
    BY BoundsAssumption DEF IInv, TypeOK
  <2>2. req.args.amountIn \in Nat /\ Shielded(req) \subseteq Accounts
    BY SwapState, RequestType, ArgsType DEF Shielded
  <2>3. CASE UNCHANGED ledger
    BY <2>1, <2>2, <2>3
  <2>4. CASE Finish /\ ledger' = bal'
    BY <2>4, FinishEffect
  <2> QED
    BY <2>3, <2>4, LedgerStep
<1>2. Spec => []IInv
  BY InitIInv, NextIInv, PTL DEF Spec
<1>3. Spec => [][A]_vars
  BY <1>1, <1>2, PTL DEF Spec
<1> QED
  BY <1>3 DEF PayerSpendsAtMostAmountIn

(* A committed swap that leaves nothing, by the balances it leaves.        *)
LEMMA FinishLeaves ==
  ASSUME IInv, Finish, LeavesNothing
  PROVE  \A a \in SaAccounts : bal'[a] <= ledger[a]
<1>1. /\ phase = "swap" /\ RouteDone
      /\ route = Len(req.args.routes)
      /\ AmountOut >= 0
      /\ bal' = AfterSwap
  BY DEF Finish
<1>2. TypeOK /\ LoopInv /\ NothingLeft
  BY DEF IInv
<1>3. /\ req \in Requests /\ ArgsChecked(req.args)
  BY <1>1, SwapState
<1>4. /\ req.args.amountIn \in Nat
      /\ req.args.sums[route] = req.args.amountIn
      /\ req.dst \in Accounts
      /\ DestinationAccount(req) \in Accounts
      /\ PullFee(req) = 0 /\ req.dst \notin SaAccounts
  BY <1>1, <1>3, RequestType, ArgsType DEF LeavesNothing
<1>5. Remaining = 0 /\ ~OffSource /\ ~StuckHop /\ amountOut = 0
  BY <1>1, <1>2 DEF Remaining, OffSource, StuckHop, LoopInv
<1>6. \A a \in Accounts : bal[a] \in Nat /\ ledger[a] \in Nat
  BY <1>2, BoundsAssumption DEF TypeOK
<1>7. outBefore \in Nat /\ SaAccounts \subseteq Accounts /\ ZeroAddress \notin Accounts
  BY <1>2, BoundsAssumption, AccountsAssumption DEF TypeOK, SaAccounts
<1>8. /\ \A a \in SaAccounts \ {DestinationAccount(req)} :
           bal[a] <= ledger[a] + HeldFor(a)
      /\ DestinationAccount(req) \in SaAccounts =>
           outBefore <= ledger[DestinationAccount(req)]
  BY <1>1, <1>2, <1>5 DEF NothingLeft
<1>9. ASSUME NEW a \in SaAccounts PROVE HeldFor(a) = 0
  BY <1>4, <1>5 DEF HeldFor
<1>10. \A a \in SaAccounts \ {DestinationAccount(req)} : bal[a] <= ledger[a]
  BY <1>6, <1>7, <1>8, <1>9
<1>11. CASE ~HandsOver(req)
  <2>1. bal' = bal /\ DestinationAccount(req) = req.dst
    BY <1>1, <1>3, <1>11, SidesType DEF AfterSwap
  <2> QED
    BY <1>4, <1>10, <2>1
<1>12. CASE HandsOver(req)
  <2> DEFINE x == AmountOut
             fee == TransferFee(MintOf[req.dst], x)
  <2>1. /\ req.dstSa \in SaAccounts /\ req.dstSa \in Accounts
        /\ bal' = Transfer(bal, req.dstSa, req.dst, x)
        /\ DestinationAccount(req) \in {req.dstSa, req.dst}
    BY <1>1, <1>3, <1>12, SidesType DEF AfterSwap, SaAccounts
  <2>2. x \in Nat /\ bal[DestinationAccount(req)] - x = outBefore
    BY <1>1, <1>4, <1>6, <1>7 DEF AmountOut
  <2>3. \A a \in SaAccounts : bal'[a] = bal[a] - (IF a = req.dstSa THEN x ELSE 0) + 0
    <3> HIDE DEF x
    <3> QED
      BY <1>4, <1>7, <2>1 DEF Transfer, Move
  <2>4. ASSUME NEW a \in SaAccounts PROVE bal'[a] <= ledger[a]
    <3> HIDE DEF x
    <3>0. a \in Accounts /\ bal[a] \in Nat /\ ledger[a] \in Nat
      BY <1>6, <1>7
    <3>1. CASE a = DestinationAccount(req)
      <4>1. a = req.dstSa
        BY <1>4, <2>1, <3>1
      <4> QED
        BY <1>7, <1>8, <2>2, <2>3, <3>0, <3>1, <4>1
    <3>2. CASE a # DestinationAccount(req)
      BY <1>10, <2>2, <2>3, <3>0, <3>2
    <3> QED
      BY <3>1, <3>2
  <2> QED
    BY <2>4
<1> QED
  BY <1>11, <1>12

(* The forks of every hop use up its whole input: a swap whose DEXes take  *)
(* all they are offered leaves nothing in the vault (NothingStranded).     *)
THEOREM VaultLeftNothing == Spec => NothingStranded
<1> DEFINE A == phase = "swap" /\ LeavesNothing =>
                  \A a \in SaAccounts : ledger'[a] <= ledger[a]
<1>1. IInv /\ [Next]_vars => [A]_vars
  <2> SUFFICES ASSUME IInv, [Next]_vars, phase = "swap", LeavesNothing PROVE A
    BY DEF A
  <2>1. \A a \in SaAccounts : ledger[a] \in Nat
    BY BoundsAssumption DEF IInv, TypeOK, SaAccounts
  <2>2. CASE UNCHANGED ledger
    BY <2>1, <2>2
  <2>3. CASE Finish /\ ledger' = bal'
    BY <2>3, FinishLeaves
  <2> QED
    BY <2>2, <2>3, LedgerStep
<1>2. Spec => []IInv
  BY InitIInv, NextIInv, PTL DEF Spec
<1>3. Spec => [][A]_vars
  BY <1>1, <1>2, PTL DEF Spec
<1> QED
  BY <1>3 DEF NothingStranded

-----------------------------------------------------------------------------
(* The instruction, step by step, implements the single atomic trade that  *)
(* AtomicSwap promises (ImplementsAtomicSwap).                             *)
THEOREM Refinement == Spec => ImplementsAtomicSwap
<1>1. Init => Atomic!Init
  BY BoundsAssumption DEF Init, Atomic!Init
<1>2. ASSUME IInv, [Next]_vars
      PROVE  [Atomic!Next]_<<ledger, req>>
  <2>1. ASSUME NEW r \in Requests, Begin(r) PROVE Atomic!Submit
    <3>1. phase = "idle" /\ req' = r /\ UNCHANGED ledger
      BY <2>1 DEF Begin
    <3> QED
      BY <1>2, <3>1 DEF Atomic!Submit, IInv, TypeOK
  <2>2. CASE StartRoute \/ (\E from, to \in Accounts : DexCall(from, to)) \/ EndHop
    BY <2>2 DEF StartRoute, DexCall, EndHop
  <2>3. CASE Fail
    BY <1>2, <2>3, SwapState DEF Fail, Quiet, RequestAfter, Atomic!Reject, Atomic!Next
  <2>4. CASE Finish
    <3>1. /\ phase = "swap" /\ ledger' = bal' /\ bal' = AfterSwap /\ req' = NoRequest
          /\ AfterSwap[req.src] <= ledger[req.src]
          /\ AfterSwap[req.dst] - ledger[req.dst] >= req.args.minReturn
      BY <2>4 DEF Finish, Quiet, RequestAfter, MinReturnReached
    <3>2. /\ req \in Requests /\ req # NoRequest /\ PullFee(req) \in Nat
          /\ ArgsChecked(req.args)
      BY <1>2, <3>1, SwapState
    <3>3. /\ req.src \in Accounts \ SaAccounts /\ req.dst \in Accounts
          /\ req.args.minReturn \in Nat
      BY <3>2, RequestType, ArgsType
    <3>4. /\ \A a \in Accounts : ledger[a] \in Nat /\ bal'[a] \in Nat
      BY <1>2, <2>4, FinishEffect, BoundsAssumption DEF IInv, TypeOK
    <3>5. /\ req.src # req.dst
          /\ ledger'[req.dst] >= ledger[req.dst]
      <4>1. req.args.minReturn > 0
        BY <3>2 DEF ArgsChecked
      <4> QED
        BY <3>1, <3>3, <3>4, <4>1
    <3>6. ASSUME NEW a \in SaAccounts \cup Shielded(req)
          PROVE  ledger'[a] >= ledger[a] - Atomic!Loss(req, a)
      <4> DEFINE pull == IF a = req.srcSa THEN PullFee(req) ELSE 0
                 handed == IF a = req.dstSa /\ Unserved(req) THEN AmountOut ELSE 0
                 gained == IF a = req.dstSa /\ Unserved(req)
                           THEN ledger'[req.dst] - ledger[req.dst] ELSE 0
      <4>0. a \in Accounts /\ ledger[a] \in Nat /\ ledger'[a] \in Nat
        BY <3>1, <3>3, <3>4 DEF SaAccounts, Shielded
      <4>1. CASE a = req.src
        BY <1>2, <2>4, <3>1, <3>3, <4>1, FinishEffect DEF Atomic!Loss, Shielded
      <4>2. CASE a \in SaAccounts
        <5>1. Atomic!Loss(req, a) = pull + gained
          BY <3>3, <4>2 DEF Atomic!Loss
        <5>2. ledger'[a] >= ledger[a] - pull - handed
          BY <1>2, <2>4, <3>1, <4>2, FinishEffect
        <5>3. pull \in Nat /\ handed \in Nat /\ gained \in Int
          BY <1>2, <2>4, <3>1, <3>2, <3>3, <3>4, FinishEffect
        <5>4. CASE handed = 0 \/ a # req.dst
          <6>1. handed <= gained
            <7>1. CASE a = req.dstSa /\ Unserved(req) /\ a # req.dst
              BY <1>2, <2>4, <3>1, <3>3, <3>4, <3>5, <5>3, <7>1, FinishEffect
            <7>2. CASE ~(a = req.dstSa /\ Unserved(req))
              BY <7>2
            <7>3. CASE handed = 0 /\ a = req.dstSa /\ Unserved(req)
              BY <3>1, <3>3, <3>4, <3>5, <7>3
            <7> QED
              BY <5>4, <7>1, <7>2, <7>3
          <6> HIDE DEF pull, handed, gained
          <6> QED
            BY <4>0, <5>1, <5>2, <5>3, <6>1
        <5>5. CASE handed # 0 /\ a = req.dst
          <6>1. gained >= 0
            BY <3>1, <3>3, <3>4, <3>5
          <6>2. ledger'[a] >= ledger[a]
            BY <3>5, <5>5
          <6> HIDE DEF pull, handed, gained
          <6> QED
            BY <4>0, <5>1, <5>3, <6>1, <6>2
        <5> QED
          BY <5>4, <5>5
      <4>3. CASE a \notin SaAccounts /\ a # req.src
        <5>1. ledger'[a] >= ledger[a] - 0 /\ Atomic!Loss(req, a) = 0 + 0
          BY <1>2, <2>4, <3>1, <4>3, FinishEffect DEF Atomic!Loss
        <5> QED
          BY <5>1
      <4> QED
        BY <4>1, <4>2, <4>3
    <3>7. /\ ledger'[req.src] <= ledger[req.src]
          /\ ledger'[req.dst] >= ledger[req.dst] + req.args.minReturn
      BY <3>1, <3>3, <3>4
    <3> QED
      BY <3>1, <3>2, <3>6, <3>7 DEF Atomic!Settle, Atomic!Next
  <2>5. CASE UNCHANGED vars
    BY <2>5 DEF vars
  <2> QED
    BY <1>2, <2>1, <2>2, <2>3, <2>4, <2>5 DEF Next, Atomic!Next
<1>3. Spec => []IInv
  BY InitIInv, NextIInv, PTL DEF Spec
<1> QED
  BY <1>1, <1>2, <1>3, PTL DEF Spec, ImplementsAtomicSwap, Atomic!Spec

=============================================================================
