---------------------------- MODULE MCSwapRouter ----------------------------
(***************************************************************************)
(* Instances of SwapRouter for TLC.  The payer has an account of the       *)
(* source mint A and one of the destination mint B, the vault one account  *)
(* of each of A, B and an intermediate mint C.                             *)
(***************************************************************************)
EXTENDS SwapRouter

CONSTANTS payA, payB, othB, saA, saB, saC, Alice, Bob, SA, Zero

MCMintOf ==
  [a \in Accounts |-> CASE a \in {payA, saA} -> "A"
                        [] a \in {payB, othB, saB} -> "B"
                        [] a = saC -> "C"]
MCOwnerOf ==
  [a \in Accounts |-> CASE a \in {payA, payB} -> Alice
                        [] a = othB -> Bob
                        [] OTHER -> SA]

(* The arguments, with the running totals of their amounts.                *)
Args(in, minReturn, amounts, routes) ==
  [amountIn |-> in, expectOut |-> minReturn + 1, minReturn |-> minReturn,
   amounts |-> amounts, routes |-> routes,
   sums |-> [i \in 0..Len(amounts) |-> SumFunctionOnSet(amounts, 1..i)]]

One == <<100>>          \* a hop with one fork
Half == <<50, 50>>      \* a hop with two

(* One route of one or two hops, with splits; two routes; an empty route.  *)
SingleRouteArgs ==
  {Args(3, 2, <<3>>, <<r>>) : r \in {<<Half>>, <<One, One>>, <<Half, Half>>}}

TwoRouteArgs ==
  { Args(3, 1, <<1, 2>>, <<<<One>>, <<One, One>>>>),
    Args(3, 1, <<2, 1>>, <<<<One>>, <<>>>>) }

(* What execute_swap refuses: a total that is not amount_in, weights that  *)
(* do not sum to 100, four hops.                                           *)
RefusedArgs ==
  { Args(2, 1, <<1, 2>>, <<<<One>>, <<One>>>>),
    Args(2, 1, <<2>>, <<<<<<50, 40>>>>>>),
    Args(2, 1, <<2>>, <<<<One, One, One, One>>>>) }

MCArgs == SingleRouteArgs \cup TwoRouteArgs \cup RefusedArgs

(* A side with everything given, for every argument; and sides given in    *)
(* part: the vault pays the output although the swap does not reach it, or *)
(* amount_in is pulled into an account the swap does not start at.         *)
Whole ==
  {r \in [src : PayerAccounts, dst : Accounts,
          srcSa : SaAccounts \cup {Zero}, dstSa : SaAccounts \cup {Zero},
          given : {OptionalAccounts}, args : MCArgs] :
     VaultAccountFor(r.srcSa, r.src) /\ VaultAccountFor(r.dstSa, r.dst)}

Part ==
  [src : {payA}, dst : {payB}, srcSa : {Zero, saA}, dstSa : {saB},
   given : {OptionalAccounts \ {"associatedTokenProgram"},
            OptionalAccounts \ {"saAuthority"}, {"sourceProgram"}},
   args : SingleRouteArgs]

MCRequests == Whole \cup Part

Start(a, b, o, s) ==
  [x \in Accounts |-> CASE x = payA -> a [] x = payB -> b [] x = othB -> o
                        [] OTHER -> s]
MCInitialBalances == {Start(4, 1, 1, 1)}

(* The mint of the source withholds one token of a transfer.               *)
FeeOnA(m, x) == IF m = "A" /\ x > 0 THEN 1 ELSE 0

=============================================================================
