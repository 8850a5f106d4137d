----------------------------- MODULE AtomicSwap -----------------------------
(***************************************************************************)
(* What a swap instruction promises its payer and the program's shared     *)
(* vault: one step of the ledger per instruction, which either changes     *)
(* nothing or trades at most amount_in of the source account for at least  *)
(* min_return in the destination account, and never debits a third party,  *)
(* nor the vault unless its destination side is unserved: then by no more  *)
(* than the destination gains.  The payer's other accounts are the payer's *)
(* own risk.                                                               *)
(***************************************************************************)
EXTENDS Integers

CONSTANTS
  Accounts,   \* token accounts
  Vault,      \* those owned by the program's authority
  Shielded(_), \* accounts outside the vault that a request cannot debit
  Requests,   \* what a payer may ask for
  PullFee(_), \* what the mint withholds from the pull into the vault
  Unserved(_), \* the vault pays out what the swap did not give to it
  NoOrder,
  MaxBal      \* bound: the largest balance

VARIABLES
  ledger,     \* committed balances
  order       \* the instruction being run, or NoOrder

Submit ==
  /\ order = NoOrder
  /\ order' \in Requests
  /\ UNCHANGED ledger

Reject ==
  /\ order # NoOrder
  /\ order' = NoOrder
  /\ UNCHANGED ledger

(* The most an account may lose.                                           *)
Loss(r, a) ==
  IF a = r.src THEN r.args.amountIn
  ELSE (IF a \in Vault /\ a = r.srcSa THEN PullFee(r) ELSE 0)
       + (IF a \in Vault /\ a = r.dstSa /\ Unserved(r)
          THEN ledger'[r.dst] - ledger[r.dst] ELSE 0)

Settle ==
  /\ order # NoOrder
  /\ order' = NoOrder
  /\ \A a \in Vault \cup Shielded(order) : ledger'[a] >= ledger[a] - Loss(order, a)
  /\ ledger'[order.src] <= ledger[order.src]
  /\ ledger'[order.dst] >= ledger[order.dst] + order.args.minReturn

Init == ledger \in [Accounts -> 0..MaxBal] /\ order = NoOrder

Next == Submit \/ Reject \/ Settle

Spec == Init /\ [][Next]_<<ledger, order>>

=============================================================================
