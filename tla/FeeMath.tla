------------------------------ MODULE FeeMath -------------------------------
(***************************************************************************)
(* The arithmetic of fees in the V3 swaps: calculate_fee_amounts and       *)
(* calculate_trim_amount of utils/fee.rs.  A rate that is left out counts  *)
(* as 0, which is what the code makes of it.                               *)
(***************************************************************************)
EXTENDS Integers

CONSTANTS
  COMMISSION_DENOMINATOR,   \* COMMISSION_DENOMINATOR_V2
  COMMISSION_RATE_LIMIT,    \* COMMISSION_RATE_LIMIT_V2
  PLATFORM_FEE_DENOMINATOR, \* PLATFORM_FEE_DENOMINATOR_V3, also its limit
  TRIM_DENOMINATOR,         \* TRIM_DENOMINATOR_V2, also the limit of a charge
  TRIM_RATE_LIMIT           \* TRIM_RATE_LIMIT_V2

ASSUME FeeAssumption ==
  /\ COMMISSION_DENOMINATOR \in Nat /\ COMMISSION_RATE_LIMIT \in Nat
  /\ COMMISSION_RATE_LIMIT < COMMISSION_DENOMINATOR
  /\ PLATFORM_FEE_DENOMINATOR \in Nat \ {0}
  /\ TRIM_DENOMINATOR \in Nat \ {0} /\ TRIM_RATE_LIMIT \in Nat

(* What calculate_fee_amounts refuses.                                     *)
FeeRatesAllowed(rate, platformRate) ==
  rate > 0 => /\ rate <= COMMISSION_RATE_LIMIT
              /\ platformRate <= PLATFORM_FEE_DENOMINATOR

(* Mutant: a fee on the input is taken as a share of the net amount. *)
TotalFeeOfNet(amount, rate, onFrom) == (amount * rate) \div COMMISSION_DENOMINATOR

(* The fee of both parties.  On the input it comes on top of the amount,   *)
(* and is the rate's share of the sum of the two; on the output it is the  *)
(* rate's share of the amount.                                             *)
TotalFee(amount, rate, onFrom) ==
  IF onFrom THEN (amount * rate) \div (COMMISSION_DENOMINATOR - rate)
  ELSE (amount * rate) \div COMMISSION_DENOMINATOR

PlatformFee(total, platformRate) ==
  (total * platformRate) \div PLATFORM_FEE_DENOMINATOR

(* What calculate_trim_amount refuses.                                     *)
TrimRatesAllowed(trimRate, chargeRate) ==
  trimRate > 0 => trimRate <= TRIM_RATE_LIMIT /\ chargeRate <= TRIM_DENOMINATOR

(* Mutant: the surplus is counted before the fees. *)
TotalTrimBeforeFees(amount, expected, fees, trimRate) ==
  LET surplus == IF amount > expected THEN amount - expected ELSE 0
      limit == (amount * trimRate) \div TRIM_DENOMINATOR
  IN  IF surplus < limit THEN surplus ELSE limit

(* What trim and charge take together: the surplus over the expected       *)
(* amount that the fees left, up to a share of the amount.                 *)
TotalTrim(amount, expected, fees, trimRate) ==
  LET surplus == IF amount > fees + expected THEN amount - fees - expected ELSE 0
      limit == (amount * trimRate) \div TRIM_DENOMINATOR
  IN  IF surplus < limit THEN surplus ELSE limit

Charge(total, chargeRate) == (total * chargeRate) \div TRIM_DENOMINATOR

=============================================================================
