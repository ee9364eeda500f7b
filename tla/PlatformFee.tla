---------------------------- MODULE PlatformFee ----------------------------
(***************************************************************************)
(* The loop of calculatePlatformFee (apps/wager/src/utils/index.ts), one   *)
(* step per iteration, in ten-thousandths of a dollar.                     *)
(***************************************************************************)
EXTENDS FeeSchedule, Sequences

CONSTANT Amounts \* the amounts the function is called with

ASSUME AmountsAssumption == Amounts \subseteq Nat

VARIABLES
  amount,             \* the argument
  fee,                \* let fee
  remainingAmount,    \* let remainingAmount
  previousThreshold,  \* let previousThreshold
  tier,               \* index in Tiers of the next iteration
  pc                  \* "loop" or "returned"

vars == <<amount, fee, remainingAmount, previousThreshold, tier, pc>>

Init ==
  /\ amount \in Amounts
  /\ fee = 0
  /\ remainingAmount = amount
  /\ previousThreshold = 0
  /\ tier = 1
  /\ pc = "loop"

\* Math.min(remainingAmount, tier.threshold - previousThreshold)
AmountInThisTier ==
  LET width == Tiers[tier].threshold - previousThreshold
  IN  IF remainingAmount < width THEN remainingAmount ELSE width

\* Mutated form of Charge: previousThreshold is left at its first value.
Charge_StaleThreshold ==
  /\ pc = "loop"
  /\ tier \in 1 .. Len(Tiers)
  /\ remainingAmount > 0
  /\ fee' = fee + AmountInThisTier * Tiers[tier].rate
  /\ remainingAmount' = remainingAmount - AmountInThisTier
  /\ tier' = tier + 1
  /\ UNCHANGED <<amount, previousThreshold, pc>>

\* One iteration: charge the part of the amount in this tier's bracket.
Charge ==
  /\ pc = "loop"
  /\ tier \in 1 .. Len(Tiers)
  /\ remainingAmount > 0
  /\ fee' = fee + AmountInThisTier * Tiers[tier].rate
  /\ remainingAmount' = remainingAmount - AmountInThisTier
  /\ previousThreshold' = Tiers[tier].threshold
  /\ tier' = tier + 1
  /\ UNCHANGED <<amount, pc>>

\* The loop ends by "break" or at the last tier; return Math.max(fee, MIN_FEE).
Return ==
  /\ pc = "loop"
  /\ remainingAmount <= 0 \/ tier > Len(Tiers)
  /\ fee' = IF fee < MIN_FEE THEN MIN_FEE ELSE fee
  /\ pc' = "returned"
  /\ UNCHANGED <<amount, remainingAmount, previousThreshold, tier>>

Next == Charge \/ Return

Spec == Init /\ [][Next]_vars

-----------------------------------------------------------------------------

TypeOK ==
  /\ amount \in Amounts
  /\ fee \in Nat
  /\ remainingAmount \in Nat
  /\ previousThreshold \in Nat
  /\ tier \in 1 .. Len(Tiers) + 1
  /\ pc \in {"loop", "returned"}

\* The loop of calculatePlatformFee returns what the schedule of tiers says,
\* for every amount: each dollar is charged at the rate of its own tier, and
\* no fee is below the minimum.
ReturnsSchedule == pc = "returned" => fee = calculatePlatformFee(amount)

\* What settlement adds to the winner's balance, with the fee the loop
\* returned, is at least the stake the winner was debited and at most what the
\* two players were debited together: a settled wager never mints money and a
\* winner never loses by winning (minimum stake $1, so the amount is at least 2).
PayoutWithinStakes ==
  (pc = "returned" /\ amount >= 2) =>
     LET payout == (UnitsPerDollar * amount - fee) \div UnitsPerDollar
     IN  StakeDebit(amount) <= payout /\ payout <= 2 * StakeDebit(amount)
=============================================================================
