---------------------------- MODULE FeeSchedule ----------------------------
(***************************************************************************)
(* The platform fee of apps/wager/src/utils/index.ts as a function of the  *)
(* amount, and what a settled wager pays out.                              *)
(*                                                                         *)
(* An amount is the whole prize of a wager in dollars, a natural number:   *)
(* the column "amount" is an Int.  A fee is counted in ten-thousandths of  *)
(* a dollar, the unit in which every rate of the schedule is a whole       *)
(* number.  PlatformFee.tla models the loop that computes the fee and      *)
(* shows that it returns calculatePlatformFee.                             *)
(***************************************************************************)
EXTENDS Integers

UnitsPerDollar == 10000

\* Mutated form of Tiers: 0.8 for 0.08.
Tiers_Typo ==
  << [threshold |-> 100,       rate |-> 8000],
     [threshold |-> 1000,      rate |-> 500],
     [threshold |-> 10000,     rate |-> 300],
     [threshold |-> 100000,    rate |-> 150],
     [threshold |-> 999999999, rate |-> 35] >>

\* The tiers of the schedule: each charges "rate" ten-thousandths for every
\* dollar between the threshold of the tier before it and its own.
Tiers ==
  << [threshold |-> 100,       rate |-> 800],
     [threshold |-> 1000,      rate |-> 500],
     [threshold |-> 10000,     rate |-> 300],
     [threshold |-> 100000,    rate |-> 150],
     [threshold |-> 999999999, rate |-> 35] >>

\* const MIN_FEE = 0.5
MIN_FEE == 5000

\* The part of an amount that lies between two thresholds.
Between(a, low, high) ==
  IF a <= low THEN 0 ELSE IF a <= high THEN a - low ELSE high - low

\* What the schedule charges before the minimum is applied: tier by tier,
\* the rate of the tier on the part of the amount that falls in it.
TieredFee(a) ==
    800 * Between(a, 0, 100)
  + 500 * Between(a, 100, 1000)
  + 300 * Between(a, 1000, 10000)
  + 150 * Between(a, 10000, 100000)
  +  35 * Between(a, 100000, 999999999)

calculatePlatformFee(a) ==
  IF TieredFee(a) < MIN_FEE THEN MIN_FEE ELSE TieredFee(a)

\* increment: wager.amount - calculatePlatformFee(wager.amount).  The column
\* "balance" is an Int, so a fractional increment loses its fraction.
Prize(a) == (UnitsPerDollar * a - calculatePlatformFee(a)) \div UnitsPerDollar

\* decrement: dto.stake, and decrement: wager.amount / 2.  Half the amount
\* loses its fraction in the same way.
StakeDebit(a) == a \div 2

\* stake > user.balance, for the stake that is half the amount.
Affordable(a, balance) == a <= 2 * balance
=============================================================================
