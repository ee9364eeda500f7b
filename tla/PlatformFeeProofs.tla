------------------------- MODULE PlatformFeeProofs -------------------------
(***************************************************************************)
(* The loop of calculatePlatformFee returns the schedule's fee, and the    *)
(* prize it leaves stays between one stake and two, for every amount.      *)
(***************************************************************************)
EXTENDS PlatformFee, MoneyProofs

\* The threshold up to which the loop has charged before iteration "tier".
Reached(t) == IF t = 1 THEN 0 ELSE Tiers[t - 1].threshold

\* What holds between two iterations: everything up to the last threshold is
\* charged, and the rest of the amount is what remains.
LoopInv ==
  pc = "loop" =>
    /\ previousThreshold = Reached(tier)
    /\ amount <= previousThreshold => remainingAmount = 0
    /\ amount > previousThreshold => remainingAmount = amount - previousThreshold
    /\ fee = TieredFee(IF amount <= previousThreshold THEN amount
                                                      ELSE previousThreshold)

IInv == TypeOK /\ LoopInv /\ ReturnsSchedule

LEMMA InitEstablishes == Init => IInv
<1>1. Len(Tiers) = 5
  BY DEF Tiers
<1>2. QED
  BY <1>1, AmountsAssumption
     DEF Init, IInv, TypeOK, LoopInv, ReturnsSchedule, Reached, TieredFee, Between

LEMMA ChargePreserves == IInv /\ Charge => IInv'
<1> SUFFICES ASSUME IInv, Charge PROVE IInv'
  OBVIOUS
<1>1. Len(Tiers) = 5
  BY DEF Tiers
<1>2. tier \in 1 .. 5 /\ amount \in Nat
  BY <1>1, AmountsAssumption DEF Charge, IInv, TypeOK
<1>3. ASSUME NEW low \in Nat, NEW high \in Nat, NEW rate \in Nat,
             low < high, Tiers[tier].threshold = high, Tiers[tier].rate = rate,
             Reached(tier) = low, Reached(tier + 1) = high,
             \A a \in Nat : a > low =>
               TieredFee(IF a <= high THEN a ELSE high)
                 = TieredFee(low) + (IF a <= high THEN a - low ELSE high - low) * rate
      PROVE  IInv'
  <2> USE <1>2, <1>3
  <2>1. /\ previousThreshold = low
        /\ amount > low
        /\ remainingAmount = amount - low
        /\ fee = TieredFee(low)
    BY DEF IInv, TypeOK, LoopInv, Charge
  <2>2. AmountInThisTier = IF amount <= high THEN amount - low ELSE high - low
    BY <2>1 DEF AmountInThisTier
  <2>3. fee' = TieredFee(IF amount <= high THEN amount ELSE high)
    BY <2>1, <2>2 DEF Charge
  <2>4. fee' \in Nat
    BY <2>3, FeeBounds
  <2>5. /\ previousThreshold' = high
        /\ remainingAmount' = IF amount <= high THEN 0 ELSE amount - high
        /\ tier' = tier + 1
        /\ pc' = "loop"
        /\ amount' = amount
    BY <2>1, <2>2 DEF Charge
  <2>6. TypeOK'
    BY <2>4, <2>5, <1>1 DEF TypeOK, IInv
  <2>7. LoopInv'
    BY <2>3, <2>5 DEF LoopInv, Reached
  <2>8. ReturnsSchedule'
    BY <2>5 DEF ReturnsSchedule
  <2>9. QED
    BY <2>6, <2>7, <2>8 DEF IInv
<1>4. CASE tier = 1
  <2>1. /\ Tiers[1].threshold = 100 /\ Tiers[1].rate = 800
        /\ Reached(1) = 0 /\ Reached(1 + 1) = 100
    BY DEF Tiers, Reached
  <2>2. \A a \in Nat : a > 0 =>
          TieredFee(IF a <= 100 THEN a ELSE 100)
            = TieredFee(0) + (IF a <= 100 THEN a - 0 ELSE 100 - 0) * 800
    BY DEF TieredFee, Between
  <2>3. QED
    BY <1>3, <1>4, <2>1, <2>2
<1>5. CASE tier = 2
  <2>1. /\ Tiers[2].threshold = 1000 /\ Tiers[2].rate = 500
        /\ Reached(2) = 100 /\ Reached(2 + 1) = 1000
    BY DEF Tiers, Reached
  <2>2. \A a \in Nat : a > 100 =>
          TieredFee(IF a <= 1000 THEN a ELSE 1000)
            = TieredFee(100) + (IF a <= 1000 THEN a - 100 ELSE 1000 - 100) * 500
    BY DEF TieredFee, Between
  <2>3. QED
    BY <1>3, <1>5, <2>1, <2>2
<1>6. CASE tier = 3
  <2>1. /\ Tiers[3].threshold = 10000 /\ Tiers[3].rate = 300
        /\ Reached(3) = 1000 /\ Reached(3 + 1) = 10000
    BY DEF Tiers, Reached
  <2>2. \A a \in Nat : a > 1000 =>
          TieredFee(IF a <= 10000 THEN a ELSE 10000)
            = TieredFee(1000) + (IF a <= 10000 THEN a - 1000 ELSE 10000 - 1000) * 300
    BY DEF TieredFee, Between
  <2>3. QED
    BY <1>3, <1>6, <2>1, <2>2
<1>7. CASE tier = 4
  <2>1. /\ Tiers[4].threshold = 100000 /\ Tiers[4].rate = 150
        /\ Reached(4) = 10000 /\ Reached(4 + 1) = 100000
    BY DEF Tiers, Reached
  <2>2. \A a \in Nat : a > 10000 =>
          TieredFee(IF a <= 100000 THEN a ELSE 100000)
            = TieredFee(10000)
              + (IF a <= 100000 THEN a - 10000 ELSE 100000 - 10000) * 150
    BY DEF TieredFee, Between
  <2>3. QED
    BY <1>3, <1>7, <2>1, <2>2
<1>8. CASE tier = 5
  <2>1. /\ Tiers[5].threshold = 999999999 /\ Tiers[5].rate = 35
        /\ Reached(5) = 100000 /\ Reached(5 + 1) = 999999999
    BY DEF Tiers, Reached
  <2>2. \A a \in Nat : a > 100000 =>
          TieredFee(IF a <= 999999999 THEN a ELSE 999999999)
            = TieredFee(100000)
              + (IF a <= 999999999 THEN a - 100000 ELSE 999999999 - 100000) * 35
    BY DEF TieredFee, Between
  <2>3. QED
    BY <1>3, <1>8, <2>1, <2>2
<1>9. QED
  BY <1>2, <1>4, <1>5, <1>6, <1>7, <1>8

LEMMA ReturnPreserves == IInv /\ Return => IInv'
<1> SUFFICES ASSUME IInv, Return PROVE IInv'
  OBVIOUS
<1>1. Len(Tiers) = 5
  BY DEF Tiers
<1>2. amount \in Nat /\ previousThreshold \in Nat /\ remainingAmount \in Nat
  BY AmountsAssumption DEF IInv, TypeOK
<1>3. fee = TieredFee(amount)
  <2>1. CASE remainingAmount <= 0
    BY <1>2, <2>1 DEF IInv, LoopInv, Return
  <2>2. CASE tier > Len(Tiers)
    <3>1. tier = 6
      BY <1>1, <2>2 DEF IInv, TypeOK
    <3>2. previousThreshold = 999999999
      BY <3>1 DEF IInv, LoopInv, Return, Reached, Tiers
    <3>3. \A a \in Nat : a > 999999999 => TieredFee(999999999) = TieredFee(a)
      BY DEF TieredFee, Between
    <3>4. QED
      BY <1>2, <3>2, <3>3 DEF IInv, LoopInv, Return
  <2>3. QED
    BY <2>1, <2>2 DEF Return
<1>4. fee' = calculatePlatformFee(amount)
  BY <1>3 DEF Return, calculatePlatformFee
<1>5. TypeOK'
  BY <1>1, <1>2, <1>4, FeeBounds DEF IInv, TypeOK, Return
<1>6. LoopInv' /\ ReturnsSchedule'
  BY <1>4 DEF LoopInv, ReturnsSchedule, Return
<1>7. QED
  BY <1>5, <1>6 DEF IInv

LEMMA Inductive == Spec => []IInv
<1>1. IInv /\ UNCHANGED vars => IInv'
  BY DEF IInv, TypeOK, LoopInv, ReturnsSchedule, vars
<1>2. IInv /\ [Next]_vars => IInv'
  BY <1>1, ChargePreserves, ReturnPreserves DEF Next
<1>3. QED
  BY <1>2, InitEstablishes, PTL DEF Spec

\* For every set of amounts the loop stays within its tiers, and neither a
\* threshold, nor what is left of the amount, nor the fee is ever negative.
THEOREM TypeCorrect == Spec => []TypeOK
<1>1. IInv => TypeOK
  BY DEF IInv
<1>2. QED
  BY <1>1, Inductive, PTL

\* For every set of amounts, whenever calculatePlatformFee returns, it returns
\* the fee of the schedule.
THEOREM FeeIsSchedule == Spec => []ReturnsSchedule
<1>1. IInv => ReturnsSchedule
  BY DEF IInv
<1>2. QED
  BY <1>1, Inductive, PTL

\* For every amount of at least $2, what settlement credits after the loop has
\* returned covers the winner's own stake and never exceeds both stakes.
THEOREM PayoutIsBacked == Spec => []PayoutWithinStakes
<1>1. IInv => PayoutWithinStakes
  <2> SUFFICES ASSUME IInv, pc = "returned", amount >= 2
               PROVE  PayoutWithinStakes
    BY DEF PayoutWithinStakes
  <2>1. amount \in Nat
    BY AmountsAssumption DEF IInv, TypeOK
  <2>2. fee = calculatePlatformFee(amount)
    BY DEF IInv, ReturnsSchedule
  <2>3. QED
    BY <2>1, <2>2, PrizeBounds DEF PayoutWithinStakes, Prize
<1>2. QED
  BY <1>1, Inductive, PTL
=============================================================================
