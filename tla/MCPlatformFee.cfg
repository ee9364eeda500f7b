SPECIFICATION Spec
CONSTANT Amounts <- MCAmounts
CHECK_DEADLOCK FALSE
INVARIANTS ReturnsSchedule PayoutWithinStakes
