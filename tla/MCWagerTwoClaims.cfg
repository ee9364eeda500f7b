SPECIFICATION OrderlySpec
CONSTANTS
  Users = {u1, u2}
  NoUser = NoUser
  Wagers = {w1}
  NoWager = NoWager
  Reqs = {r1, r2, r3, r4}
  Terms = {t1}
  NoTerms = NoTerms
  Amounts = {4}
  InitialBalance = 2
  MaxFaults = 0
CHECK_DEADLOCK FALSE
INVARIANT TimerPaysStoredWinner
