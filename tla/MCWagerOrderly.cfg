SPECIFICATION OrderlySpec
CONSTANTS
  Users = {u1, u2}
  NoUser = NoUser
  Wagers = {w1, w2}
  NoWager = NoWager
  Reqs = {r1, r2, r3, r4, r5, r6}
  Terms = {t1}
  NoTerms = NoTerms
  Amounts = {4}
  InitialBalance = 3
  MaxFaults = 0
CHECK_DEADLOCK FALSE
INVARIANTS NoOverdraft MoneyConserved
PROPERTIES KeepsContract ClaimsEnd SettledEndsPaid
