SPECIFICATION Spec
CONSTANTS
  Users = {u1, u2, u3}
  NoUser = NoUser
  Wagers = {w1}
  NoWager = NoWager
  Reqs = {r1, r2, r3, r4}
  Terms = {t1}
  NoTerms = NoTerms
  Amounts = {3}
  InitialBalance = 2
  MaxFaults = 2
SYMMETRY Symmetry
CHECK_DEADLOCK FALSE
INVARIANTS TypeOK SeatsBacked TimeoutPaysStaker SnapshotsHold DisputeQueued SettledPaid
PROPERTY RowHistory
