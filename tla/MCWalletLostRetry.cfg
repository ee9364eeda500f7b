SPECIFICATION FairSpec
CONSTANTS
  Users = {u1, u2}
  NoUser = NoUser
  Offline = {u2}
  Deposits = {d1, d2}
  Withdrawals = {}
  Keys = {k1}
  NoKey = NoKey
  Amounts = {11}
  InitialBalance = 6
  MaxFaults = 0
CHECK_DEADLOCK FALSE
PROPERTY RetriesAreMade
