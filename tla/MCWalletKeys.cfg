SPECIFICATION FairSpec
CONSTANTS
  Users = {u1}
  NoUser = NoUser
  Offline = {u1}
  Deposits = {}
  Withdrawals = {w1, w2}
  Keys = {k1}
  NoKey = NoKey
  Amounts = {11}
  InitialBalance = 6
  MaxFaults = 2
CHECK_DEADLOCK FALSE
PROPERTY KeysFreed
