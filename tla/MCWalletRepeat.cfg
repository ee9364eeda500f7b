SPECIFICATION Spec
CONSTANTS
  Users = {u1}
  NoUser = NoUser
  Offline = {}
  Deposits = {}
  Withdrawals = {w1, w2}
  Keys = {k1}
  NoKey = NoKey
  Amounts = {11}
  InitialBalance = 6
  MaxFaults = 0
CHECK_DEADLOCK FALSE
PROPERTY KeyPreventsRepeat
