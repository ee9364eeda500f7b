SPECIFICATION FairSpec
CONSTANTS
  Users = {u1}
  NoUser = NoUser
  Offline = {u1}
  Deposits = {d1}
  Withdrawals = {w1}
  Keys = {k1}
  NoKey = NoKey
  Amounts = {9, 11}
  InitialBalance = 6
  MaxFaults = 2
CHECK_DEADLOCK FALSE
INVARIANTS TypeOK PayoutsDebited CreditsConfirmed StatusTrue Pursued KeysTrue
PROPERTIES StatusFinal KeepsWalletContract DepositsDecided
