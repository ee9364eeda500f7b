SPECIFICATION Spec
CONSTANTS
  Ids = {a, b, c}
  NoId = NoId
  Members = {a, b}
  Emails = {e1, e2, e3}
  NoEmail = NoEmail
  Names = {n1, n2, n3}
  NoName = NoName
  Openings = {6}
  Amounts = {1, 5}
  Reqs = {r1, r2, r3}
  NoReq = NoReq
  MaxFaults = 1
SYMMETRY Symmetry
CHECK_DEADLOCK FALSE
INVARIANTS TypeOK MoneyTraced OverdraftsOvertaken TwoFactorBacked
PROPERTY DeletedPoor
