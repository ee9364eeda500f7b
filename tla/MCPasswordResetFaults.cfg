SPECIFICATION Spec
CONSTANTS
  Emails = {e1, e2}
  NoEmail = NoEmail
  Reqs = {r1, r2, r3, r4, r5}
  NoReq = NoReq
  MaxFaults = 1
SYMMETRY Symmetry
CHECK_DEADLOCK FALSE
INVARIANTS TypeOK SessionsOwn CurrentStored ChangesAsked MailsOwn
PROPERTY FinishedStays
