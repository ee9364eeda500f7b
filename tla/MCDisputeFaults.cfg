SPECIFICATION Spec
CONSTANTS
  MaxId = 3
  Categories = {OTHERS, SPORTS}
  OTHERS = OTHERS
  Signups = {s1}
  Wagers = {w1, w2}
  NoWager = NoWager
  Jobs = {j1, j2}
  MaxMessages = 2
  MaxFaults = 1
CHECK_DEADLOCK FALSE
SYMMETRY Symmetry
INVARIANTS TypeOK LoadCoversChats ChatsAreAttended DisputesPursued
PROPERTY DiscussionsKept
