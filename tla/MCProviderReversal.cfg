SPECIFICATION FairSpec
CONSTANTS
  s1 = s1
  a1 = a1
  a2 = a2
  NumAllocations = 2
  Settlers = {s1}
  Admins = {a1, a2}
  MaxFaults = 1
INVARIANTS CompensatedOnce DebitedOnlyIfCredited ReversedIsCompensated PaidIsUndone ReversedStaysReversed
PROPERTIES RequestedIsReversed
CHECK_DEADLOCK FALSE
