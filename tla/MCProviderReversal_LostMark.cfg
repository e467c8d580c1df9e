SPECIFICATION Spec
CONSTANTS
  s1 = s1
  a1 = a1
  a2 = a2
  NumAllocations = 2
  Settlers = {s1}
  Admins = {a1}
  MaxFaults = 1
INVARIANTS CompletedUndoesCredits
CHECK_DEADLOCK FALSE
