SPECIFICATION HierSpec
CONSTANTS
  u1 = u1
  u2 = u2
  u3 = u3
  e1 = e1
  e2 = e2
  r1 = r1
  service = service
  HierUsers = {u1, u2, u3}
  HierServices = {service}
  Global = Global
  NoScope = NoScope
  HierEditors = {e1}
  HierReaders = {}
  MAX_DEPTH = 3
  MaxHierarchies = 2
SYMMETRY UserSymmetry
CONSTRAINT Small
INVARIANTS NoCircularHierarchy
CHECK_DEADLOCK FALSE
