SPECIFICATION MCSpec
CONSTANTS
  k1 = k1
  k2 = k2
  k3 = k3
  w1 = w1
  w2 = w2
  Users = {1, 2, 3}
  WalletTypes = {"MAIN", "AEPS"}
  Keys = {k1, k2, k3}
  Requests <- PostingsAndTransfers
  Workers = {w1, w2}
  NoRequest = NoRequest
INVARIANTS BalancesChain AnsweredPosted
PROPERTIES AtomicMovements OperationsEnd
