SPECIFICATION Spec
CONSTANTS
  k1 = k1
  k2 = k2
  h1 = h1
  h2 = h2
  a1 = a1
  a2 = a2
  d1 = d1
  Refs = {k1}
  Keys = {k1}
  CashDeposits = {k1}
  Handlers = {h1}
  Admins = {}
  Duplicates = {}
  Workers = {h1}
  MaxRedeliveries = 0
  NoRef = NoRef
  NoHandler = NoHandler
  Requests = {"request"}
  Intents = {"intent"}
  IntentOf <- OneIntent
INVARIANTS FailedDepositIsQueued
CHECK_DEADLOCK FALSE
