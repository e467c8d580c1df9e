SPECIFICATION MCSpec
CONSTANTS
  k1 = k1
  k2 = k2
  k3 = k3
  h1 = h1
  h2 = h2
  a1 = a1
  a2 = a2
  d1 = d1
  Refs = {k1, k2, k3}
  Keys = {k1, k2, k3}
  CashDeposits = {k3}
  Handlers = {h1, h2}
  Admins = {a1, a2}
  Duplicates = {d1}
  Workers = {h1, h2, a1, a2, d1}
  MaxRedeliveries = 1
  NoRef = NoRef
  NoHandler = NoHandler
  Requests = {"request"}
  Intents = {"intent"}
  IntentOf <- OneIntent
INVARIANTS MovedOnce CreditEarned ProviderOncePerKey RecordAgreesWithWallet IncomeAfterPrincipal SuccessfulDepositKeepsDebit OneCallInDoubt
PROPERTIES BlockedIntentIsReleased
CHECK_DEADLOCK FALSE
