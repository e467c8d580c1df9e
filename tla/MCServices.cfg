\* Each part has its own instance; see Scenario for what is left out of it.
SPECIFICATION MCSpec
CONSTANTS
  k1 = k1
  k2 = k2
  h1 = h1
  h2 = h2
  h3 = h3
  Keys = {k1, k2}
  Handlers = {h1, h2, h3}
  NoHandler = NoHandler
  Requests <- MCRequests
  Intents <- MCIntents
  IntentOf <- MCIntentOf
  AuthSenders = {s1}
  AuthHandlers = {h1, h2}
  MaxAuths = 2
  Guards = {g1}
  Revokers = {r1}
  Refreshers = {f1, f2}
  MaxSessions = 2
  MaxPasswords = 1
  NoVersion = NoVersion
  OtpSenders = {s1, s2}
  OtpVerifiers = {v1, v2}
  MaxOtps = 2
  MaxAttempts = 1
  Nobody = Nobody
INVARIANTS OneUnsettledPerIntent OneCallPerAuthorization OnlyNewestUsable RevokedIsRefused TokenExchangedOnce  OnlyNewestOtp
PROPERTIES NeverReopened LapsedEndsUnusable RevokedEndsRefused
\* Every handler of an intent begins once: a run may stop when all are closed.
CHECK_DEADLOCK FALSE
