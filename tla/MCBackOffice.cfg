\* See Small for what is left out of the hierarchy, Scenario for the other parts.
SPECIFICATION MCSpec
CONSTANTS
  u1 = u1
  u2 = u2
  u3 = u3
  e1 = e1
  e2 = e2
  r1 = r1
  service = service
  distributor = distributor
  retailer = retailer
  a1 = a1
  a2 = a2
  n1 = n1
  k1 = k1
  HierUsers = {u1, u2, u3}
  HierServices = {service}
  Global = Global
  NoScope = NoScope
  HierEditors = {e1, e2}
  HierReaders = {r1}
  MAX_DEPTH = 3
  MaxHierarchies = 3
  Creators = {c1, c2}
  DistEditors = {e1, e2}
  RecipientRoles = {distributor, retailer}
  Values = {60, 150}
  Pools = {0, 101}
  MaxDistributions = 2
  SourceUser = SourceUser
  Applicants = {a1, a2}
  KycRequests = {r1, r2}
  KycNumbers = {n1, n2}
  NoNumber = NoNumber
  PlainTypes = {}
  Earlier = Earlier
  NoWriter = NoWriter
  GwRequests = {q1, q2, q3}
  GwKeys = {k1, k2}
  GwScopes = {"one", "two"}
  GwPayloads = {"one", "two"}
  NoGwRecord = NoGwRecord
  NoAnswer = NoAnswer
  i1 = i1
  p1 = p1
  Identities = {i1}
  SuperAdmins = {s1}
  Registrations = {d1}
  Clerks = {c1, c2}
  Phones = {p1, p2}
  Pans = {n1}
  NoPhone = NoPhone
  NoPan = NoPan
  NoRow = NoRow
  MaxChanges = 1
CONSTRAINT Small
INVARIANTS OneActiveParent NoCircleInScope AnswersAgree PlanAddsUp StoredFilesExist SubmittedIsComplete OnceForKey VerifiedPhoneIsProven CompletedIsOnboarded
CHECK_DEADLOCK FALSE
