\* Edits only: no commission is created.
SPECIFICATION PlanSpec
CONSTANTS
  distributor = distributor
  retailer = retailer
  Creators = {}
  DistEditors = {e1, e2}
  RecipientRoles = {distributor, retailer}
  Values = {60}
  Pools = {5}
  MaxDistributions = 2
  SourceUser = SourceUser
INVARIANTS OneDistributionPerRole
