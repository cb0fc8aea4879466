SPECIFICATION Spec
CONSTANTS
  Mechanisms <- Names
  Safe <- SafeNames
  Lists <- OneList
  Overrides <- NoOverride
  Plans <- PlanNames
  Items <- PlanItems
  Protected <- ProtectedNames
  CascadeLimit <- Limit
INVARIANT
  DryRunGuarded
