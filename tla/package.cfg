SPECIFICATION FairSpec
CONSTANTS
  Mechanisms <- Names
  Safe <- SafeNames
  Lists <- OneList
  Overrides <- NoOverride
  Plans <- PlanNames
  Items <- PlanItems
  Protected <- ProtectedNames
  CascadeLimit <- Limit
INVARIANTS
  TypeOK
  RefusalIsFinal
  GuardHolds
  OneBackend
  SessionClosed
  SuccessIsReal
PROPERTIES
  ImplementsAudit
  InvocationEnds
