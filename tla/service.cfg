SPECIFICATION FairSpec
CONSTANTS
  Mechanisms <- Names
  Safe <- SafeNames
  Lists <- SomeLists
  Overrides <- SomeOverrides
  Ops <- AllOps
INVARIANTS
  TypeOK
  Gated
  LoadedFirst
  SuccessIsReal
  RefusalIsFinal
PROPERTIES
  ImplementsAudit
  AttemptEnds
