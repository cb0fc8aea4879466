SPECIFICATION FairSpec
CONSTANTS
  Mechanisms <- Names
  Safe <- SafeNames
  Lists <- AnyList
  Overrides <- AnyOverride
  Calls <- OwnCalls
INVARIANTS
  TypeOK
  RootByConsent
  OneRootPeer
  BestPeer
  DeniedIsFinal
PROPERTIES
  EscalationEnds
