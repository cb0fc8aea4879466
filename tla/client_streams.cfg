SPECIFICATION FairSpec
CONSTANTS
  MaxOps = 3
  MaxChannels = 2
  MaxQueue = 2
  MaxItems = 3
  MaxNoise = 0
  SampleCount = 2
  BatchSizes <- OneOrTwo
  OpKinds <- StreamKinds
  Problems <- SomeProblems
  Faults <- ExitOnly
INVARIANTS
  CollectedWhole
  SamplesBounded
  CloseReportedByOwner
PROPERTIES
  OperationEnds
