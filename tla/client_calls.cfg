SPECIFICATION Spec
CONSTANTS
  MaxOps = 3
  MaxChannels = 1
  MaxQueue = 3
  MaxItems = 1
  MaxNoise = 1
  SampleCount = 2
  BatchSizes <- OneOrTwo
  OpKinds <- CallKinds
  Problems <- OneProblem
  Faults <- AllFaults
INVARIANTS
  TypeOK
  AnswerIsOwn
  CollectedWhole
  AnswerKept
PROPERTIES
  ImplementsBridgeCall
