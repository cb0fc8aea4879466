SPECIFICATION Spec
CONSTANTS
  MaxOps = 2
  MaxChannels = 1
  MaxQueue = 2
  MaxItems = 1
  MaxNoise = 0
  SampleCount = 2
  BatchSizes <- OneOrTwo
  OpKinds <- CollectOnly
  Problems <- OneProblem
  Faults <- NoFault
PROPERTIES
  TimeoutMeansNoResponse
