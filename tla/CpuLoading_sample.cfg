SPECIFICATION FairSpec
CONSTANTS
  NThreads = 3
  Nodes <- MCNodes
  Polling <- MCPolling
  Absent = "absent"
  SamplingTimes = {0, 1}
  MaxTime = 1
INVARIANTS
  TypeOK
  LoadingInRange
  SampleIsExact
PROPERTIES
  SamplesRecur
