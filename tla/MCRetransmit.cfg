SPECIFICATION Spec
CONSTANTS
  QueueMax = 2
  MaxRto = 4
  InitRtos = {1}
  DupThresh = 3
  MaxSack = 4
  MaxRetrans = 1
  MaxSeq = 3
  MaxAcks = 2
INVARIANTS
  QueueIsSuffix NothingLost NoAckedBacklog
PROPERTIES
  BackoffMonotone
