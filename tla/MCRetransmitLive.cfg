SPECIFICATION FairSpec
CONSTANTS
  QueueMax = 2
  MaxRto = 1
  InitRtos = {1}
  DupThresh = 2
  MaxSack = 4
  MaxRetrans = 1
  MaxSeq = 3
  MaxAcks = 1
PROPERTIES
  QueueDrains
