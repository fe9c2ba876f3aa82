SPECIFICATION SpecUnorderedLoads
CONSTANTS
  a = a
  b = b
  Size = 4
  CtrMod = 8
  Byte = {a, b}
  ZeroByte = a
  Chunks <- MCChunks
  MaxRead = 5
  Idle = Idle
  Unloaded = Unloaded
INVARIANTS ReadsPublished
