CONSTANTS
  a = a
  b = b
  Junk = Junk
  Byte <- MCByte
  Chunks <- MCChunks
  Sizes <- MCSizes
  CreateSizes <- MCCreateSizes
  InitLen = 2
  MaxLen = 5

SPECIFICATION BufferSpec

INVARIANTS
  BufferTypeOK
  AllocFits
  CapacityBounded

PROPERTIES
  QueueSpec
