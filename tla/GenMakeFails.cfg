SPECIFICATION Spec
CONSTANTS
  WordBits = 28
  BufferSizes = {1, 4, 8, 16, 17, 32, 33, 1000, 4096, 134217728}
  PartBlocks = 2
  MaxHeld = 2
  Sizes = {0, 1, 16, 17, 32, 33, 64, 65, 128, 129, 256, 257, 512, 513, 1024, 1025, 2048, 2049, 1048576, 1048577}
INVARIANT
  MakeSafe
CHECK_DEADLOCK FALSE
