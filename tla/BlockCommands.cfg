\* Four blocks, 28-bit commands of two, 48-bit ones of four.
SPECIFICATION Spec
CONSTANTS
  Last = 3
  Values = {0, 1, 2}
  Uncorrectable = Uncorrectable
  MaxFaults = 1
  ShortLimit = 2
  LongLimit = 4
  Chunk = 2
  PerBuffer = 1
  MaxRange = 2
  OffsetSpan = 4
  Radix = 2
  Drives <- MCDrives
  Media <- MCMedia
  Calls <- MCCalls
  MaxCalls = 1
CHECK_DEADLOCK FALSE
INVARIANTS
  OnlyAskedBlocks
  SuccessMeansWritten
  VerifiedMeansReadable
  DurableWhenTold
PROPERTY
  CommandsReturn
