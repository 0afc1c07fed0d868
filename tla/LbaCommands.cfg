\* Five blocks; the ten-byte forms reach four of those of a large drive, and two
\* calls, of which the second acts on what the first one learned.
SPECIFICATION Spec
CONSTANTS
  Last = 4
  Values = {0, 1, 2}
  Uncorrectable = Uncorrectable
  MaxFaults = 1
  Lba6 = 2
  Lba10 = 4
  Count6 = 2
  Count10 = 3
  Count16 = 4
  Drives <- MCDrives
  Media <- MCMedia
  Calls <- MCCalls
  MaxCalls = 2
CHECK_DEADLOCK FALSE
INVARIANTS
  DoesWhatWasAsked
  ForcedMeansSaved
PROPERTY
  CallsEnd
