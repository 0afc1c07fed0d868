\* Two drives, four calls, two faults.
SPECIFICATION Spec
CONSTANTS
  Devices = {d1, d2}
  Drives <- MCDrives
  Ops = {"readErrorLog", "trustedSend", "sctControl", "sctTable", "sctReadLong", "sctWriteSame"}
  MaxCalls = 4
  MaxFaults = 2
SYMMETRY Symmetry
CHECK_DEADLOCK FALSE
INVARIANTS
  TwiceOnlyForRegisters
  DmaOffForCauseAndGood
  DataFeedsOwnCommand
  SuccessMeansTaken
