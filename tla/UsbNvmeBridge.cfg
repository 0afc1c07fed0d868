\* Two clients, two calls, two faults.
SPECIFICATION Spec
CONSTANTS
  Clients = {c1, c2}
  Commands <- MCCommands
  MaxCalls = 2
  MaxFaults = 2
SYMMETRY Symmetry
CHECK_DEADLOCK FALSE
INVARIANTS
  RunsOwnCommand
  SuccessMeansRun
  ResetTellsTheTruth
