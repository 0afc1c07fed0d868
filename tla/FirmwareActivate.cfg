\* Two images, four calls, power cycles between.
SPECIFICATION Spec
CONSTANTS
  MaxImages = 2
  MaxCalls = 4
CHECK_DEADLOCK FALSE
INVARIANTS
  ResetIsWarranted
  AcceptedOnce
  SuccessMeansRunning
  PowerCycleActivates
