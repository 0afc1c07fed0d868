\* What the documentation says of a list with less room than all devices need,
\* on systems of two to four units with two drives behind a controller.
SPECIFICATION ScanSpec
CONSTANTS
  Systems <- MCSystems
  Nodes = {n1, n2, n3, n4}
  NULL = NULL
  MaxDevicesToScan = 3
  MaxDrives = 2
  MaxSlots = 5
  MaxChanges = 1
CHECK_DEADLOCK FALSE
INVARIANT
  NothingPastTheList
