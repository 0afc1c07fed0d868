\* Systems of two to four units, two drives behind a controller, a list of up
\* to five entries, one change while the scan runs; three handles are tried, so
\* that the last disk of four is past MAX_DEVICES_TO_SCAN.
SPECIFICATION ScanSpec
CONSTANTS
  Systems <- MCSystems
  Nodes = {n1, n2, n3, n4}
  NULL = NULL
  MaxDevicesToScan = 3
  MaxDrives = 2
  MaxSlots = 5
  MaxChanges = 1
CHECK_DEADLOCK FALSE
INVARIANTS
  RaidListWhole
  PastTheListOneController
  ListedOnce
  AllListed
  ResultIsTrue
