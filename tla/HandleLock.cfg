\* Two processes on one drive, four kinds of machine, locks nested twice.
SPECIFICATION Spec
CONSTANTS
  Process = {p, q}
  LockCountMax = 2
SYMMETRY Symmetry
INVARIANTS
  OneOwner
  HandleLockGivenBack
  CloseGivesBack
  ExclusiveIsAlone
