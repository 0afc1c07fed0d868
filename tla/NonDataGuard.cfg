SPECIFICATION GuardSpec
CONSTANTS
  Adapters <- AllAdapters
  Noise <- AnyNoise
INVARIANTS
  FirstTestProtects
  GuardIsExact
PROPERTY
  BrokenOnUnanimity
