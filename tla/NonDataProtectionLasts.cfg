SPECIFICATION GuardSpec
CONSTANTS
    Adapters <- Steady
    Noise <- Quiet
INVARIANT ProtectionLasts
