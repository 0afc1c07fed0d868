SPECIFICATION Spec
CONSTANTS
    Commands <- AllCommands
    Bridges <- AllBridges
    InitialHacks <- AllHacks
INVARIANTS
    SuccessIsTruthfulUnlessDropped
    RegistersAreThisCommands
    NoRequestPingPong
PROPERTIES
    DmaSwitchIsJustified
    ImplementsOnce
    CallsReturn
