SPECIFICATION Spec
CONSTANTS
    Bridges <- MCBridges
    InitialHacks <- MCHacks
    Drives <- MCDrives
INVARIANTS
    TypeOK
    OpticalNotSentA1
PROPERTIES
    WorkingBridgeFound
