CONSTANTS
    Configs <- AllConfigs
    Interruptible <- MavConfigs
    MaxCommands = 1
SPECIFICATION FairSpec
INVARIANTS
    TypeOK
    
    KnownArmedIsDisarmed
    VisionIsAligned
PROPERTIES
    StopEnds
    ReceiverEnds
