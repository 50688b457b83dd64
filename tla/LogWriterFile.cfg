CONSTANTS
    Mission = TRUE
    BufferSize <- Sizes
    MinChunk <- Chunks
    MaxMessage = 2
    MaxBytes = 3
    MaxLogs = 2
SPECIFICATION FairSpec
INVARIANTS
    TypeOK
    FileIsFaithful
    CloseDropsOnlyOverlap
PROPERTIES
    LoggerNeverHangs
