CONSTANTS
    Mission = FALSE
    BufferSize <- Sizes
    MinChunk <- Chunks
    MaxMessage = 2
    MaxBytes = 4
    MaxLogs = 1
SPECIFICATION Spec
INVARIANTS
    StoppedLogIsComplete
