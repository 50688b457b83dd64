CONSTANTS
    MaxCommands = 3
SPECIFICATION FairSpec
INVARIANTS TypeOK
PROPERTIES FramesNeverGoBack QuietAfterEndOffboard LastCommandIsStreamed
