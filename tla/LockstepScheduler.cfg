CONSTANTS
    Threads = {t1, t2}
    MaxTime = 2
SPECIFICATION FairSpec
INVARIANTS
    TypeOK
    SetterTouchesLiveWaits
    
PROPERTIES
    EveryWaitReturns
