CONSTANTS
    Publishers = {p1}
    Items = {gyro, accel}
    Requested = 2
    Wrap = 4
    Earlier = {0, 3}
    MaxMore = 2
SPECIFICATION FairSpec
INVARIANTS
    TypeOK
    DeletedItemIsForgotten
PROPERTIES
    MessagesInOrder
    
