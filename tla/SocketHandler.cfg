SPECIFICATION FairSpec
CONSTANTS
    Sizes <- MCSizes
    HeaderSize = 2
    BufferSize = 5
    PktProcDelay = 2
    MaxTime = 2
CHECK_DEADLOCK FALSE
PROPERTIES
    ImplementsChannel
