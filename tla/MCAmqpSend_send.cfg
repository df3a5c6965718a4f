\* Every call of the library, one after the other, over a socket whose writes
\* may fail or be cut short.
SPECIFICATION Spec
CONSTANTS
    Calls <- AllCalls
    FrameMax = 300
    MaxInFlight = 2
INVARIANTS
    TypeOK
    PeerUnderstands
    ContentWhole
    FramesFit
PROPERTIES
    FramesArriveAsSent
