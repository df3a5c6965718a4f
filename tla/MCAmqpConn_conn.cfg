SPECIFICATION FairSpec
CONSTANTS
    Requests <- Asked
    Addresses <- Hosts
    Tls = TRUE
    Chunks = {9}
    FirstFrameMax = 32
    LoginFrameMax = 24
    ServerFrameMax = {0, 22}
    DecodingPage = 64
    MaxPushes = 1
    MaxCalls = 3
INVARIANTS
    TypeOK
    ReaderAgrees
    MemoryExclusive
    NothingLeaks
    FramesAccounted
    ReplyMatches
    LoginSound
    HonestBrokerServed
PROPERTIES
    FramesReadAsSent
    ErrorsStick
    ShownInOrder
    CallsReturn
