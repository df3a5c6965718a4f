\* None, one or three hosts, of which one answers; a budget one dead host
\* exhausts; a cancel.
SPECIFICATION FairSpec
CONSTANTS
    RowCounts = {0, 1, 3}
    Healthy = {1}
    Pid = 4
    ConnectTimeout = 1
    HandshakeTimeout = 1
    Budget = 1
    MaxCancels = 1
INVARIANTS
    TypeOK
    AttemptBounded
    HostsRotate
PROPERTIES
    Reconnects
    NoEarlyRetry
