\* Five steps per host, each with a timeout of its own.
SPECIFICATION Spec
CONSTANTS
    RowCounts = {1}
    Healthy = {}
    Pid = 4
    ConnectTimeout = 1
    HandshakeTimeout = 1
    Budget = 0
    MaxCancels = 0
INVARIANTS
    HostBounded
