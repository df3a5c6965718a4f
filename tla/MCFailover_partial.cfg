\* A cancel while the cache is being filled.
SPECIFICATION Spec
CONSTANTS
    RowCounts = {2}
    Healthy = {}
    Pid = 4
    ConnectTimeout = 1
    HandshakeTimeout = 1
    Budget = 0
    MaxCancels = 1
INVARIANTS
    CacheWhole
