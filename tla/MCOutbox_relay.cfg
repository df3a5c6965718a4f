\* Two relay workers, three rows, a live and a dead broker; fair relays.
SPECIFICATION FairSpec
CONSTANTS
    Brokers = {b1, b2}
    DeadBrokers = {b2}
    Filters = {{b1, b2}, {b1}}
    Workers = {w1, w2}
    MaxId = 3
    Limit = 2
    MaxFailures = 1
INVARIANTS
    TypeOK
    NeverIfRolledBack
    NoNeedlessDuplicate
PROPERTIES
    RowsGetShipped
