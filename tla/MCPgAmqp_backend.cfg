\* One broker, two messages, nested savepoints, an upset.
SPECIFICATION Spec
CONSTANTS
    Brokers = {b1}
    Msgs = {m1, m2}
    None = None
    MaxDepth = 2
    MaxUpsets = 1
SYMMETRY Symmetry
VIEW View
INVARIANTS
    TypeOK
    BufferNeedsConn
    CountExact
    CleanBetweenTransactions
    TimeoutBudget
    NoPhantom
    LossAccounted
PROPERTIES
    FlushIsExact
    KeepsPromise
