\* Two brokers in one transaction: the callback visits them in turn.
SPECIFICATION Spec
CONSTANTS
    Brokers = {b1, b2}
    Msgs = {m1, m2}
    None = None
    MaxDepth = 0
    MaxUpsets = 0
SYMMETRY Symmetry
VIEW View
INVARIANTS
    NoPhantom
    LossAccounted
    CleanBetweenTransactions
PROPERTIES
    KeepsPromise
