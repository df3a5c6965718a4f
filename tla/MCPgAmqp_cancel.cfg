\* A cancelled connect leaves a channel 2 that is not transactional.
SPECIFICATION Spec
CONSTANTS
    Brokers = {b1}
    Msgs = {m1}
    None = None
    MaxDepth = 0
    MaxUpsets = 1
SYMMETRY Symmetry
INVARIANTS
    OnlyOnCommit
