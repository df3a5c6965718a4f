\* Redo of an autonomous publish drops the transactional buffer.
SPECIFICATION Spec
CONSTANTS
    Brokers = {b1}
    Msgs = {m1, m2}
    None = None
    MaxDepth = 0
    MaxUpsets = 0
SYMMETRY Symmetry
INVARIANTS
    LoudLoss
