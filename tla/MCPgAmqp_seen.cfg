\* A close read by a drain whose result is ignored.
SPECIFICATION Spec
CONSTANTS
    Brokers = {b1}
    Msgs = {m1, m2}
    None = None
    MaxDepth = 0
    MaxUpsets = 0
SYMMETRY Symmetry
INVARIANTS
    SeenCloseMeansReconnect
