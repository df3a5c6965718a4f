\* Fair backend: every call and callback returns.
SPECIFICATION FairSpec
CONSTANTS
    Brokers = {b1}
    Msgs = {m1}
    None = None
    MaxDepth = 1
    MaxUpsets = 2
PROPERTIES
    BackendReturns
