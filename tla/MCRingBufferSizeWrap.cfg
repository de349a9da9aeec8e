CONSTANTS
    Capacity = 3
    SizeModulus = 4
    MaxCall = 3
    MaxTotal = 11
SPECIFICATION Spec
INVARIANTS
    InOrder
