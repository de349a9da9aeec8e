CONSTANTS
    Capacity = 3
    j1 = j1
    j2 = j2
    j3 = j3
    Zeroed = zero
    zero = zero
    Items <- MCItems
SPECIFICATION Spec
INVARIANT WindowInv
PROPERTY FifoSpec
