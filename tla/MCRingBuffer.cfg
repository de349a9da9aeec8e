CONSTANTS
    Capacity = 3
    SizeModulus = 100
    MaxCall = 4
    MaxTotal = 9
SPECIFICATION Spec
INVARIANTS
    TypeOK
    NoDataRace
    InOrder
    PromisesHonored
PROPERTY FifoSpec
