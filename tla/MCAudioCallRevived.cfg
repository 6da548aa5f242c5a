CONSTANTS
    d1 = d1
    d2 = d2
    c1 = c1
    c2 = c2
    c3 = c3
    NoId = NoId
    Devices <- TwoDevices
    CallIds <- OneCall
    MaxFlows = 2
    MaxSignals = 2
SPECIFICATION Spec
PROPERTY NeverRevived
SYMMETRY Symmetry
CHECK_DEADLOCK FALSE
