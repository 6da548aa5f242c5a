CONSTANTS
    d1 = d1
    d2 = d2
    c1 = c1
    c2 = c2
    c3 = c3
    NoId = NoId
    Devices <- TwoDevices
    CallIds <- TwoCalls
    MaxFlows = 2
    MaxSignals = 2
SPECIFICATION Spec
INVARIANTS
    MicrophoneIsForCalls
    ConnectedNeedsConsent
    NoCrossedCalls
SYMMETRY Symmetry
CHECK_DEADLOCK FALSE
