CONSTANTS
    e1 = e1
    e2 = e2
    e3 = e3
    d1 = d1
    d2 = d2
    NoCursor = NoCursor
    Me = Me
    EnvelopeIds <- ThreeEnvelopes
    SentAts <- MCSentAts
    Expiries <- NoExpiries
    DefaultTTL = 1
    MaxPerRecipient = 3
    Horizon = 1
    MaxAppends = 3
    Drains <- TwoDrains
    PageSize = 2
    MaxFaults = 2
    CanRepeat = FALSE
SPECIFICATION Spec
INVARIANTS
    WalkIsSound
PROPERTY OnlySavedIsDropped
SYMMETRY Symmetry
