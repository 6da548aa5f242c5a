CONSTANTS
    p1 = p1
    p2 = p2
    e1 = e1
    e2 = e2
    e3 = e3
    NoCursor = NoCursor
    Peers <- MCPeers
    EnvelopeIds <- MCEnvelopeIds
    SentAts <- MCSentAts
    Expiries <- MCExpiries
    DefaultTTL = 1
    MaxPerRecipient = 2
    Horizon = 3
    MaxAppends = 4
SPECIFICATION Spec
INVARIANTS
    QueueIsSound
PROPERTY ImplementsMailbox
SYMMETRY Symmetry
