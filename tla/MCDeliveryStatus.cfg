CONSTANTS
    f1 = f1
    f2 = f2
    Flows <- TwoFlows
    MaxEntries = 2
    MaxStreams = 2
    MaxReceipts = 2
SPECIFICATION Spec
INVARIANTS
    StatusIsSound
    QueuedIsRetried
    AcknowledgedIsKept
SYMMETRY Symmetry
