CONSTANTS
    m1 = m1
    m2 = m2
    m3 = m3
    w1 = w1
    w2 = w2
    Messages <- TwoMessages
    Workers <- TwoWorkers
    MaxQueueSize = 1
    MaxRetries = 1
    MaxResends = 1
    CanReload = TRUE
SPECIFICATION Spec
INVARIANTS
    QueueIsSound
    FateIsTrue
PROPERTY ImplementsOutbox
SYMMETRY Symmetry
