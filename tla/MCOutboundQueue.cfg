CONSTANTS
    m1 = m1
    m2 = m2
    m3 = m3
    w1 = w1
    w2 = w2
    Messages <- ThreeMessages
    Workers <- TwoWorkers
    MaxQueueSize = 2
    MaxRetries = 1
    MaxResends = 0
    CanReload = FALSE
SPECIFICATION FairSpec
PROPERTY EverySendSettles
