CONSTANTS
    i1 = i1
    i2 = i2
    o1 = o1
    c1 = c1
    c2 = c2
    Incoming <- OneIncoming
    Renamed <- NoneRenamed
    Own <- OneOwn
    Calls <- TwoCalls
    MaxSaves = 1
SPECIFICATION Spec
INVARIANT NothingLost
