CONSTANTS
    n1 = n1
    n2 = n2
    n3 = n3
    f1 = f1
    f2 = f2
    f3 = f3
    NoNode = NoNode
    Nodes <- ThreeNodes
    Flows <- ThreeFlows
    MaxRefused = 1
SPECIFICATION FairSpec
INVARIANTS
    SessionIsSound
    NoOrphan
    RestIsConsistent
PROPERTY DroppedGoesDown
CHECK_DEADLOCK FALSE
