CONSTANTS
    x1 = x1
    x2 = x2
    y1 = y1
    y2 = y2
    z1 = z1
    z2 = z2
    Incoming <- OneZ
    Own <- OtherZ
    Renamed <- NoneRenamed
    Calls <- TwoX
    MaxSaves = 2
    Remotes <- XAndTwoZ
    Relays <- OneZ
    Limit = 2
    PoolConns <- UpToFour
    Trims <- TwoY
    DialConns <- UpToTwo
    Sends <- TwoX
    Upgrades <- TwoY
    MaxRequests = 1
    TopicNames <- XAndZ
    MaxChunks = 4
    MaxPending = 2
    MaxQueued = 2
    MaxPresses = 2
    MaxFlows = 2
    Starts <- TwoX
    MaxStreams = 3
    ChatPeers <- OneZ
    ChatGroups <- OtherZ
    Decryptions <- OneX
    Creations <- OneY
    BookPeers <- TwoX
    BookNames <- TwoY
    Identities <- TwoX
    NoIdentity = z1
    HandleNames <- TwoX
    MaxRecord = 1
    Events <- TwoX
    MaxUnread = 1
    MaxPushes = 1
    RelayPeers <- TwoX
    Callbacks <- TwoY
    MaxKeys = 2
    Inbound <- TwoX
    MaxSignals = 2
SPECIFICATION ComponentsSpec
SYMMETRY Symmetry
CHECK_DEADLOCK FALSE
INVARIANTS
    NoDuplicates
    LossNeedsOverlap
    TypesOK
    ShownIsConnected
    EffortIsShared
    OpenGroupIsHeard
    PlayedInOrder
    MuteIsTrue
    NothingRingsOn
    CameraIsOff
    OneDirect
    OpenChatIsRead
    LinkOpensChat
    LabelIsEchoed
    ProofIsForIdentity
    HandleIsCurrent
    OneAlert
    FilesSurviveCrashes
    GaugeIsExact
    BotIsReliable
PROPERTY TrimKeepsLimit
