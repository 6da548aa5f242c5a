CONSTANTS
    e1 = e1
    e2 = e2
    e3 = e3
    d1 = d1
    d2 = d2
    NoCursor = NoCursor
    Me = Me
    EnvelopeIds <- TwoEnvelopes
    SentAts <- MCSentAts
    Expiries <- MCExpiries
    DefaultTTL = 1
    MaxPerRecipient = 2
    Horizon = 1
    MaxAppends = 2
    Drains <- TwoDrains
    PageSize = 1
    MaxFaults = 2
    CanRepeat = TRUE
SPECIFICATION FairSpec
PROPERTY MailboxEmpties
