CONSTANTS
    c1 = c1
    c2 = c2
    nl = nl
    a = a
    s = s
    NoOne = NoOne
    Stamp = Stamp
    Client <- MCClient
    Byte <- MCByte
    NL = nl
    SeekByte = s
    BufferSize = 1
    ReadSize = 2
    MaxBytes = 3
    MaxTicks = 3
SPECIFICATION FairSpec
INVARIANTS
    TypeOK
    TimestampsOverwriteTheStart
    LinesStayTogether
    RepliesOmitOwnLines
    OnlyTheZeroIsOutside
    FailsOnlyForLateHandlers
PROPERTIES
    EndsAfterSignal
CHECK_DEADLOCK FALSE
