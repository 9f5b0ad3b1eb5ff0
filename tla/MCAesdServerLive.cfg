CONSTANTS
    c1 = c1
    c2 = c2
    a = a
    nl = nl
    NoOne = NoOne
    Client <- MCClient
    N = 2
    Byte <- MCByte
    NL = nl
    Text <- MCOneText
    Seek = {}
    MaxLines = 2
    Window = 1
SPECIFICATION FairSpec
PROPERTIES
    SignalEndsAccepting
    ExitsWhenClientsLeave
    CommandsAreAnswered
    ImplementsLineService
CHECK_DEADLOCK FALSE
