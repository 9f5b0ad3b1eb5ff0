CONSTANTS
    c1 = c1
    c2 = c2
    a = a
    nl = nl
    NoOne = NoOne
    Client <- MCClient
    N = 2
    Byte <- MCByte
    NL = nl
    Text <- MCText
    Seek <- MCSeek
    MaxLines = 3
    Window = 1
SYMMETRY Symmetry
SPECIFICATION Spec
INVARIANTS
    TypeOK
    ReplyIsASnapshot
    OwnLineInReply
    ThreadsAreJoined
    RepliesStartAtLastSeek
CHECK_DEADLOCK FALSE
