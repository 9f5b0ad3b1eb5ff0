CONSTANTS
    p1 = p1
    p2 = p2
    a = a
    nl = nl
    Proc <- MCOneProc
    N = 3
    Byte <- MCByte
    NL = nl
    Chunk <- MCCommands
    Cmd = {0, 1, 2}
    CmdOffset = {0}
    Whence = {}
    Offset <- MCBack
    MaxEntry = 2
SPECIFICATION Spec
INVARIANTS
    SeekReachesTheCommand
