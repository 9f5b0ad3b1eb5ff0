CONSTANTS
    p1 = p1
    p2 = p2
    t1 = t1
    t2 = t2
    t3 = t3
    x = x
    y = y
    nl = nl
    N = 2
    Block <- MCBlock
    Proc <- MCProc
    MaxLoads = 3
    MaxWrites = 5
    ExitStatus <- MCExitStatus
    LastFd = 3
    Thread <- MCThread
    Starter = Starter
    Nobody = Nobody
    Char <- MCChar
    MaxLength = 4
SPECIFICATION UnitSpec
INVARIANTS
    SystemTrueMeansSuccess
CHECK_DEADLOCK FALSE
