CONSTANTS
    p1 = p1
    p2 = p2
    a = a
    nl = nl
    Proc <- MCProc
    N = 3
    Byte <- MCByte
    NL = nl
    Chunk <- MCChunk
    Cmd = {1}
    CmdOffset = {1}
    Whence = {"END"}
    Offset <- MCBack
    MaxEntry = 2
    Entry <- MCEntry
    MaxAdds = 7
SYMMETRY Symmetry
SPECIFICATION PartSpec
INVARIANTS
    RingTypeOK
    Conservation
    KeepsTheLastN
    FindAgreesWithConcatenation
    TypeOK
    OneInside
    StoredAreCommands
    LengthIsWhatCanBeRead
    SeekIsExactWhenUndisturbed
PROPERTIES
    ReadsUpToTheNewline
    ImplementsCommandLog
