CONSTANTS
    BasicBlockSize = 2
    Junk = Junk
    CR = CR
    LF = LF
    None = None
    Files <- MCFiles
    Writes <- MCWrites
    MaxFile = 5
    MaxLength = 3
    Primed = FALSE
SPECIFICATION Spec
INVARIANT BufferIsAhead
