CONSTANTS
    Readers = {r1}
    Writers = {}
    Chars <- KeyChars
    BufSize = 3
    NULL = NULL
    Keys = {2, 28, 42, 57373, 57372, 59}
    MaxPresses = 3
SPECIFICATION KSpec
INVARIANT TypedInOrder
PROPERTY ImplementsFifo
CHECK_DEADLOCK FALSE
