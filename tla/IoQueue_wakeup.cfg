CONSTANTS
    Readers = {r1, r2}
    Writers = {w1, w2}
    Chars = {a, b}
    BufSize = 4
    NULL = NULL
SPECIFICATION Spec
INVARIANT UnlocksBlocked
CHECK_DEADLOCK FALSE
