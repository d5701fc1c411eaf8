CONSTANTS
    Threads = {t1, t2}
    Overlap = FALSE
    NULL = NULL
    BitmapLen = 2
    BootPages = {0, 1, 2, 3, 4, 5, 9, 10, 11, 12, 13}
    BootFrames = {0, 1, 2, 3, 4, 5, 6, 9, 10, 11, 12, 13}
    Cnts = {1, 3}
    Procs = {p1}
    UserLen = 3
    UserPoolLen = 1
    PagesPerTable = 5
    FirstEntry = 1
    KernelRest = 3
    MaxBlocks = 3
    Callers = {{"user"}}
SPECIFICATION AllSpec
INVARIANT UserAbsent
