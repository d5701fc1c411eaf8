CONSTANTS
    Threads = {t1, t2}
    Overlap = TRUE
    NULL = NULL
    BitmapLen = 2
    BootPages = {0, 1, 2, 3, 4, 10, 11, 12, 13, 14, 15}
    BootFrames = {0, 1, 2, 3, 4, 5, 10, 11, 12, 13, 14, 15}
    Cnts = {1, 2}
SPECIFICATION Spec
INVARIANT PteAbsent
