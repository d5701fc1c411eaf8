CONSTANTS
    Threads = {main, t1, t2}
    Main = main
    Disks = 2
    Traffics <- MultiWrite
    NULL = NULL
SPECIFICATION Spec
INVARIANT DiskDone
