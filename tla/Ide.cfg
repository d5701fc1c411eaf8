CONSTANTS
    Threads = {main, t1, t2}
    Main = main
    Disks = 2
    Traffics <- Sound
    NULL = NULL
SPECIFICATION FairSpec
INVARIANTS OwnData NoDiskError OneCredit
PROPERTY CallReturns
