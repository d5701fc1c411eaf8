CONSTANTS
    Main = Main
    Idle = Idle
    Threads = {Main, Idle, A, P}
    Procs = {P}
    Locks = {l1, l2}
    NULL = NULL
    MaxRepeat = 2
    MCTicks = 1
    Priority <- MCPriority
SPECIFICATION Spec
INVARIANTS TypeOK OneList MutualExclusion NoLostWakeup IntrPreserved AddressSpace
PROPERTY ImplementsMutex
SYMMETRY LockSymmetry
