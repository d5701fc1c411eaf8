CONSTANTS
    Main = Main
    Idle = Idle
    Threads = {Main, Idle, A}
    Procs = {A}
    Locks = {l1}
    NULL = NULL
    MaxRepeat = 1
    MCTicks = 1
    Priority <- MCPriority
SPECIFICATION FairSpec
PROPERTIES ReadyRuns WaiterWoken
