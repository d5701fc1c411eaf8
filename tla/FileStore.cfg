CONSTANTS
    MAX_FILES_PER_PART = 5
    SECTOR_SIZE = 5
    INODE_SIZE = 3
    DIR_ENTRY_SIZE = 2
    DIR_SIZE = 3
    Inodes = {0, 1, 2, 4}
    Handles = {h1, h2}
    Addrs = {1, 2}
    FreeBlocks = {1, 2}
    PartLbaBase = 10
    MaxOpen = 2
    MaxCrashes = 1
    NULL = NULL
SPECIFICATION Spec
INVARIANTS
    DiskCurrent
    CacheCoherent
    HandlesLive
    EntryKept
    FirstEntryOnly
SYMMETRY Symmetry
CHECK_DEADLOCK FALSE
