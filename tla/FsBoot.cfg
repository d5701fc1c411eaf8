CONSTANTS
    MAX_FILES_PER_PART = 8
    SECTOR_SIZE = 8
    INODE_SIZE = 5
    DIR_ENTRY_SIZE = 2
    PRIM_PARTS = 4
    LOGIC_PARTS = 2
    MaxCuts = 2
    MaxEntries = 3
    NoMount = NoMount
    Geometries <- Disks
SPECIFICATION FairBootSpec
INVARIANTS
    ScanExact
    FormattedWhole
    MountSound
PROPERTIES
    KeepsFormatted
    ComesUp
