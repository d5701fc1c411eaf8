CONSTANTS
    NPages = 3
    MaxCnt = 3
    PageSize = 64
    Header = 12
    MinBlock = 16
    NDesc = 2
    Sizes = {1, 17, 33, 64, 65, 129}
    NULL = NULL
SPECIFICATION Spec
INVARIANTS NoDangling Partition AllReturned Disjoint
