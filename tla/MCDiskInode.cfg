SPECIFICATION Spec
CONSTANTS
    i = i
    j = j
    Inode = {i, j}
    BLOCK_SZ = 2
    INODE_DIRECT_COUNT = 1
    INODE_INDIRECT1_COUNT = 2
    Words = 2
    Bits = 4
    BitmapBlocks = 2
    AreaStart = 1
    Sizes <- MCSizes
INVARIANTS
    StopsOnlyAtLimits
    HeldExactly
    BitmapInOrder
    EachByteItsPlace
PROPERTY ActsAsBlockList
