SPECIFICATION Spec
CONSTANTS
    a = a
    b = b
    Name = {a, b}
    Empty = Empty
    Inodes = 3
    DataBits = 6
    DataBlocks = 5
    DirentsPerBlock = 2
    f = f
    g = g
    Fd = {f, g}
    v = v
    Value = {v}
    Zero = Zero
    MaxEntries = 3
    MaxBlocks = 2
SYMMETRY Interchangeable
INVARIANT NlinkExact
