SPECIFICATION Spec
CONSTANTS
    t1 = t1
    t2 = t2
    Task = {t1, t2}
    Initial = t1
    f1 = f1
    File = {f1}
    o1 = o1
    o2 = o2
    Object = {o1, o2}
    Stdin = Stdin
    Stdout = Stdout
    None = None
    x = x
    y = y
    Byte = {x, y}
    Zero = Zero
    Text <- MCText
    Payload <- MCPayload
    Closed = {1}
    PAGE_SIZE = 2
    BLOCK_SZ = 2
    StructSize = 2
    MaxLen = 3
    MaxSize = 4
    MaxFds = 4
SYMMETRY Interchangeable
INVARIANTS
    TypeOK
    ReadsInOrder
    WritesInOrder
    LengthsAgree
PROPERTY ActsAsOpenFiles
