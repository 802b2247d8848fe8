SPECIFICATION Spec
CONSTANTS
    b1 = b1
    b2 = b2
    b3 = b3
    b4 = b4
    Block = {b1, b2, b3, b4}
    Value = {v0, v1}
    v0 = v0
    v1 = v1
    Object = {o1, o2, o3, o4, o5}
    o1 = o1
    o2 = o2
    o3 = o3
    o4 = o4
    o5 = o5
    BLOCK_CACHE_SIZE = 3
    Nesting = 2
SYMMETRY Interchangeable
INVARIANTS
    TypeOK
    HandlesCurrent
    CleanIsDurable
    NoRunOut
PROPERTIES
    SyncMakesDurable
    ActsAsBlockStore
