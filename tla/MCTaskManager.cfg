SPECIFICATION Spec
CONSTANTS
    First = init
    t1 = t1
    t2 = t2
    Task = {init, t1, t2}
    None = None
    BigStride = 12
    InitPriority = 3
    Asked = {1, 2, 4, 13}
    MaxPriority = 13
    FairPriority = 4
    Modulus = 20
SYMMETRY Interchangeable
INVARIANTS
    TypeOK
    BoundedLead
    BoundedBypass
