SPECIFICATION Spec
CONSTANTS
    First = init
    t1 = t1
    Task = {init, t1}
    None = None
    BigStride = 12
    InitPriority = 3
    Asked = {1, 2, 4}
    MaxPriority = 4
    FairPriority = 4
    Modulus = 20
INVARIANT StrideSpread
