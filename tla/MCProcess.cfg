SPECIFICATION Spec
CONSTANTS
    Task = {init, t1, t2, t3}
    INITPROC = init
    None = None
INVARIANTS
    TypeOK
    NoBookkeepingPanic
    StatusMatchesPlace
    OwnedByParent
    RootedAtInitproc
    PidsPartition
    StackUnderfoot
PROPERTIES
    FreedByParent
    ReapedInTurn
