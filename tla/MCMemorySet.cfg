SPECIFICATION Spec
CONSTANTS
    Space = {s1, s2}
    s1 = s1
    s2 = s2
    Frame <- Frames
    TrampolineFrame = TrampolineFrame
    Invalid = Invalid
    Fanout = 2
    ElfPages = {1}
    StackPages = 1
    Handouts <- OwnFrame
    Ranges <- Asked
    Stored = {4}
    d = d
    Value = {d}
    MaxAreas = 4
    Zero = Zero
    Image = Image
    Stale = Stale
    WellBehaved = TRUE
SYMMETRY Interchangeable
INVARIANTS
    NoStaleMapping
    TrapContextPlaced
PROPERTY PrivateMemory
