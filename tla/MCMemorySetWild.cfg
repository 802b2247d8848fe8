SPECIFICATION Spec
CONSTANTS
    Space = {s1, s2}
    s1 = s1
    s2 = s2
    Frame <- FewerFrames
    TrampolineFrame = TrampolineFrame
    Invalid = Invalid
    Fanout = 2
    ElfPages = {1}
    StackPages = 1
    Handouts <- SharedFrame
    Ranges <- AskedWildly
    Stored = {3}
    d = d
    Value = {d}
    MaxAreas = 4
    Zero = Zero
    Image = Image
    Stale = Stale
    WellBehaved = FALSE
SYMMETRY Interchangeable
INVARIANTS
    TypeOK
    FramesOwnedOnce
    AreasBacked
