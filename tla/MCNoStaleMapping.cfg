SPECIFICATION Spec
CONSTANTS
    Space = {s1, s2}
    s1 = s1
    s2 = s2
    Frame <- Frames
    TrampolineFrame = TrampolineFrame
    Invalid = Invalid
    Fanout = 2
    ElfPages = {1}
    StackPages = 1
    Handouts <- OwnFrame
    Ranges <- AskedWildly
    Stored = {4}
    Value = {}
    MaxAreas = 4
    Zero = Zero
    Image = Image
    Stale = Stale
    WellBehaved = FALSE
SYMMETRY Interchangeable
INVARIANT NoStaleMapping
