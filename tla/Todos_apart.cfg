SPECIFICATION Spec
CONSTANTS
    Requests = {r1, r2}
    None = None
    Frequencies = {"weekly", "monthly"}
    MaxRows = 3
    MaxEdits = 2
    MaxRoots = 1
    MaxMonth = 1
INVARIANTS
    OneSuccessor
    ChainGoesOn
    NoDateTwice
    DayKept
SYMMETRY Symmetry
CHECK_DEADLOCK FALSE
