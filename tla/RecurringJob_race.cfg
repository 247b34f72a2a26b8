SPECIFICATION Spec
CONSTANTS
    good = good
    bad = bad
    j1 = j1
    j2 = j2
    m1 = m1
    NoCall = NoCall
    NoRule = NoRule
    NoRequest = NoRequest
    Expired = Expired
    Rules = {good}
    Bad = {}
    Calls = {j1, j2}
    Members = {m1}
    Periods = {1}
    Starts = {1}
    Ends = {9}
    JOB_GUARD = 2
    REACTIVATE_GUARD = 4
    MaxDay = 3
    MaxFaults = 0
    MaxEdits = 3
    RaceWithJob = TRUE
SYMMETRY CallSymmetry
INVARIANT
    NeverPostedTwice
CHECK_DEADLOCK FALSE
