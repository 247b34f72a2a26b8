SPECIFICATION FairSpec
CONSTANTS
    good = good
    bad = bad
    j1 = j1
    j2 = j2
    m1 = m1
    NoCall = NoCall
    NoRule = NoRule
    NoRequest = NoRequest
    Expired = Expired
    Rules = {good, bad}
    Bad = {bad}
    Calls = {j1, j2}
    Members = {m1}
    Periods = {1, 2}
    Starts = {1, 2}
    Ends = {2, 9}
    JOB_GUARD = 2
    REACTIVATE_GUARD = 3
    MaxDay = 3
    MaxFaults = 1
    MaxEdits = 3
    RaceWithJob = FALSE
INVARIANTS
    NeverPostedTwice
    NoPeriodLost
    EndsOnItsDate
PROPERTY
    NoBackPosting
    GoodRulesCatchUp
CHECK_DEADLOCK FALSE
