SPECIFICATION Spec
CONSTANTS
    Form <- MCForm
    Ids <- MCIds
    New = New
    None = None
    Blank = Blank
    Sign = Sign
    Malformed = Malformed
    TooBig = TooBig
    Amounts = {0, 1, 4}
    MaxTouches = 2
    MaxOpens = 1
    MaxFaults = 1
CHECK_DEADLOCK FALSE
INVARIANT  NoneTwice
PROPERTY UntouchedSaveChangesNothing ReopensAsSaved OtherMonthsKept SplitExact AchievedKept
