SPECIFICATION MCSpec
CONSTANTS
    e1 = e1
    e2 = e2
    Actors = {a1, a2}
    None = None
    Categories = {c1}
    Months = {1, 2}
    StartMonth = 1
    Events = {e1, e2}
    Starts = {2, 4}
    Lead = 0
    MaxMissed = 1
    MaxTime = 4
    MaxSaves = 2
    MaxChanges = 2
    MaxFaults = 1
INVARIANTS
    AlertOnce
    ReminderOnce
    NoFalseReminder
    RemindedInTime
PROPERTY
    AlertReaches
