SPECIFICATION Spec
CONSTANTS
    ann = ann
    bob = bob
    cho = cho
    i1 = i1
    i2 = i2
    i3 = i3
    s1 = s1
    s2 = s2
    Nobody = Nobody
    NoInvite = NoInvite
    People = {ann, bob, cho}
    Invites = {i1, i2, i3}
    Requests = {s1, s2}
    MAX_HOUSEHOLD_USERS = 2
    MayOverlap = FALSE
SYMMETRY Symmetry
INVARIANTS
    CapacityHolds
    SomeoneStays
    AcceptedHasUser
CHECK_DEADLOCK FALSE
