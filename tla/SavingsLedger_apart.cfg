SPECIFICATION Spec
CONSTANTS
    p1 = p1
    p2 = p2
    a1 = a1
    a2 = a2
    s1 = s1
    s2 = s2
    NoProduct = NoProduct
    NoAccount = NoAccount
    Unused = Unused
    Deleted = Deleted
    Sessions = {s1, s2}
    Products = {p1, p2}
    Accounts = {a1}
    InitialLink <- OneLinked
    Amounts = {1, 2}
    TxIds = {1, 2}
    MaxRows = 3
    MaxRelinks = 1
    MaxForms = 1
    MayOverlap = FALSE
SYMMETRY SessionSymmetry
INVARIANTS
    BalanceAgrees
    OutboxAgrees
CHECK_DEADLOCK FALSE
