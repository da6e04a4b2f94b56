SPECIFICATION Spec
CONSTANTS
    Accounts = {a1, a2}
    Views = {v1, v2}
    Requests = {r1}
    AccountTtl = 2
    SummaryTtl = 1
    ViewMax = 1
INVARIANTS
    AtOnce
    GoneInTime
SYMMETRY Interchangeable
