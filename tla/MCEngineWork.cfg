SPECIFICATION MCSpec
CONSTANTS
    Runner = {w1, w2}
    Limit = 2
    Full = 2
    Items = 1
    Hand = {w1, w2}
    Plots = 2
    CareLimit = 1
    Growth = 2
    Friends = 3
    StealQuota = 2
    WaterQuota = 3
    Rounds = 2
    Clerk = {w1, w2}
    Needed = 2
    MaxHave = 3
    Missing = missing
SYMMETRY Identical
INVARIANTS
    WorkTypeOK
    WithinLimit
    CountedOnce
    CareWithinLimit
    CountsWereDone
    NoVainPlanting
    QuotasNearlyKept
    NeverOversold
    NeverOverdrawn
PROPERTY NeverBack
CHECK_DEADLOCK FALSE
