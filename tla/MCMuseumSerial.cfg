SPECIFICATION Spec
CONSTANTS
    a1 = a1
    a2 = a2
    outsider = outsider
    Account = {a1, a2}
    Stranger = outsider
    Trade <- Opposite
    Row = {r1, r2}
    Syncer = {}
    Cycle = cycle
    None = none
    Faults = {"save", "lost", "midnight", "crash"}
SYMMETRY Identical
INVARIANTS
    OneRowPerTrade
    OneTradePerDay
PROPERTY AcceptedForGood
CHECK_DEADLOCK FALSE
