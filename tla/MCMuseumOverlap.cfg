SPECIFICATION Spec
CONSTANTS
    a1 = a1
    a2 = a2
    outsider = outsider
    Account = {a1, a2}
    Stranger = outsider
    Trade <- Single
    Row = {r1, r2}
    Syncer = {s1}
    Cycle = cycle
    None = none
    Faults = {"overlap"}
SYMMETRY Identical
INVARIANT OneRowPerTrade
CHECK_DEADLOCK FALSE
