SPECIFICATION FairSpec
CONSTANTS
    a1 = a1
    a2 = a2
    outsider = outsider
    Account = {a1, a2}
    Stranger = outsider
    Trade <- Foreign
    Row = {r1}
    Syncer = {}
    Cycle = cycle
    None = none
    Faults = {"save", "crash"}
PROPERTY OutcomeArrives
CHECK_DEADLOCK FALSE
