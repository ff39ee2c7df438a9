SPECIFICATION FairSpec
CONSTANTS
    Account = {a1}
    Engine = {e1, e2}
    Stopper = {s1}
    None = none
    BootAttempts = 2
    Faults = {"raise"}
PROPERTIES
    OvertakenStartEnds
    TrippedStops
    BootSettles
CHECK_DEADLOCK FALSE
