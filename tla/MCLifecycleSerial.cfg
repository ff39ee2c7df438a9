SPECIFICATION Spec
CONSTANTS
    Account = {a1, a2}
    Engine = {e1, e2}
    Stopper = {s1, s2}
    None = none
    BootAttempts = 1
    Faults = {"crash"}
SYMMETRY Identical
INVARIANTS
    SingleEngine
    RunningIsRegistered
    RunningIsFlagged
PROPERTY ImplementsSwitch
CHECK_DEADLOCK FALSE
