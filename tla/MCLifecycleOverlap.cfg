SPECIFICATION Spec
CONSTANTS
    Account = {a1}
    Engine = {e1, e2}
    Stopper = {s1}
    None = none
    BootAttempts = 3
    Faults = {"overlap"}
INVARIANT OneRunningEngine
CHECK_DEADLOCK FALSE
