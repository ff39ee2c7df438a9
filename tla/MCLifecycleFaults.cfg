SPECIFICATION Spec
CONSTANTS
    Account = {a1}
    Engine = {e1, e2}
    Stopper = {s1, s2}
    None = none
    BootAttempts = 2
    Faults = {"overlap", "save", "raise", "crash"}
SYMMETRY Identical
INVARIANTS
    TypeOK
    RegisteredIsRunning
    TrippedIsStopping
PROPERTY StoppedForGood
CHECK_DEADLOCK FALSE
