SPECIFICATION FairSpec
CONSTANTS
    a1 = a1
    b1 = b1
    c1 = c1
    c2 = c2
    d1 = d1
    Account = {a1}
    Client = {c1}
    Owner <- Owners
    Task = {1, 2}
    Key = {1, 2, 3, 4}
    None = none
    Faults = {"lost", "crash"}
PROPERTY Heals
CHECK_DEADLOCK FALSE
