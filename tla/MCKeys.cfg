SPECIFICATION Spec
CONSTANTS
    a1 = a1
    b1 = b1
    c1 = c1
    c2 = c2
    d1 = d1
    Account = {a1, b1}
    Client = {c1, c2, d1}
    Owner <- Owners
    Task = {t1, t2}
    Key = {k1, k2, k3, k4}
    None = none
    Faults = {"lost", "crash"}
SYMMETRY Alike
INVARIANTS
    TypeOK
    OnlyRegistered
    Agreement
CHECK_DEADLOCK FALSE
