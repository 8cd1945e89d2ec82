CONSTANTS
    a = a
    b = b
    c = c
    None = None
    Op = {a, b}
    Urgent = {b}
    Probing = {b}
    Chain = 2
    MaxFaults = 1
    MaxDups = 1
SPECIFICATION Spec
INVARIANTS NotBothAtOnce
CHECK_DEADLOCK FALSE
