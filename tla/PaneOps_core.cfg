CONSTANTS
    a = a
    b = b
    c = c
    None = None
    Op = {a, b, c}
    Urgent = {b}
    Probing = {c}
    Chain = 2
    MaxFaults = 1
    MaxDups = 1
SPECIFICATION FairSpec
INVARIANTS TypeOK
PROPERTIES OpsSettle KeepsJobContract
CHECK_DEADLOCK FALSE
