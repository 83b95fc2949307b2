SPECIFICATION Spec
CONSTANTS
    w1 = w1
    w2 = w2
    w3 = w3
    w4 = w4
    p1 = p1
    p2 = p2
    p3 = p3
    p4 = p4
    h1 = h1
    h2 = h2
    Worker = {w1, w2}
    Proc = {p1, p2}
    ProcOf <- OwnProcess
    Hash = {h1, h2}
    File = {f1, f2}
    None = None
    Reports = TRUE
    Plans <- OrphanPlans
PROPERTIES ServedWholeInFlux
CHECK_DEADLOCK FALSE
