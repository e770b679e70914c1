\* Two tasks, a session and the one a link may add.
SPECIFICATION Spec
CONSTANTS
    Sessions = {s1, s2}
    Grants = {g1, g2}
    Callers = {c1, c2}
    Locks = {l1, l2, l3, l4}
    NoLock = NoLock
    MaxGen = 1
    MaxTasks = 3
    MaxFaults = 1
INVARIANTS TokenKept AccountTokens SingleFlight
SYMMETRY Symmetry
CHECK_DEADLOCK FALSE
