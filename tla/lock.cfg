SPECIFICATION LockSpec
SYMMETRY Alike
CONSTANTS
    p1 = p1
    p2 = p2
    p3 = p3
    h1 = h1
    h2 = h2
    Procs = {p1, p2, p3}
    Hosts = {h1, h2}
    Workers = {p1, p2}
    Nothing = none
    Empty = empty
    Rounds = 2
    MaxAttempts = 1
INVARIANTS
    AtMostOneHolder
PROPERTIES
    RefusedOnlyIfHeld
\* every process may have used up its acquisitions
CHECK_DEADLOCK FALSE
