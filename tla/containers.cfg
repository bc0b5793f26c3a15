SPECIFICATION Spec
SYMMETRY Alike
CONSTANTS
    Shots = {s1, s2}
    Workers = {w1, w2}
    Versions = 1
    SizesTell = TRUE
    Budgets <- MCBudgets
    MaxTouches = 1
    None = none
INVARIANTS
    RequestsServed
    PassBringsUpToDate
    RestIsConsistent
PROPERTIES
    LateRenameIsEarly
\* when nothing arrives any more, nothing is left to do
CHECK_DEADLOCK FALSE
