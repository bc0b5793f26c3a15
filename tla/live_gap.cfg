SPECIFICATION Spec
CONSTANTS
    c1 = c1
    c2 = c2
    Clients = {c1, c2}
    Scenes <- MCScenes
INVARIANTS
    CursorCovers
\* once nobody writes, everybody sleeps
CHECK_DEADLOCK FALSE
