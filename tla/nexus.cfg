CONSTANTS
    Tolerance = 3
    DayLength = 10
    MaxValues = 2
    Scenes <- MCScenes
SPECIFICATION Spec
\* Once everything has arrived and is built, nothing is left to do.
CHECK_DEADLOCK FALSE
INVARIANTS
    RowsAgree
    PreservedKept
    NothingLingers
    ClaimedByRecord
