SPECIFICATION FairSpec
CONSTANTS
    Scenes <- MCScenes
    MaxLandings = 2
INVARIANTS
    CheckedWhenQuiet
    Converged
PROPERTIES
    NoNeedlessBuild
    AttemptFollows
    EventuallyBuilt
    ComesToRest
\* inputs may stop changing, and then the trigger only waits
CHECK_DEADLOCK FALSE
