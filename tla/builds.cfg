CONSTANTS
    Tolerance = 3
    DayLength = 10
    Campaigns = {"A", "B"}
    Scenes <- MCScenes
SPECIFICATION GatedSpec
\* Once everything has arrived and is built, nothing is left to do.
CHECK_DEADLOCK FALSE
INVARIANTS
    RoutedOnce
    NothingDropped
    AttachedByIdentity
    ResultsAreCurrent
PROPERTIES
    AttachmentsStay
