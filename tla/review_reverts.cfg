CONSTANTS
    Keys = {"k1", "k2"}
    Events = {"e1", "e2"}
    Shots = {"s1", "s2"}
    Outcome <- MCOutcome
    Levels = {1, 2}
    Workers = {"w1", "w2"}
    Builders = {"b1", "b2"}
    Scenes <- MCScenes
SPECIFICATION Spec
\* Once the bounded requests, builds and changes are over, nothing is left to do.
CHECK_DEADLOCK FALSE
PROPERTY OnlyNewerEntries
