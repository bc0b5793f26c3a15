SPECIFICATION FairSpec
CONSTANTS
    e1 = e1
    e2 = e2
    c1 = c1
    c2 = c2
    noName = noName
    Records <- MCRecords
    Junk = junk
    Garbled = garbled
    Corrupt = corrupt
    Campaigns = {c1, c2}
    Configured = c1
    Unassigned = unassigned
    Scenes <- MCScenes
    BatchSize = 2
    MaxFaults = 2
    MaxLog = 3
INVARIANTS
    AckedIsSpooled
    OneLinePerEvent
    DurableUnlessRestarted
    LossLeavesATrace
PROPERTIES
    KeepsPromise
    EventuallySpooled
\* producers may stop publishing, and then the loop only polls
CHECK_DEADLOCK FALSE
