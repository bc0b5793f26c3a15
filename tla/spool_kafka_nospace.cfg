SPECIFICATION Spec
CONSTANTS
    e1 = e1
    e2 = e2
    c1 = c1
    c2 = c2
    noName = noName
    Records <- MCRecords
    Junk = junk
    Garbled = garbled
    Corrupt = corrupt
    Campaigns = {c1, c2}
    Configured = c1
    Unassigned = unassigned
    Scenes <- MCFullDisk
    BatchSize = 2
    MaxFaults = 1
    MaxLog = 2
INVARIANTS
    CommittedIsSpooled
\* producers may stop publishing, and then the loop only polls
CHECK_DEADLOCK FALSE
