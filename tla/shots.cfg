SPECIFICATION Spec
CONSTANTS
    Scenes <- MCScenes
    READ_SLICE = 2
    PACKS = {"camera", "spectrometer", "numbered"}
    Spectrometer = "spectrometer"
    Camera = "camera"
    Numbered = "numbered"
    None = none
INVARIANTS
    PlanIsOrderFree
    FramesInPlace
    DetectorsAccounted
    RowsAccounted
    DefinitionStandsAlone
PROPERTIES
    MappingOnlyAdds
\* a container is written once; then nothing is left to do
CHECK_DEADLOCK FALSE
