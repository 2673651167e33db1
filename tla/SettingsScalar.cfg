SPECIFICATION FairSpec
CONSTANTS
    KeyCount = 2
    MaxValue = 1
    Reuse = FALSE
    InitialFiles <- ScalarFile
    MaxLaunches = 1
    MaxFailures = 0
PROPERTIES
    LaunchCompletes
CHECK_DEADLOCK FALSE
