SPECIFICATION FairSpec
CONSTANTS
    KeyCount = 2
    MaxValue = 2
    Reuse = TRUE
    InitialFiles <- WholeFile
    MaxLaunches = 1
    MaxFailures = 0
PROPERTIES
    SavedEventually
CHECK_DEADLOCK FALSE
