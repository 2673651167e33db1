SPECIFICATION FairSpec
CONSTANTS
    KeyCount = 2
    MaxValue = 2
    Reuse = FALSE
    InitialFiles <- RecoverableFiles
    MaxLaunches = 2
    MaxFailures = 1
INVARIANTS
    TypeOK
    UnloadLeavesFileWhole
    LoadAgreesWithFile
    FileBetweenComparedAndCurrent
PROPERTIES
    LaunchCompletes
    UnloadCompletes
    SavedEventually
CHECK_DEADLOCK FALSE
