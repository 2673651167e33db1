CONSTANTS
    Addresses = {1, 2}
    Bytes = {116, 144, 235}
    Versions = {3770, 3788}
    Replacement <- MCReplacement
    ScriptPatches <- MCScriptPatches
    CodeSizes = {6}
    PageSize = 4
    Wild = wild
    None = none
SPECIFICATION PatchingSpec
INVARIANTS
    MissedIfDangling
    MemoryRestored
    CopyIsPatched
CHECK_DEADLOCK FALSE
