CONSTANTS
    script = script
    render = render
    long = long
    short = short
    fatal = fatal
    thrown = thrown
    breakpoint = breakpoint
    Threads = {script, render}
    ScriptThread = script
    Faults = {long, short, fatal, thrown, breakpoint}
    Stack <- MCStack
    Instruction <- MCInstruction
    StackReadable = {short}
    PassedOn = {breakpoint}
    NoStdException = {thrown}
    Frames = {1, 2, 3, 4, 5}
    FrameLimit = 3
    None = none
SPECIFICATION FairSpec
INVARIANT HandledIsLogged
PROPERTY HandlerEnds
CHECK_DEADLOCK FALSE
