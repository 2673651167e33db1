CONSTANTS
    Main = Main
    Render = Render
    Window = Window
    BufferCount = 2
    BufferCounts = {1, 2, 3}
    MaxPresents = 5
SPECIFICATION Spec
INVARIANT TypeOK
 
INVARIANT IdleUnlessBehind
PROPERTY UnloadEnds
CHECK_DEADLOCK FALSE
