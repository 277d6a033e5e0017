SPECIFICATION Spec
CONSTANTS
    Pids <- MCPids
    Frames <- MCFrames
    MmapPages = {a, b}
    Heap = heap
    Values <- MCValues
    Scenarios <- MCScenarios
INVARIANTS
    
    FramesShared
    ReadsExpectedOneCpu
CHECK_DEADLOCK FALSE
