SPECIFICATION Spec
CONSTANTS
    Pids <- MCPids
    Frames <- MCFrames
    MmapPages = {a, b}
    Heap = heap
    Values <- MCValues
    Scenarios <- MCForkThenWrite
INVARIANT
    NoWrongKill
CHECK_DEADLOCK FALSE
