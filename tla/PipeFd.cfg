SPECIFICATION Spec
CONSTANTS
    Pids <- MCPids
    MaxFds = 4
    MaxPipes = 2
    Capacity = 2
    Bytes = {x, y}
    MaxOffset = 1
    Scenarios <- MCScenarios
INVARIANTS
    Fifo
    PipesCounted

    
CHECK_DEADLOCK FALSE
