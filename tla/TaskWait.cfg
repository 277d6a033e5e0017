SPECIFICATION FairSpec
CONSTANTS
    Pids <- MCPids
    APs <- MCOneAP
    Scenarios <- MCScenarios
INVARIANTS
    SleepersWoken
    StatusOnce
    
PROPERTIES
    ExitWakesParent
CHECK_DEADLOCK FALSE
