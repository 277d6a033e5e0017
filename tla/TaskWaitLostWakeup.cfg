SPECIFICATION Spec
CONSTANTS
    Pids <- MCPids
    APs <- MCOneAP
    Scenarios <- MCWaitOnTwoCpus
INVARIANT
    NoLostWakeup
CHECK_DEADLOCK FALSE
