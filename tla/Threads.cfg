SPECIFICATION FairSpec
CONSTANTS
    Tasks <- MCTasks
    Scenarios <- MCScenarios
    Statuses <- MCStatuses
    Sigs <- MCSigs
INVARIANTS
    WaitersServed
    
    StateMatchesQueue
PROPERTIES
    JoinReturns
CHECK_DEADLOCK FALSE
