SPECIFICATION Spec
CONSTANTS
    Paths <- MCPaths
    Writers <- MCOneWriter
    DataSectors = 5
    JournalSectors = 2
    MaxVersion = 3
    Scenarios <- MCScenarios
INVARIANTS
    
    OnlyWritten
    StoreRecoverable
PROPERTIES
    ImplementsDurableStore
