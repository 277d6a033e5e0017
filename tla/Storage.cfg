SPECIFICATION Spec
CONSTANTS
    t1 = t1
    t2 = t2
    Tasks = {t1, t2}
    Pages = {0, 1, 2}
    MaxVersion = 2
    FsBlocks = {1, 2}
    MaxLen = 9
    MaxSeq = 3
    Kinds = {"pages", "jbd2"}
    PageScenarios <- MCPageScenarios

    
    
PROPERTIES
    CachedFileKept
    
    StorageProgress
CHECK_DEADLOCK FALSE
