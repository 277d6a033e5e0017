SPECIFICATION MemSpec
CONSTANTS
    MaxOrder <- MCMaxOrder
    BlockFrames <- MCBlockFrames
    RAM <- MCRAM
    MmapStart = 2
    MmapEnd = 5
    ArTop = 6
    ArSizes = {1, 2}
    ArHints = {4}
    ArProts = {"none", "rw"}
    ArOffsets = {0, 1}
    ArWorkloads <- MCArWorkloads
    Parts = {"frames", "areas"}
INVARIANTS
    FramesAccounted
    Unfragmented
    AreasSound
