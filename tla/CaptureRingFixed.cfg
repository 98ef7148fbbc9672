CONSTANTS
    Preroll = 2
    Chunks <- MCChunks
    MaxTotal = 6
    MaxHolds = 2
    MaxSlip = 2
SPECIFICATION Spec
INVARIANT FixedSizeRing
