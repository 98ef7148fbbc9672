\* Every interleaving of three holds; a slip larger than the look-back included.
CONSTANTS
    Preroll = 2
    Chunks <- MCChunks
    MaxTotal = 6
    MaxHolds = 3
    MaxSlip = 3
SPECIFICATION FairSpec
INVARIANTS TypeOK PendingBalanced StableMapping LossBounded DeliveredExact SpeechKept
PROPERTIES Implements RingShrinks
