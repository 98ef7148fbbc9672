CONSTANTS
    Keys <- MCKeys
    Touched <- MCTouched
    Group <- MCGroup
    Ptt <- MCPtt
    Chords <- MCChords
    StyleCount = 2
    MaxQueue = 1
    Chains <- MCChains
    CtrlKey = "c"
    ShiftKey = "s"
    Lag = 1
    Settle = 2
    MaxPastes = 2
    MaxStrokes = 6
SPECIFICATION Spec
INVARIANTS TypeOK NoStuckKey LatchFollowsKey HoldMasksWin NeverStalePaste ClipboardGivenBack
PROPERTY FiresOnce HoldNeedsKeys
CHECK_DEADLOCK FALSE
