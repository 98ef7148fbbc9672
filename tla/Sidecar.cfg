CONSTANTS
    MaxCalls = 3
    MaxFaults = 4
SPECIFICATION FairSpec
INVARIANTS TypeOK NoStrayProcess CapsOfRunningProcess AckedLearnSaved
PROPERTIES ImplementsService RequestReturns
CHECK_DEADLOCK FALSE
