\* Two parties that may join in any order, and no fault.
CONSTANTS
    N = 2
    Rounds <- MCRounds
    MaxFaults = 0
SPECIFICATION Spec
INVARIANT OnlyOthersIgnored
CHECK_DEADLOCK FALSE
