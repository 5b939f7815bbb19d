\* Three parties that join in turn, and no fault or one.
CONSTANTS
    N = 3
    Rounds <- MCRounds
    MaxFaults = 1
SPECIFICATION StaggeredSpec
INVARIANTS TypeOK OnlyOthersIgnored NothingMissed NobodyFails NoneWithoutAll
PROPERTIES ComputationsFinish
CHECK_DEADLOCK FALSE
