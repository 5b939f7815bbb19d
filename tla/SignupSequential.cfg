\* Four signups that do not meet between the two locks, in two rooms, with
\* different ideas of the number of parties and with answers lost.
CONSTANTS
    Callers = {c1, c2, c3, c4}
    Rooms = {x1, x2}
    Counts = {2, 3}
    MaxAttempts = 2
    NoEntry = NoEntry
    Refused = Refused
SPECIFICATION SequentialSpec
SYMMETRY CallerSymmetry
INVARIANTS TypeOK DistinctParties NumbersAccounted
CHECK_DEADLOCK FALSE
