\* Two signups that meet between the two locks.
CONSTANTS
    Callers = {c1, c2}
    Rooms = {x1}
    Counts = {2}
    MaxAttempts = 1
    NoEntry = NoEntry
    Refused = Refused
SPECIFICATION Spec
INVARIANT DistinctParties
CHECK_DEADLOCK FALSE
