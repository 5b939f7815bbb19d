\* The window between looking a room up and subscribing to it.
CONSTANTS
    Requests = {q1, q2}
    RoomIds = {x1}
    LastEventIds = {0}
    Width = 4
    NoRoom = NoRoom
    NoHeader = NoHeader
    Left = Left
SPECIFICATION Spec
INVARIANT WatcherInCurrentRoom
CHECK_DEADLOCK FALSE
