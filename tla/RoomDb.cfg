\* Three concurrent requests of any kind for one room: a watcher, a broadcast and the
\* request that replaces the room can all be in flight, and are all answered.
CONSTANTS
    Requests = {q1, q2, q3}
    RoomIds = {x1}
    LastEventIds = {0, 5}
    Width = 6
    NoRoom = NoRoom
    NoHeader = NoHeader
    Left = Left
SPECIFICATION FairSpec
INVARIANTS TypeOK SubscribersCounted DeliveredIsHistory NoLostWakeup IndicesUnique
PROPERTIES WatchedRoomStays ImplementsFeed RequestsAnswered EventuallyDelivered
CHECK_DEADLOCK FALSE
