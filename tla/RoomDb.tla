------------------------------- MODULE RoomDb -------------------------------
(***************************************************************************)
(* The room message bus of the manager ("consensu") server: the shared     *)
(* state of src/src/state/db.rs and the three HTTP handlers of             *)
(* src/src/api/ecdsa/gg_2020/management.rs that use it.                    *)
(*                                                                         *)
(* Every HTTP request is served by a task of its own on a multi-threaded   *)
(* runtime, so a handler is a process whose steps are the points at which  *)
(* it touches shared state.  A room object (an Arc<Room>) is named by the  *)
(* request whose handler allocated it: a handler allocates at most one.    *)
(* The body of a broadcast is named by the broadcasting request.           *)
(***************************************************************************)
EXTENDS Integers, Sequences, FiniteSets

CONSTANTS
    Requests,      \* the HTTP requests of a behaviour, one task each
    RoomIds,       \* the <room_id> segments of the request paths
    LastEventIds,  \* values of the Last-Event-ID header that parse as u16
    Width,         \* number of values of the u16 counters: 2^16 in the code
    NoRoom,        \* a vacant map entry, or a task that holds no Arc<Room> yet
    NoHeader,      \* a request without a Last-Event-ID header
    Left           \* where a stream that has ended is, for RoomFeed

ASSUME RequestsAssumption  == IsFiniteSet(Requests) /\ NoRoom \notin Requests
                                /\ Left \notin Requests \cup {NoRoom}
                                /\ NoHeader \notin LastEventIds
ASSUME WidthAssumption     == Width \in Nat /\ Width > 1
ASSUME LastEventAssumption == LastEventIds \subseteq 0 .. Width - 1
(* Fewer than 2^16 requests in a behaviour: `subscribers` cannot wrap.     *)
ASSUME NoWrapAssumption    == Cardinality(Requests) < Width

VARIABLES
    req,          \* what each request asks for; chosen once, by the client
    pc,           \* where the handler of each request stands
    room,         \* the Arc<Room> each handler holds
    rooms,        \* Db.rooms, the map from room ids to room objects
    messages,     \* Room.messages, per room object
    subscribers,  \* Room.subscribers
    next_idx,     \* Room.next_idx
    reading,      \* tasks that hold a read guard of Room.messages
    waiters,      \* Notified futures of Room.message_appeared not yet notified
    next_event,   \* Subscription.next_event
    delivered,    \* the events each stream has yielded, oldest first
    issued        \* the index an issue_idx request was answered; 0 before that

vars == <<req, pc, room, rooms, messages, subscribers, next_idx, reading,
          waiters, next_event, delivered, issued>>

RequestType ==
    [kind: {"subscribe"}, room_id: RoomIds, last: LastEventIds \cup {NoHeader}]
      \cup [kind: {"issue_idx", "broadcast"}, room_id: RoomIds]

U16 == 0 .. Width - 1

(* Faulty: the addition of a wider type. *)
WideSucc(i) == i + 1

(* `+ 1` and `- 1` on a u16, as the release build computes them. *)
Succ(i) == IF i = Width - 1 THEN 0 ELSE i + 1
Pred(i) == IF i = 0 THEN Width - 1 ELSE i - 1

IsSubscribe(r) == req[r].kind = "subscribe"
IsIssue(r)     == req[r].kind = "issue_idx"
IsBroadcast(r) == req[r].kind = "broadcast"

(* Room::is_abandoned *)
IsAbandoned(o) == subscribers[o] = 0

(* The write guard of Db.rooms is held across a step only by a handler     *)
(* that found its room abandoned and has yet to replace it.                *)
RoomsLocked == \E w \in Requests : pc[w] = "replace"

(* The first event a subscription asks for: Room::subscribe. *)
FirstEvent(r) == IF req[r].last = NoHeader THEN 0 ELSE Succ(req[r].last)

Init ==
    /\ req \in [Requests -> RequestType]
    /\ pc = [r \in Requests |-> "idle"]
    /\ room = [r \in Requests |-> NoRoom]
    /\ rooms = [x \in RoomIds |-> NoRoom]
    /\ messages = [o \in Requests |-> <<>>]      \* the fields of Room::empty
    /\ subscribers = [o \in Requests |-> 0]
    /\ next_idx = [o \in Requests |-> 1]
    /\ reading = [o \in Requests |-> {}]
    /\ waiters = [o \in Requests |-> {}]
    /\ next_event = [r \in Requests |-> 0]
    /\ delivered = [r \in Requests |-> <<>>]
    /\ issued = [r \in Requests |-> 0]

(* The server routes a request to its handler. *)
Arrive(r) ==
    /\ pc[r] = "idle"
    /\ pc' = [pc EXCEPT ![r] = "lookup"]
    /\ UNCHANGED <<req, room, rooms, messages, subscribers, next_idx, reading,
                   waiters, next_event, delivered, issued>>

-----------------------------------------------------------------------------
(* Db::get_room_or_create_empty *)

(* Under the read lock: a room somebody watches is returned as it is. *)
GetWatched(r) ==
    LET o == rooms[req[r].room_id] IN
    /\ pc[r] = "lookup"
    /\ ~RoomsLocked
    /\ IF o # NoRoom /\ ~IsAbandoned(o)
       THEN /\ room' = [room EXCEPT ![r] = o]
            /\ pc' = [pc EXCEPT ![r] = "have"]
       ELSE /\ pc' = [pc EXCEPT ![r] = "create"]
            /\ UNCHANGED room
    /\ UNCHANGED <<req, rooms, messages, subscribers, next_idx, reading,
                   waiters, next_event, delivered, issued>>

(* The write lock, with the entry vacant: a new room is inserted. *)
InsertRoom(r) ==
    /\ pc[r] = "create"
    /\ ~RoomsLocked
    /\ rooms[req[r].room_id] = NoRoom
    /\ rooms' = [rooms EXCEPT ![req[r].room_id] = r]
    /\ room' = [room EXCEPT ![r] = r]
    /\ pc' = [pc EXCEPT ![r] = "have"]
    /\ UNCHANGED <<req, messages, subscribers, next_idx, reading,
                   waiters, next_event, delivered, issued>>

(* Faulty: the write lock is trusted without reading `is_abandoned` again. *)
ReplaceUnchecked(r) ==
    /\ pc[r] = "create"
    /\ ~RoomsLocked
    /\ rooms[req[r].room_id] # NoRoom
    /\ pc' = [pc EXCEPT ![r] = "replace"]
    /\ UNCHANGED <<req, room, rooms, messages, subscribers, next_idx, reading,
                   waiters, next_event, delivered, issued>>

(* The write lock, with the entry occupied: `is_abandoned` is read again.  *)
(* The counter is no part of the map, so a task that already holds the     *)
(* room may subscribe to it between this read and the replacement.         *)
CheckAgain(r) ==
    LET o == rooms[req[r].room_id] IN
    /\ pc[r] = "create"
    /\ ~RoomsLocked
    /\ o # NoRoom
    /\ IF IsAbandoned(o)
       THEN /\ pc' = [pc EXCEPT ![r] = "replace"]
            /\ UNCHANGED room
       ELSE /\ pc' = [pc EXCEPT ![r] = "have"]
            /\ room' = [room EXCEPT ![r] = o]
    /\ UNCHANGED <<req, rooms, messages, subscribers, next_idx, reading,
                   waiters, next_event, delivered, issued>>

ReplaceRoom(r) ==
    /\ pc[r] = "replace"
    /\ rooms' = [rooms EXCEPT ![req[r].room_id] = r]
    /\ room' = [room EXCEPT ![r] = r]
    /\ pc' = [pc EXCEPT ![r] = "have"]
    /\ UNCHANGED <<req, messages, subscribers, next_idx, reading,
                   waiters, next_event, delivered, issued>>

-----------------------------------------------------------------------------
(* The rest of the three handlers. *)

Subscribe(r) ==
    /\ pc[r] = "have" /\ IsSubscribe(r)
    /\ subscribers' = [subscribers EXCEPT ![room[r]] = Succ(@)]
    /\ next_event' = [next_event EXCEPT ![r] = FirstEvent(r)]
    /\ pc' = [pc EXCEPT ![r] = "poll"]
    /\ UNCHANGED <<req, room, rooms, messages, next_idx, reading, waiters,
                   delivered, issued>>

(* Faulty: the index is loaded and not advanced. *)
IssueLoaded(r) ==
    /\ pc[r] = "have" /\ IsIssue(r)
    /\ issued' = [issued EXCEPT ![r] = next_idx[room[r]]]
    /\ pc' = [pc EXCEPT ![r] = "done"]
    /\ UNCHANGED <<req, room, rooms, messages, subscribers, next_idx, reading,
                   waiters, next_event, delivered>>

IssueIdx(r) ==
    /\ pc[r] = "have" /\ IsIssue(r)
    /\ issued' = [issued EXCEPT ![r] = next_idx[room[r]]]
    /\ next_idx' = [next_idx EXCEPT ![room[r]] = Succ(@)]
    /\ pc' = [pc EXCEPT ![r] = "done"]
    /\ UNCHANGED <<req, room, rooms, messages, subscribers, reading, waiters,
                   next_event, delivered>>

(* Faulty: the message is pushed and nobody is told. *)
PublishSilently(r) ==
    /\ pc[r] = "have" /\ IsBroadcast(r)
    /\ reading[room[r]] = {}
    /\ messages' = [messages EXCEPT ![room[r]] = Append(@, r)]
    /\ pc' = [pc EXCEPT ![r] = "done"]
    /\ UNCHANGED <<req, room, rooms, subscribers, next_idx, reading, waiters,
                   next_event, delivered, issued>>

(* Room::publish pushes and notifies under the write guard, which it gets  *)
(* only when nobody holds a read guard.                                    *)
Publish(r) ==
    LET o == room[r] IN
    /\ pc[r] = "have" /\ IsBroadcast(r)
    /\ reading[o] = {}
    /\ messages' = [messages EXCEPT ![o] = Append(@, r)]
    /\ waiters' = [waiters EXCEPT ![o] = {}]
    /\ pc' = [pc EXCEPT ![r] = "done"]
    /\ UNCHANGED <<req, room, rooms, subscribers, next_idx, reading,
                   next_event, delivered, issued>>

-----------------------------------------------------------------------------
(* Subscription::next, called in a loop by the event stream. *)

HasNext(r) == next_event[r] < Len(messages[room[r]])

(* Faulty: the cursor is advanced before the entry is read, so the event   *)
(* carries the id of its successor.                                        *)
PollAhead(r) ==
    /\ pc[r] = "poll" /\ HasNext(r)
    /\ delivered' = [delivered EXCEPT ![r] =
                       Append(@, [id  |-> Succ(next_event[r]),
                                  msg |-> messages[room[r]][next_event[r] + 1]])]
    /\ next_event' = [next_event EXCEPT ![r] = Succ(@)]
    /\ UNCHANGED <<req, pc, room, rooms, messages, subscribers, next_idx,
                   reading, waiters, issued>>

(* Faulty: the cursor stays where it was, and the entry is read again.     *)
PollAgain(r) ==
    /\ pc[r] = "poll" /\ HasNext(r)
    /\ Len(delivered[r]) < Width
    /\ delivered' = [delivered EXCEPT ![r] =
                       Append(@, [id  |-> next_event[r],
                                  msg |-> messages[room[r]][next_event[r] + 1]])]
    /\ UNCHANGED <<req, pc, room, rooms, messages, subscribers, next_idx,
                   reading, waiters, next_event, issued>>

PollHit(r) ==
    /\ pc[r] = "poll" /\ HasNext(r)
    /\ delivered' = [delivered EXCEPT ![r] =
                       Append(@, [id  |-> next_event[r],
                                  msg |-> messages[room[r]][next_event[r] + 1]])]
    /\ next_event' = [next_event EXCEPT ![r] = Succ(@)]
    /\ UNCHANGED <<req, pc, room, rooms, messages, subscribers, next_idx,
                   reading, waiters, issued>>

(* Faulty: the read guard is released before the Notified is created. *)
PollMissUnguarded(r) ==
    /\ pc[r] = "poll" /\ ~HasNext(r)
    /\ pc' = [pc EXCEPT ![r] = "register"]
    /\ UNCHANGED <<req, room, rooms, messages, subscribers, next_idx, reading,
                   waiters, next_event, delivered, issued>>

(* Nothing new: the read guard is kept until the Notified exists. *)
PollMiss(r) ==
    /\ pc[r] = "poll" /\ ~HasNext(r)
    /\ reading' = [reading EXCEPT ![room[r]] = @ \cup {r}]
    /\ pc' = [pc EXCEPT ![r] = "register"]
    /\ UNCHANGED <<req, room, rooms, messages, subscribers, next_idx, waiters,
                   next_event, delivered, issued>>

(* Faulty: the read guard outlives the wait. *)
RegisterGuarded(r) ==
    /\ pc[r] = "register"
    /\ waiters' = [waiters EXCEPT ![room[r]] = @ \cup {r}]
    /\ pc' = [pc EXCEPT ![r] = "wait"]
    /\ UNCHANGED <<req, room, rooms, messages, subscribers, next_idx, reading,
                   next_event, delivered, issued>>

Register(r) ==
    /\ pc[r] = "register"
    /\ waiters' = [waiters EXCEPT ![room[r]] = @ \cup {r}]
    /\ reading' = [reading EXCEPT ![room[r]] = @ \ {r}]
    /\ pc' = [pc EXCEPT ![r] = "wait"]
    /\ UNCHANGED <<req, room, rooms, messages, subscribers, next_idx,
                   next_event, delivered, issued>>

Wake(r) ==
    /\ pc[r] = "wait" /\ r \notin waiters[room[r]]
    /\ pc' = [pc EXCEPT ![r] = "poll"]
    /\ UNCHANGED <<req, room, rooms, messages, subscribers, next_idx, reading,
                   waiters, next_event, delivered, issued>>

(* Faulty: the stream is forgotten without Subscription::drop. *)
LeakStream(r) ==
    /\ pc[r] \in {"poll", "wait"}
    /\ waiters' = [waiters EXCEPT ![room[r]] = @ \ {r}]
    /\ pc' = [pc EXCEPT ![r] = "done"]
    /\ UNCHANGED <<req, room, rooms, messages, subscribers, next_idx, reading,
                   next_event, delivered, issued>>

(* The stream ends: the client went away or the server shuts down.  The    *)
(* stream is dropped where it is suspended, in `yield` or in an await of   *)
(* Subscription::next; its Subscription and its Notified go with it.       *)
DropStream(r) ==
    /\ pc[r] \in {"poll", "wait"}
    /\ subscribers' = [subscribers EXCEPT ![room[r]] = Pred(@)]
    /\ waiters' = [waiters EXCEPT ![room[r]] = @ \ {r}]
    /\ pc' = [pc EXCEPT ![r] = "done"]
    /\ UNCHANGED <<req, room, rooms, messages, next_idx, reading, next_event,
                   delivered, issued>>

-----------------------------------------------------------------------------
GetRoom(r) ==
    \/ GetWatched(r)
    \/ InsertRoom(r)
    \/ CheckAgain(r)
    \/ ReplaceRoom(r)

Poll(r) ==
    \/ PollHit(r)
    \/ PollMiss(r)
    \/ Register(r)
    \/ Wake(r)

Next ==
    \E r \in Requests :
        \/ Arrive(r)
        \/ GetRoom(r)
        \/ Subscribe(r)
        \/ IssueIdx(r)
        \/ Publish(r)
        \/ Poll(r)
        \/ DropStream(r)

(* The runtime runs every task that is ready, so a handler that can take a *)
(* step takes one.  Clients owe the server nothing: neither Arrive nor     *)
(* DropStream is fair.                                                     *)
Handle(r) == GetRoom(r) \/ Subscribe(r) \/ IssueIdx(r) \/ Publish(r) \/ Poll(r)

Fairness == \A r \in Requests : WF_vars(Handle(r))

Spec == Init /\ [][Next]_vars

FairSpec == Spec /\ Fairness

-----------------------------------------------------------------------------
TypeOK ==
    /\ req \in [Requests -> RequestType]
    /\ pc \in [Requests -> {"idle", "lookup", "create", "replace", "have",
                            "poll", "register", "wait", "done"}]
    /\ room \in [Requests -> Requests \cup {NoRoom}]
    /\ rooms \in [RoomIds -> Requests \cup {NoRoom}]
    /\ messages \in [Requests -> Seq(Requests)]
    /\ subscribers \in [Requests -> U16]
    /\ next_idx \in [Requests -> U16]
    /\ reading \in [Requests -> SUBSET Requests]
    /\ waiters \in [Requests -> SUBSET Requests]
    /\ next_event \in [Requests -> U16]
    /\ delivered \in [Requests -> Seq([id: U16, msg: Requests])]
    /\ issued \in [Requests -> U16]

(* The requests whose Subscription to room object o exists. *)
Live(r)     == pc[r] \in {"poll", "register", "wait"}
Watchers(o) == {r \in Requests : Live(r) /\ room[r] = o}

(* The counter `is_abandoned` reads is exactly the number of subscriptions *)
(* that exist, over every interleaving of Room::subscribe and              *)
(* Subscription::drop: a room is neither cleaned up under a counted        *)
(* watcher nor kept for ever by one that left.                             *)
SubscribersCounted ==
    \A o \in Requests : subscribers[o] = Cardinality(Watchers(o))

(* The id due after the first n events of a stream. *)
After(r, n) == IF n = 0 THEN FirstEvent(r) ELSE Succ(delivered[r][n].id)

(* What a stream has yielded is a gap-free, in-order, unrepeated stretch   *)
(* of its room's history that starts at the event the client asked for,    *)
(* whatever was published, and whoever else read, in between.              *)
DeliveredIsHistory ==
    \A r \in Requests : Live(r) =>
        /\ next_event[r] = After(r, Len(delivered[r]))
        /\ \A n \in 1 .. Len(delivered[r]) :
              LET e == delivered[r][n] IN
              /\ e.id = After(r, n - 1)
              /\ e.id < Len(messages[room[r]])
              /\ e.msg = messages[room[r]][e.id + 1]

(* No lost wakeup: a stream that sleeps without having been notified has   *)
(* nothing to read.  It rests on Subscription::next creating its Notified  *)
(* before it releases the read guard, and on publish notifying before it   *)
(* releases the write guard.                                               *)
NoLostWakeup ==
    \A r \in Requests :
        pc[r] = "wait" /\ r \in waiters[room[r]] => ~HasNext(r)

(* The indices one room has handed out are 1 .. k, each to one request.    *)
(* Parties of one computation are told apart by them.                      *)
IndicesUnique ==
    \A r, s \in Requests :
        issued[r] # 0 /\ issued[s] # 0 /\ room[r] = room[s] /\ r # s
          => issued[r] # issued[s]

(* get_room_or_create_empty does not discard a room that is watched: once  *)
(* a room has a subscriber and no handler is about to replace it, none     *)
(* replaces it and none sets about it until the last subscriber has left.  *)
ReplacementUnderWay(x) ==
    \E w \in Requests : pc[w] = "replace" /\ req[w].room_id = x

WatchedRoomStays ==
    [][\A x \in RoomIds :
         /\ rooms[x] # NoRoom
         /\ Watchers(rooms[x]) # {}
         /\ ~ReplacementUnderWay(x)
         => rooms'[x] = rooms[x] /\ ~ReplacementUnderWay(x)']_vars

(* "If no one is watching this room - we need to clean it up first": the   *)
(* room of a live subscription is the one later requests for its id find.  *)
(* The code does not ensure it.                                            *)
WatcherInCurrentRoom ==
    \A r \in Requests : Live(r) => rooms[req[r].room_id] = room[r]

(* Every request that is not a subscription is answered. *)
RequestsAnswered ==
    \A r \in Requests : pc[r] = "lookup" ~> pc[r] = "done" \/ Live(r)

Unread(r, p) == \E n \in 1 .. Len(messages[room[r]]) :
                    messages[room[r]][n] = p /\ next_event[r] < n

Received(r, p) == \E n \in 1 .. Len(delivered[r]) : delivered[r][n].msg = p

(* A message accepted into a room reaches every stream of that room that   *)
(* has not yet passed it, unless the stream ends first.                    *)
EventuallyDelivered ==
    \A p, r \in Requests :
        Live(r) /\ Unread(r, p) ~> ~Live(r) \/ Received(r, p)

(* What the message bus promises its clients, with lookups, locks,         *)
(* counters and wakeups left out.                                          *)
At(r) == CASE Live(r)                             -> room[r]
           [] IsSubscribe(r) /\ pc[r] = "done"     -> Left
           [] OTHER                               -> NoRoom

Feed == INSTANCE RoomFeed WITH
            Readers <- Requests, Writers <- Requests, Rooms <- Requests,
            Detached <- NoRoom, Departed <- Left,
            log <- messages,
            at <- [r \in Requests |-> At(r)],
            cursor <- next_event,
            seen <- delivered

ImplementsFeed == Feed!Spec

=============================================================================
