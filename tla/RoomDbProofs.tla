---------------------------- MODULE RoomDbProofs ----------------------------
(***************************************************************************)
(* Theorems about RoomDb, for every number of requests and rooms.          *)
(***************************************************************************)
EXTENDS RoomDb, FiniteSetTheorems, TLAPS

-----------------------------------------------------------------------------
(* Types, and what a handler holds at each point. *)

HoldsRoom ==
    \A r \in Requests :
        pc[r] \in {"have", "poll", "register", "wait", "done"}
          => room[r] \in Requests

OnlyStreamsPoll ==
    \A r \in Requests :
        pc[r] \in {"poll", "register", "wait"} => IsSubscribe(r)

TypeInv == TypeOK /\ HoldsRoom /\ OnlyStreamsPoll

LEMMA CounterTypes ==
    /\ 0 \in U16 /\ 1 \in U16
    /\ \A i \in U16 : Succ(i) \in U16 /\ Pred(i) \in U16
  BY WidthAssumption DEF U16, Succ, Pred

LEMMA FirstEventType ==
    ASSUME TypeOK, NEW r \in Requests, IsSubscribe(r)
    PROVE  FirstEvent(r) \in U16
  <1>1. req[r] \in RequestType
    BY DEF TypeOK
  <1>2. req[r].last \in LastEventIds \cup {NoHeader}
    BY <1>1 DEF RequestType, IsSubscribe
  <1>3. QED
    BY <1>2, CounterTypes, LastEventAssumption DEF FirstEvent, U16

LEMMA RoomIdType ==
    ASSUME TypeOK, NEW r \in Requests
    PROVE  req[r].room_id \in RoomIds
  BY DEF TypeOK, RequestType

LEMMA ElementType ==
    ASSUME NEW S, NEW s \in Seq(S), NEW n \in Nat, n < Len(s)
    PROVE  s[n + 1] \in S
  <1>1. n + 1 \in 1 .. Len(s)
    OBVIOUS
  <1>2. QED
    BY <1>1

LEMMA EntryType ==
    ASSUME NEW S, NEW s \in Seq(S), NEW n \in 1 .. Len(s)
    PROVE  s[n] \in S
  OBVIOUS

LEMMA InitTypeInv == Init => TypeInv
  BY CounterTypes DEF Init, TypeInv, TypeOK, HoldsRoom, OnlyStreamsPoll

LEMMA NextTypeInv == TypeInv /\ [Next]_vars => TypeInv'
  <1> SUFFICES ASSUME TypeInv, [Next]_vars
               PROVE  TypeInv'
    OBVIOUS
  <1> USE DEF TypeInv, TypeOK, HoldsRoom, OnlyStreamsPoll
  <1>1. ASSUME NEW r \in Requests, Arrive(r)
        PROVE  TypeInv'
    BY <1>1 DEF Arrive, IsSubscribe
  <1>2. ASSUME NEW r \in Requests, GetWatched(r)
        PROVE  TypeInv'
    BY <1>2, RoomIdType DEF GetWatched, IsSubscribe
  <1>3. ASSUME NEW r \in Requests, InsertRoom(r)
        PROVE  TypeInv'
    BY <1>3, RoomIdType DEF InsertRoom, IsSubscribe
  <1>4. ASSUME NEW r \in Requests, CheckAgain(r)
        PROVE  TypeInv'
    BY <1>4, RoomIdType DEF CheckAgain, IsSubscribe
  <1>5. ASSUME NEW r \in Requests, ReplaceRoom(r)
        PROVE  TypeInv'
    BY <1>5, RoomIdType DEF ReplaceRoom, IsSubscribe
  <1>6. ASSUME NEW r \in Requests, Subscribe(r)
        PROVE  TypeInv'
    <2>1. room[r] \in Requests
      BY <1>6 DEF Subscribe
    <2>2. Succ(subscribers[room[r]]) \in U16 /\ FirstEvent(r) \in U16
      BY <2>1, <1>6, CounterTypes, FirstEventType DEF Subscribe
    <2>3. QED
      BY <1>6, <2>1, <2>2 DEF Subscribe, IsSubscribe
  <1>7. ASSUME NEW r \in Requests, IssueIdx(r)
        PROVE  TypeInv'
    BY <1>7, CounterTypes DEF IssueIdx, IsSubscribe
  <1>8. ASSUME NEW r \in Requests, Publish(r)
        PROVE  TypeInv'
    <2>1. room[r] \in Requests
      BY <1>8 DEF Publish
    <2>2. Append(messages[room[r]], r) \in Seq(Requests)
      BY <2>1
    <2>3. QED
      BY <1>8, <2>1, <2>2 DEF Publish, IsSubscribe
  <1>9. ASSUME NEW r \in Requests, PollHit(r)
        PROVE  TypeInv'
    <2>1. room[r] \in Requests /\ next_event[r] \in U16
      BY <1>9 DEF PollHit
    <2>2. messages[room[r]][next_event[r] + 1] \in Requests
      <3>1. messages[room[r]] \in Seq(Requests)
        BY <2>1
      <3>2. next_event[r] \in Nat /\ next_event[r] < Len(messages[room[r]])
        BY <2>1, <1>9 DEF PollHit, HasNext, U16
      <3>3. QED
        BY <3>1, <3>2, ElementType
    <2>3. Succ(next_event[r]) \in U16
      BY <2>1, CounterTypes
    <2> DEFINE e == [id  |-> next_event[r],
                     msg |-> messages[room[r]][next_event[r] + 1]]
    <2>4. Append(delivered[r], e) \in Seq([id: U16, msg: Requests])
      <3>1. e \in [id: U16, msg: Requests]
        BY <2>1, <2>2
      <3>2. delivered[r] \in Seq([id: U16, msg: Requests])
        OBVIOUS
      <3> HIDE DEF e
      <3>3. QED
        BY <3>1, <3>2
    <2>5. delivered' = [delivered EXCEPT ![r] = Append(delivered[r], e)]
      BY <1>9 DEF PollHit
    <2> HIDE DEF e
    <2>6. delivered' \in [Requests -> Seq([id: U16, msg: Requests])]
      BY <2>4, <2>5
    <2>7. QED
      BY <1>9, <2>3, <2>6 DEF PollHit, IsSubscribe
  <1>10. ASSUME NEW r \in Requests, PollMiss(r)
         PROVE  TypeInv'
    BY <1>10 DEF PollMiss, IsSubscribe
  <1>11. ASSUME NEW r \in Requests, Register(r)
         PROVE  TypeInv'
    BY <1>11 DEF Register, IsSubscribe
  <1>12. ASSUME NEW r \in Requests, Wake(r)
         PROVE  TypeInv'
    BY <1>12 DEF Wake, IsSubscribe
  <1>13. ASSUME NEW r \in Requests, DropStream(r)
         PROVE  TypeInv'
    BY <1>13, CounterTypes DEF DropStream, IsSubscribe
  <1>14. CASE UNCHANGED vars
    BY <1>14 DEF vars, IsSubscribe
  <1>15. QED
    BY <1>1, <1>2, <1>3, <1>4, <1>5, <1>6, <1>7, <1>8, <1>9, <1>10, <1>11,
       <1>12, <1>13, <1>14 DEF Next, GetRoom, Poll

LEMMA TypeInvariant == Spec => []TypeInv
  BY InitTypeInv, NextTypeInv, PTL DEF Spec

(* Every field of every room, and every local of every handler, keeps the  *)
(* type the code declares for it.                                          *)
THEOREM TypeCorrect == Spec => []TypeOK
  <1>1. TypeInv => TypeOK
    BY DEF TypeInv
  <1>2. QED
    BY <1>1, TypeInvariant, PTL

-----------------------------------------------------------------------------
(* Wakeups.  NoLostWakeup is not inductive: between the miss and the       *)
(* registration a stream depends on its read guard, so the strengthening   *)
(* says who holds guards and registrations, and that nothing is unread     *)
(* while a guard is held.                                                  *)

GuardsHeld ==
    \A o, r \in Requests :
        /\ r \in reading[o] <=> pc[r] = "register" /\ room[r] = o
        /\ r \in waiters[o] => pc[r] = "wait" /\ room[r] = o

NothingMissed ==
    \A r \in Requests :
        \/ pc[r] = "register"
        \/ pc[r] = "wait" /\ r \in waiters[room[r]]
        => ~HasNext(r)

WakeInv == GuardsHeld /\ NothingMissed

LEMMA InitWakeInv == Init => WakeInv
  BY DEF Init, WakeInv, GuardsHeld, NothingMissed

(* A step of one handler towards its room disturbs none of it. *)
LEMMA LookupKeepsWakeInv ==
    ASSUME TypeInv, WakeInv, NEW r \in Requests,
           pc[r] \in {"lookup", "create"}, pc'[r] \in {"create", "replace", "have"},
           \A s \in Requests \ {r} : pc'[s] = pc[s] /\ room'[s] = room[s],
           UNCHANGED <<messages, reading, waiters, next_event>>
    PROVE  WakeInv'
  <1> USE DEF WakeInv, GuardsHeld, NothingMissed, HasNext
  <1>1. GuardsHeld'
    OBVIOUS
  <1>2. NothingMissed'
    OBVIOUS
  <1>3. QED
    BY <1>1, <1>2

LEMMA NextWakeInv == TypeInv /\ WakeInv /\ [Next]_vars => WakeInv'
  <1> SUFFICES ASSUME TypeInv, WakeInv, [Next]_vars
               PROVE  WakeInv'
    OBVIOUS
  <1> USE DEF TypeInv, TypeOK, HoldsRoom, WakeInv, GuardsHeld, NothingMissed,
              HasNext
  <1>1. ASSUME NEW r \in Requests, Arrive(r)
        PROVE  WakeInv'
    BY <1>1 DEF Arrive
  <1>2. ASSUME NEW r \in Requests, GetWatched(r)
        PROVE  WakeInv'
    <2>1. /\ pc[r] = "lookup" /\ pc'[r] \in {"create", "have"}
          /\ \A s \in Requests \ {r} : pc'[s] = pc[s] /\ room'[s] = room[s]
          /\ UNCHANGED <<messages, reading, waiters, next_event>>
      BY <1>2 DEF GetWatched
    <2>2. QED
      BY <2>1, LookupKeepsWakeInv
  <1>3. ASSUME NEW r \in Requests, InsertRoom(r)
        PROVE  WakeInv'
    BY <1>3 DEF InsertRoom
  <1>4. ASSUME NEW r \in Requests, CheckAgain(r)
        PROVE  WakeInv'
    <2>1. /\ pc[r] = "create" /\ pc'[r] \in {"replace", "have"}
          /\ \A s \in Requests \ {r} : pc'[s] = pc[s] /\ room'[s] = room[s]
          /\ UNCHANGED <<messages, reading, waiters, next_event>>
      BY <1>4 DEF CheckAgain
    <2>2. QED
      BY <2>1, LookupKeepsWakeInv
  <1>5. ASSUME NEW r \in Requests, ReplaceRoom(r)
        PROVE  WakeInv'
    BY <1>5 DEF ReplaceRoom
  <1>6. ASSUME NEW r \in Requests, Subscribe(r)
        PROVE  WakeInv'
    BY <1>6 DEF Subscribe
  <1>7. ASSUME NEW r \in Requests, IssueIdx(r)
        PROVE  WakeInv'
    BY <1>7 DEF IssueIdx
  <1>8. ASSUME NEW r \in Requests, Publish(r)
        PROVE  WakeInv'
    <2>1. room[r] \in Requests /\ reading[room[r]] = {}
      BY <1>8 DEF Publish
    <2>2. GuardsHeld'
      BY <1>8, <2>1 DEF Publish
    <2>3. ASSUME NEW s \in Requests,
                 pc'[s] = "register" \/ (pc'[s] = "wait" /\ s \in waiters'[room'[s]])
          PROVE  room[s] # room[r]
      BY <1>8, <2>1, <2>3 DEF Publish
    <2>4. NothingMissed'
      BY <1>8, <2>1, <2>3 DEF Publish
    <2>5. QED
      BY <2>2, <2>4
  <1>9. ASSUME NEW r \in Requests, PollHit(r)
        PROVE  WakeInv'
    BY <1>9 DEF PollHit
  <1>10. ASSUME NEW r \in Requests, PollMiss(r)
         PROVE  WakeInv'
    BY <1>10 DEF PollMiss
  <1>11. ASSUME NEW r \in Requests, Register(r)
         PROVE  WakeInv'
    BY <1>11 DEF Register
  <1>12. ASSUME NEW r \in Requests, Wake(r)
         PROVE  WakeInv'
    BY <1>12 DEF Wake
  <1>13. ASSUME NEW r \in Requests, DropStream(r)
         PROVE  WakeInv'
    BY <1>13 DEF DropStream
  <1>14. CASE UNCHANGED vars
    BY <1>14 DEF vars
  <1>15. QED
    BY <1>1, <1>2, <1>3, <1>4, <1>5, <1>6, <1>7, <1>8, <1>9, <1>10, <1>11,
       <1>12, <1>13, <1>14 DEF Next, GetRoom, Poll

LEMMA WakeInvariant == Spec => []WakeInv
  BY InitWakeInv, NextWakeInv, TypeInvariant, PTL DEF Spec

(* A stream that sleeps unnotified has nothing to read, however many       *)
(* streams read and however many handlers publish at the same time.        *)
THEOREM WakeupsKept == Spec => []NoLostWakeup
  <1>1. WakeInv => NoLostWakeup
    BY DEF WakeInv, NothingMissed, NoLostWakeup
  <1>2. QED
    BY <1>1, WakeInvariant, PTL

-----------------------------------------------------------------------------
(* Subscriptions and their counter. *)

LEMMA WatchersFinite ==
    ASSUME NEW o
    PROVE  /\ IsFiniteSet(Watchers(o))
           /\ Cardinality(Watchers(o)) \in Nat
           /\ Cardinality(Watchers(o)) < Width
  <1>1. Watchers(o) \subseteq Requests
    BY DEF Watchers
  <1>2. Cardinality(Requests) \in Nat
    BY RequestsAssumption, FS_CardinalityType
  <1>3. QED
    BY <1>1, <1>2, FS_Subset, FS_CardinalityType, RequestsAssumption,
       WidthAssumption, NoWrapAssumption

LEMMA InitCounted == Init => SubscribersCounted
  <1> SUFFICES ASSUME Init, NEW o \in Requests
               PROVE  subscribers[o] = Cardinality(Watchers(o))
    BY DEF SubscribersCounted
  <1>1. Watchers(o) = {}
    BY DEF Init, Watchers, Live
  <1>2. QED
    BY <1>1, FS_EmptySet DEF Init

(* A step that neither starts nor ends a subscription leaves every room    *)
(* its watchers.                                                           *)
LEMMA SameWatchers ==
    ASSUME SubscribersCounted, UNCHANGED subscribers,
           \A r \in Requests : Live(r)' <=> Live(r),
           \A r \in Requests : Live(r) => room'[r] = room[r]
    PROVE  SubscribersCounted'
  <1>1. \A o : Watchers(o)' = Watchers(o)
    BY DEF Watchers
  <1>2. QED
    BY <1>1 DEF SubscribersCounted

LEMMA NextCounted ==
    TypeInv /\ SubscribersCounted /\ [Next]_vars => SubscribersCounted'
  <1> SUFFICES ASSUME TypeInv, SubscribersCounted, [Next]_vars
               PROVE  SubscribersCounted'
    OBVIOUS
  <1> USE DEF TypeInv, TypeOK, HoldsRoom
  <1>1. ASSUME NEW r \in Requests,
               \/ Arrive(r)
               \/ GetRoom(r)
               \/ IssueIdx(r)
               \/ Publish(r)
               \/ Poll(r)
        PROVE  SubscribersCounted'
    <2>1. UNCHANGED subscribers
      BY <1>1 DEF Arrive, GetRoom, GetWatched, InsertRoom, CheckAgain,
                  ReplaceRoom, IssueIdx, Publish, Poll, PollHit, PollMiss,
                  Register, Wake
    <2>2. \A s \in Requests : Live(s)' <=> Live(s)
      BY <1>1 DEF Arrive, GetRoom, GetWatched, InsertRoom, CheckAgain,
                  ReplaceRoom, IssueIdx, Publish, Poll, PollHit, PollMiss,
                  Register, Wake, Live
    <2>3. \A s \in Requests : Live(s) => room'[s] = room[s]
      BY <1>1 DEF Arrive, GetRoom, GetWatched, InsertRoom, CheckAgain,
                  ReplaceRoom, IssueIdx, Publish, Poll, PollHit, PollMiss,
                  Register, Wake, Live
    <2>4. QED
      BY <2>1, <2>2, <2>3, SameWatchers
  <1>2. ASSUME NEW r \in Requests, Subscribe(r), NEW o \in Requests
        PROVE  subscribers'[o] = Cardinality(Watchers(o)')
    <2>1. CASE o = room[r]
      <3>1. Watchers(o)' = Watchers(o) \cup {r} /\ r \notin Watchers(o)
        BY <1>2, <2>1 DEF Subscribe, Watchers, Live
      <3>2. Cardinality(Watchers(o)') = Cardinality(Watchers(o)) + 1
        BY <3>1, WatchersFinite, FS_AddElement
      <3>3. Cardinality(Watchers(o)') < Width
        <4>1. Watchers(o)' \subseteq Requests
          BY DEF Watchers
        <4>2. /\ Cardinality(Watchers(o)') <= Cardinality(Requests)
              /\ Cardinality(Watchers(o)') \in Nat
              /\ Cardinality(Requests) \in Nat
          BY <4>1, FS_Subset, FS_CardinalityType, RequestsAssumption
        <4>3. QED
          BY <4>2, WidthAssumption, NoWrapAssumption
      <3>4. subscribers[o] = Cardinality(Watchers(o))
        BY DEF SubscribersCounted
      <3>5. subscribers'[o] = Succ(subscribers[o])
        BY <1>2, <2>1 DEF Subscribe
      <3>6. QED
        BY <3>2, <3>3, <3>4, <3>5, WatchersFinite, WidthAssumption DEF Succ
    <2>2. CASE o # room[r]
      <3>1. Watchers(o)' = Watchers(o)
        BY <1>2, <2>2 DEF Subscribe, Watchers, Live
      <3>2. QED
        BY <1>2, <2>2, <3>1 DEF Subscribe, SubscribersCounted
    <2>3. QED
      BY <2>1, <2>2
  <1>3. ASSUME NEW r \in Requests, DropStream(r), NEW o \in Requests
        PROVE  subscribers'[o] = Cardinality(Watchers(o)')
    <2>1. CASE o = room[r]
      <3>1. Watchers(o)' = Watchers(o) \ {r} /\ r \in Watchers(o)
        BY <1>3, <2>1 DEF DropStream, Watchers, Live
      <3>2. Cardinality(Watchers(o)') = Cardinality(Watchers(o)) - 1
        BY <3>1, WatchersFinite, FS_RemoveElement
      <3>3. Cardinality(Watchers(o)) # 0
        BY <3>1, WatchersFinite, FS_EmptySet
      <3>4. subscribers[o] = Cardinality(Watchers(o))
        BY DEF SubscribersCounted
      <3>5. subscribers'[o] = Pred(subscribers[o])
        BY <1>3, <2>1 DEF DropStream
      <3>6. QED
        BY <3>2, <3>3, <3>4, <3>5 DEF Pred
    <2>2. CASE o # room[r]
      <3>1. Watchers(o)' = Watchers(o)
        BY <1>3, <2>2 DEF DropStream, Watchers, Live
      <3>2. QED
        BY <1>3, <2>2, <3>1 DEF DropStream, SubscribersCounted
    <2>3. QED
      BY <2>1, <2>2
  <1>4. CASE UNCHANGED vars
    BY <1>4, SameWatchers DEF vars, Live
  <1>5. QED
    BY <1>1, <1>2, <1>3, <1>4 DEF Next, SubscribersCounted

(* The counter is the number of subscriptions, whatever happens between    *)
(* looking a room up, subscribing and dropping the stream.                 *)
THEOREM SubscriptionsCounted == Spec => []SubscribersCounted
  BY InitCounted, NextCounted, TypeInvariant, PTL DEF Spec

(* One step of the system, from a state with a correct counter, keeps a    *)
(* watched room and starts no replacement of it.                           *)
LEMMA WatchedRoomStep ==
    ASSUME TypeInv, SubscribersCounted, [Next]_vars, NEW x \in RoomIds,
           rooms[x] # NoRoom, Watchers(rooms[x]) # {}, ~ReplacementUnderWay(x)
    PROVE  rooms'[x] = rooms[x] /\ ~ReplacementUnderWay(x)'
  <1> USE DEF TypeInv, TypeOK
  <1>1. rooms[x] \in Requests
    OBVIOUS
  <1>2. ~IsAbandoned(rooms[x])
    BY <1>1, WatchersFinite, FS_EmptySet DEF SubscribersCounted, IsAbandoned
  <1>3. ASSUME NEW r \in Requests, CheckAgain(r)
        PROVE  rooms'[x] = rooms[x] /\ ~ReplacementUnderWay(x)'
    BY <1>2, <1>3 DEF CheckAgain, ReplacementUnderWay
  <1>4. ASSUME NEW r \in Requests, InsertRoom(r)
        PROVE  rooms'[x] = rooms[x] /\ ~ReplacementUnderWay(x)'
    BY <1>4 DEF InsertRoom, ReplacementUnderWay
  <1>5. ASSUME NEW r \in Requests, ReplaceRoom(r)
        PROVE  rooms'[x] = rooms[x] /\ ~ReplacementUnderWay(x)'
    BY <1>5 DEF ReplaceRoom, ReplacementUnderWay
  <1>6. ASSUME NEW r \in Requests,
               \/ Arrive(r)
               \/ GetWatched(r)
               \/ Subscribe(r)
               \/ IssueIdx(r)
               \/ Publish(r)
               \/ Poll(r)
               \/ DropStream(r)
        PROVE  rooms'[x] = rooms[x] /\ ~ReplacementUnderWay(x)'
    BY <1>6 DEF Arrive, GetWatched, Subscribe, IssueIdx, Publish, Poll, PollHit,
                PollMiss, Register, Wake, DropStream, ReplacementUnderWay
  <1>7. CASE UNCHANGED vars
    BY <1>7 DEF vars, ReplacementUnderWay
  <1>8. QED
    BY <1>3, <1>4, <1>5, <1>6, <1>7 DEF Next, GetRoom

(* A watched room that nobody is already replacing stays the room of its   *)
(* id until its last subscriber leaves.                                    *)
THEOREM WatchedRoomsStay == Spec => WatchedRoomStays
  <1>1. TypeInv /\ SubscribersCounted /\ [Next]_vars
          => [\A x \in RoomIds :
                /\ rooms[x] # NoRoom
                /\ Watchers(rooms[x]) # {}
                /\ ~ReplacementUnderWay(x)
                => rooms'[x] = rooms[x] /\ ~ReplacementUnderWay(x)']_vars
    BY WatchedRoomStep
  <1>2. QED
    BY <1>1, TypeInvariant, SubscriptionsCounted, PTL
       DEF Spec, WatchedRoomStays

-----------------------------------------------------------------------------
(* What streams deliver.  The strengthening adds that a stream has yielded *)
(* nothing before it subscribes.                                           *)

NothingDeliveredYet ==
    \A r \in Requests :
        pc[r] \notin {"poll", "register", "wait", "done"}
          => delivered[r] = <<>>

HistoryInv == DeliveredIsHistory /\ NothingDeliveredYet

LEMMA AppendFacts ==
    ASSUME NEW S, NEW s \in Seq(S), NEW e \in S
    PROVE  /\ Append(s, e) \in Seq(S)
           /\ Len(Append(s, e)) = Len(s) + 1
           /\ Len(s) \in Nat
           /\ \A n \in 1 .. Len(s) : Append(s, e)[n] = s[n]
           /\ Append(s, e)[Len(s) + 1] = e
  OBVIOUS

(* A stream's part of DeliveredIsHistory. *)
StreamIsHistory(r) ==
    /\ next_event[r] = After(r, Len(delivered[r]))
    /\ \A n \in 1 .. Len(delivered[r]) :
          /\ delivered[r][n].id = After(r, n - 1)
          /\ delivered[r][n].id < Len(messages[room[r]])
          /\ delivered[r][n].msg = messages[room[r]][delivered[r][n].id + 1]

LEMMA HistoryByStream ==
    DeliveredIsHistory <=> \A r \in Requests : Live(r) => StreamIsHistory(r)
  BY DEF DeliveredIsHistory, StreamIsHistory

(* A stream that neither starts nor yields keeps its history while its     *)
(* room's log does not change.                                             *)
LEMMA StreamUndisturbed ==
    ASSUME NEW r \in Requests, StreamIsHistory(r),
           req' = req, delivered'[r] = delivered[r], room'[r] = room[r],
           next_event'[r] = next_event[r],
           messages'[room[r]] = messages[room[r]]
    PROVE  StreamIsHistory(r)'
  BY DEF StreamIsHistory, After, FirstEvent

LEMMA StreamOutlivesPublish ==
    ASSUME TypeInv, NEW r \in Requests, Live(r), StreamIsHistory(r),
           NEW p \in Requests, Publish(p)
    PROVE  StreamIsHistory(r)'
  <1>1. /\ room[r] \in Requests /\ room[p] \in Requests
        /\ messages[room[p]] \in Seq(Requests)
        /\ delivered[r] \in Seq([id: U16, msg: Requests])
    BY DEF TypeInv, TypeOK, HoldsRoom, Live, Publish
  <1>2. CASE room[r] # room[p]
    BY <1>1, <1>2, StreamUndisturbed DEF Publish, TypeInv, TypeOK
  <1>3. CASE room[r] = room[p]
    <2>1. messages'[room[r]] = Append(messages[room[r]], p)
      BY <1>1, <1>3 DEF Publish, TypeInv, TypeOK
    <2>2. /\ Len(messages'[room[r]]) = Len(messages[room[r]]) + 1
          /\ Len(messages[room[r]]) \in Nat
          /\ \A n \in 1 .. Len(messages[room[r]]) :
                messages'[room[r]][n] = messages[room[r]][n]
      BY <1>1, <1>3, <2>1, AppendFacts
    <2>3. UNCHANGED <<req, room, delivered, next_event>>
      BY DEF Publish
    <2>4. \A n : After(r, n)' = After(r, n)
      BY <2>3 DEF After, FirstEvent
    <2>5. ASSUME NEW n \in 1 .. Len(delivered[r])
          PROVE  /\ delivered[r][n].id = After(r, n - 1)
                 /\ delivered[r][n].id < Len(messages'[room[r]])
                 /\ delivered[r][n].msg = messages'[room[r]][delivered[r][n].id + 1]
      <3>1. delivered[r][n] \in [id: U16, msg: Requests]
        BY <1>1, EntryType
      <3>2. delivered[r][n].id \in Nat
        BY <3>1 DEF U16
      <3>3. /\ delivered[r][n].id = After(r, n - 1)
            /\ delivered[r][n].id < Len(messages[room[r]])
            /\ delivered[r][n].msg = messages[room[r]][delivered[r][n].id + 1]
        BY DEF StreamIsHistory
      <3>4. delivered[r][n].id + 1 \in 1 .. Len(messages[room[r]])
        BY <2>2, <3>2, <3>3
      <3>5. QED
        BY <2>2, <3>2, <3>3, <3>4
    <2>6. QED
      BY <2>3, <2>4, <2>5 DEF StreamIsHistory
  <1>4. QED
    BY <1>2, <1>3

LEMMA StreamYields ==
    ASSUME TypeInv, NEW r \in Requests, StreamIsHistory(r), PollHit(r)
    PROVE  StreamIsHistory(r)'
  <1> DEFINE d == delivered[r]
             o == room[r]
             e == [id |-> next_event[r], msg |-> messages[o][next_event[r] + 1]]
  <1>1. /\ o \in Requests /\ next_event[r] \in U16
        /\ messages[o] \in Seq(Requests)
        /\ d \in Seq([id: U16, msg: Requests])
    BY DEF TypeInv, TypeOK, HoldsRoom, PollHit
  <1>2. /\ next_event[r] \in Nat
        /\ next_event[r] < Len(messages[o])
    BY <1>1 DEF PollHit, HasNext, U16
  <1>3. e \in [id: U16, msg: Requests]
    BY <1>1, <1>2, ElementType
  <1>4. /\ delivered'[r] = Append(d, e)
        /\ next_event'[r] = Succ(next_event[r])
        /\ UNCHANGED <<req, room, messages>>
    BY <1>1 DEF PollHit, TypeInv, TypeOK
  <1> HIDE DEF e
  <1>5. /\ Len(delivered'[r]) = Len(d) + 1
        /\ Len(d) \in Nat
        /\ \A n \in 1 .. Len(d) : delivered'[r][n] = d[n]
        /\ delivered'[r][Len(d) + 1] = e
    BY <1>1, <1>3, <1>4, AppendFacts
  <1>6. ASSUME NEW n \in 0 .. Len(d)
        PROVE  After(r, n)' = After(r, n)
    <2>1. CASE n = 0
      BY <1>4, <2>1 DEF After, FirstEvent
    <2>2. CASE n # 0
      <3>1. n \in 1 .. Len(d)
        BY <1>5, <2>2
      <3>2. QED
        BY <1>5, <2>2, <3>1 DEF After
    <2>3. QED
      BY <2>1, <2>2
  <1>7. e.id = next_event[r] /\ e.msg = messages[o][next_event[r] + 1]
    BY DEF e
  <1>8. (next_event[r] = After(r, Len(delivered[r])))'
    <2>1. ASSUME NEW m, m = Len(delivered'[r])
          PROVE  After(r, m)' = Succ(next_event[r])
      <3>1. m # 0 /\ delivered'[r][m] = e
        BY <1>5, <2>1
      <3>2. QED
        BY <1>7, <3>1 DEF After
    <2>2. QED
      BY <1>4, <2>1
  <1>9. ASSUME NEW n \in 1 .. Len(delivered'[r])
        PROVE  /\ delivered'[r][n].id = After(r, n - 1)'
               /\ delivered'[r][n].id < Len(messages[o])
               /\ delivered'[r][n].msg = messages[o][delivered'[r][n].id + 1]
    <2>1. CASE n \in 1 .. Len(d)
      <3>1. n - 1 \in 0 .. Len(d)
        BY <1>5, <2>1
      <3>2. delivered'[r][n] = d[n] /\ After(r, n - 1)' = After(r, n - 1)
        BY <1>5, <1>6, <2>1, <3>1
      <3>3. QED
        BY <2>1, <3>2 DEF StreamIsHistory
    <2>2. CASE n = Len(d) + 1
      <3>1. delivered'[r][n] = e /\ n - 1 = Len(d)
        BY <1>5, <2>2
      <3>2. Len(d) \in 0 .. Len(d)
        BY <1>5
      <3>3. After(r, n - 1)' = next_event[r]
        BY <1>6, <3>1, <3>2 DEF StreamIsHistory
      <3>4. QED
        BY <1>2, <1>7, <3>1, <3>3
    <2>3. n \in 1 .. Len(d) \/ n = Len(d) + 1
      BY <1>5
    <2>4. QED
      BY <2>1, <2>2, <2>3
  <1>10. QED
    BY <1>4, <1>8, <1>9 DEF StreamIsHistory

LEMMA InitHistory == Init => HistoryInv
  BY DEF Init, HistoryInv, DeliveredIsHistory, NothingDeliveredYet, Live

LEMMA NextHistory == TypeInv /\ HistoryInv /\ [Next]_vars => HistoryInv'
  <1> SUFFICES ASSUME TypeInv, HistoryInv, [Next]_vars
               PROVE  HistoryInv'
    OBVIOUS
  <1>0. \A r \in Requests : Live(r) => StreamIsHistory(r)
    BY HistoryByStream DEF HistoryInv
  <1>1. NothingDeliveredYet'
    <2> USE DEF TypeInv, TypeOK, HistoryInv, NothingDeliveredYet
    <2>1. ASSUME NEW r \in Requests, Arrive(r) \/ GetRoom(r)
          PROVE  NothingDeliveredYet'
      BY <2>1 DEF Arrive, GetRoom, GetWatched, InsertRoom, CheckAgain,
                  ReplaceRoom
    <2>2. ASSUME NEW r \in Requests,
                 Subscribe(r) \/ IssueIdx(r) \/ Publish(r) \/ DropStream(r)
          PROVE  NothingDeliveredYet'
      BY <2>2 DEF Subscribe, IssueIdx, Publish, DropStream
    <2>3. ASSUME NEW r \in Requests, Poll(r)
          PROVE  NothingDeliveredYet'
      BY <2>3 DEF Poll, PollHit, PollMiss, Register, Wake
    <2>4. CASE UNCHANGED vars
      BY <2>4 DEF vars
    <2>5. QED
      BY <2>1, <2>2, <2>3, <2>4 DEF Next
  <1>2. ASSUME NEW s \in Requests, Live(s)'
        PROVE  StreamIsHistory(s)'
    <2>1. ASSUME NEW r \in Requests,
                 Arrive(r) \/ GetRoom(r) \/ IssueIdx(r) \/ DropStream(r)
          PROVE  StreamIsHistory(s)'
      <3>1. Live(s) /\ room'[s] = room[s]
        BY <1>2, <2>1 DEF Arrive, GetRoom, GetWatched, InsertRoom, CheckAgain,
           ReplaceRoom, IssueIdx, DropStream, Live, TypeInv, TypeOK
      <3>2. UNCHANGED <<req, delivered, next_event, messages>>
        BY <2>1 DEF Arrive, GetRoom, GetWatched, InsertRoom, CheckAgain,
           ReplaceRoom, IssueIdx, DropStream
      <3>3. QED
        BY <1>0, <3>1, <3>2, StreamUndisturbed
    <2>2. ASSUME NEW r \in Requests, Subscribe(r)
          PROVE  StreamIsHistory(s)'
      <3>1. CASE s = r
        <4>1. delivered[s] = <<>> /\ UNCHANGED <<req, delivered, messages, room>>
          BY <2>2, <3>1 DEF Subscribe, HistoryInv, NothingDeliveredYet
        <4>2. next_event'[s] = FirstEvent(s)
          BY <2>2, <3>1 DEF Subscribe, TypeInv, TypeOK
        <4>3. QED
          BY <4>1, <4>2 DEF StreamIsHistory, After, FirstEvent
      <3>2. CASE s # r
        <4>1. Live(s) /\ next_event'[s] = next_event[s]
          BY <1>2, <2>2, <3>2 DEF Subscribe, Live, TypeInv, TypeOK
        <4>2. QED
          BY <1>0, <2>2, <4>1, StreamUndisturbed DEF Subscribe
      <3>3. QED
        BY <3>1, <3>2
    <2>3. ASSUME NEW r \in Requests, Publish(r)
          PROVE  StreamIsHistory(s)'
      <3>1. Live(s)
        BY <1>2, <2>3 DEF Publish, Live, TypeInv, TypeOK
      <3>2. QED
        BY <1>0, <2>3, <3>1, StreamOutlivesPublish
    <2>4. ASSUME NEW r \in Requests, PollHit(r)
          PROVE  StreamIsHistory(s)'
      <3>1. Live(s)
        BY <1>2, <2>4 DEF PollHit, Live
      <3>2. CASE s = r
        BY <1>0, <2>4, <3>1, <3>2, StreamYields
      <3>3. CASE s # r
        <4>1. delivered'[s] = delivered[s] /\ next_event'[s] = next_event[s]
          BY <2>4, <3>3 DEF PollHit, TypeInv, TypeOK
        <4>2. QED
          BY <1>0, <2>4, <3>1, <4>1, StreamUndisturbed DEF PollHit
      <3>4. QED
        BY <3>2, <3>3
    <2>5. ASSUME NEW r \in Requests, PollMiss(r) \/ Register(r) \/ Wake(r)
          PROVE  StreamIsHistory(s)'
      <3>1. Live(s)
        BY <1>2, <2>5 DEF PollMiss, Register, Wake, Live, TypeInv, TypeOK
      <3>2. UNCHANGED <<req, delivered, next_event, messages, room>>
        BY <2>5 DEF PollMiss, Register, Wake
      <3>3. QED
        BY <1>0, <3>1, <3>2, StreamUndisturbed
    <2>6. CASE UNCHANGED vars
      <3>1. Live(s) /\ UNCHANGED <<req, delivered, next_event, messages, room>>
        BY <1>2, <2>6 DEF vars, Live
      <3>2. QED
        BY <1>0, <3>1, StreamUndisturbed
    <2>7. QED
      BY <2>1, <2>2, <2>3, <2>4, <2>5, <2>6 DEF Next, Poll
  <1>3. DeliveredIsHistory'
    BY <1>2 DEF DeliveredIsHistory, StreamIsHistory
  <1>4. QED
    BY <1>1, <1>3 DEF HistoryInv

LEMMA HistoryInvariant == Spec => []HistoryInv
  BY InitHistory, NextHistory, TypeInvariant, PTL DEF Spec

(* Every stream is a gap-free stretch of its room's log, in order, from    *)
(* the event after the one the client named.                               *)
THEOREM StreamsDeliverHistory == Spec => []DeliveredIsHistory
  <1>1. HistoryInv => DeliveredIsHistory
    BY DEF HistoryInv
  <1>2. QED
    BY <1>1, HistoryInvariant, PTL

-----------------------------------------------------------------------------
(* Counting the requests a room has answered: `next_idx` and the length of *)
(* the log never get ahead of the number of requests, so neither wraps.    *)

Finished(o) == {r \in Requests : pc[r] = "done" /\ room[r] = o}
Issuers(o)    == {r \in Finished(o) : IsIssue(r)}
Publishers(o) == {r \in Finished(o) : IsBroadcast(r)}

IndexInv ==
    /\ \A o \in Requests :
          Cardinality(Issuers(o)) + 1 < Width
            => next_idx[o] = Cardinality(Issuers(o)) + 1
    /\ \A r, o \in Requests :
          issued[r] # 0 /\ room[r] = o
            => r \in Issuers(o) /\ issued[r] <= Cardinality(Issuers(o))
    /\ \A r \in Requests : issued[r] # 0 => pc[r] = "done"
    /\ IndicesUnique

LogInv ==
    /\ \A o \in Requests : Len(messages[o]) = Cardinality(Publishers(o))
    /\ \A o \in Requests : \A n \in 1 .. Len(messages[o]) :
          pc[messages[o][n]] = "done"

LEMMA SomeRequests ==
    ASSUME NEW S, S \subseteq Requests
    PROVE  /\ IsFiniteSet(S) /\ Cardinality(S) \in Nat
           /\ Cardinality(S) < Width
  <1>1. /\ IsFiniteSet(S)
        /\ Cardinality(S) <= Cardinality(Requests)
        /\ Cardinality(S) \in Nat
        /\ Cardinality(Requests) \in Nat
    BY FS_Subset, FS_CardinalityType, RequestsAssumption
  <1>2. QED
    BY <1>1, WidthAssumption, NoWrapAssumption

LEMMA OneMore ==
    ASSUME NEW S, S \subseteq Requests, NEW r \in Requests, r \notin S
    PROVE  /\ Cardinality(S \cup {r}) = Cardinality(S) + 1
           /\ Cardinality(S) \in Nat
           /\ Cardinality(S) + 1 < Width
  <1>1. Cardinality(S \cup {r}) = Cardinality(S) + 1
    BY SomeRequests, FS_AddElement
  <1>2. QED
    BY <1>1, SomeRequests

LEMMA InitIndexAndLog == Init => IndexInv /\ LogInv
  <1> SUFFICES ASSUME Init PROVE IndexInv /\ LogInv
    OBVIOUS
  <1>1. \A o : Issuers(o) = {} /\ Publishers(o) = {}
    BY DEF Init, Issuers, Publishers, Finished
  <1>2. \A o : Cardinality(Issuers(o)) = 0 /\ Cardinality(Publishers(o)) = 0
    BY <1>1, FS_EmptySet
  <1>3. IndexInv
    BY <1>2 DEF Init, IndexInv, IndicesUnique
  <1>4. LogInv
    BY <1>2 DEF Init, LogInv
  <1>5. QED
    BY <1>3, <1>4

(* Only an IssueIdx step changes the issuers of a room, and only a Publish *)
(* step its publishers.                                                    *)
LEMMA WhoFinishes ==
    ASSUME TypeInv, [Next]_vars
    PROVE  /\ \/ \E r \in Requests : IssueIdx(r)
              \/ /\ \A o : Issuers(o)' = Issuers(o)
                 /\ UNCHANGED <<next_idx, issued>>
           /\ \/ \E r \in Requests : Publish(r)
              \/ /\ \A o : Publishers(o)' = Publishers(o)
                 /\ UNCHANGED messages
           /\ \A r \in Requests :
                 pc[r] = "done" => pc'[r] = "done" /\ room'[r] = room[r]
  <1> USE DEF TypeInv, TypeOK, Issuers, Publishers, Finished, IsIssue, IsBroadcast
  <1>1. ASSUME NEW r \in Requests, Arrive(r) \/ GetRoom(r)
        PROVE  /\ \A o : Issuers(o)' = Issuers(o) /\ Publishers(o)' = Publishers(o)
               /\ UNCHANGED <<next_idx, issued, messages>>
               /\ \A s \in Requests :
                     pc[s] = "done" => pc'[s] = "done" /\ room'[s] = room[s]
    BY <1>1 DEF Arrive, GetRoom, GetWatched, InsertRoom, CheckAgain, ReplaceRoom
  <1>2. ASSUME NEW r \in Requests, Subscribe(r) \/ Poll(r)
        PROVE  /\ \A o : Issuers(o)' = Issuers(o) /\ Publishers(o)' = Publishers(o)
               /\ UNCHANGED <<next_idx, issued, messages>>
               /\ \A s \in Requests :
                     pc[s] = "done" => pc'[s] = "done" /\ room'[s] = room[s]
    BY <1>2 DEF Subscribe, Poll, PollHit, PollMiss, Register, Wake
  <1>3. ASSUME NEW r \in Requests, DropStream(r)
        PROVE  /\ \A o : Issuers(o)' = Issuers(o) /\ Publishers(o)' = Publishers(o)
               /\ UNCHANGED <<next_idx, issued, messages>>
               /\ \A s \in Requests :
                     pc[s] = "done" => pc'[s] = "done" /\ room'[s] = room[s]
    <2>1. IsSubscribe(r)
      BY <1>3 DEF DropStream, OnlyStreamsPoll
    <2>2. QED
      BY <1>3, <2>1 DEF DropStream, IsSubscribe
  <1>4. ASSUME NEW r \in Requests, IssueIdx(r)
        PROVE  /\ \A o : Publishers(o)' = Publishers(o)
               /\ UNCHANGED messages
               /\ \A s \in Requests :
                     pc[s] = "done" => pc'[s] = "done" /\ room'[s] = room[s]
    BY <1>4 DEF IssueIdx
  <1>5. ASSUME NEW r \in Requests, Publish(r)
        PROVE  /\ \A o : Issuers(o)' = Issuers(o)
               /\ UNCHANGED <<next_idx, issued>>
               /\ \A s \in Requests :
                     pc[s] = "done" => pc'[s] = "done" /\ room'[s] = room[s]
    BY <1>5 DEF Publish
  <1>6. CASE UNCHANGED vars
    BY <1>6 DEF vars
  <1> HIDE DEF TypeInv, TypeOK, Issuers, Publishers, Finished
  <1>7. QED
    BY <1>1, <1>2, <1>3, <1>4, <1>5, <1>6 DEF Next

LEMMA NextIndexInv == TypeInv /\ IndexInv /\ [Next]_vars => IndexInv'
  <1> SUFFICES ASSUME TypeInv, IndexInv, [Next]_vars
               PROVE  IndexInv'
    OBVIOUS
  <1>1. ASSUME NEW r \in Requests, IssueIdx(r)
        PROVE  IndexInv'
    <2>0. PICK o \in Requests : o = room[r]
      BY <1>1 DEF IssueIdx, TypeInv, HoldsRoom
    <2> DEFINE c == Cardinality(Issuers(o))
    <2>1. /\ pc[r] # "done" /\ IsIssue(r)
          /\ pc' = [pc EXCEPT ![r] = "done"]
          /\ issued' = [issued EXCEPT ![r] = next_idx[o]]
          /\ next_idx' = [next_idx EXCEPT ![o] = Succ(next_idx[o])]
          /\ UNCHANGED <<req, room>>
          /\ pc = [s \in Requests |-> pc[s]] /\ issued \in [Requests -> U16]
          /\ next_idx \in [Requests -> U16]
      BY <1>1, <2>0 DEF IssueIdx, TypeInv, TypeOK
    <2>2. r \notin Issuers(o) /\ Issuers(o) \subseteq Requests
      BY <2>1 DEF Issuers, Finished
    <2>3. Issuers(o)' = Issuers(o) \cup {r}
      BY <2>0, <2>1 DEF Issuers, Finished, IsIssue
    <2>4. \A p \in Requests : p # o => Issuers(p)' = Issuers(p)
      BY <2>0, <2>1 DEF Issuers, Finished, IsIssue
    <2>5. /\ Cardinality(Issuers(o)') = c + 1
          /\ c \in Nat /\ c + 1 < Width
      BY <2>2, <2>3, OneMore
    <2>6. next_idx[o] = c + 1 /\ issued'[r] = c + 1
      BY <2>1, <2>5 DEF IndexInv
    <2>7. c + 2 < Width => next_idx'[o] = c + 2
      <3>1. next_idx'[o] = Succ(c + 1)
        BY <2>1, <2>6
      <3> HIDE DEF c
      <3>2. c + 2 < Width => Succ(c + 1) = c + 2
        BY <2>5, WidthAssumption DEF Succ
      <3>3. QED
        BY <3>1, <3>2
    <2>8. ASSUME NEW p \in Requests, Cardinality(Issuers(p)') + 1 < Width
          PROVE  next_idx'[p] = Cardinality(Issuers(p)') + 1
      <3>1. CASE p = o
        BY <2>5, <2>7, <2>8, <3>1
      <3>2. CASE p # o
        BY <2>1, <2>4, <2>8, <3>2 DEF IndexInv
      <3>3. QED
        BY <3>1, <3>2
    <2>9. ASSUME NEW s \in Requests, NEW p \in Requests,
                 issued'[s] # 0, room'[s] = p
          PROVE  s \in Issuers(p)' /\ issued'[s] <= Cardinality(Issuers(p)')
      <3>1. CASE s = r
        <4>1. p = o
          BY <2>0, <2>1, <2>9, <3>1
        <4>2. s \in Issuers(o)' /\ issued'[s] = Cardinality(Issuers(o)')
          BY <2>3, <2>5, <2>6, <3>1
        <4>3. Cardinality(Issuers(o)') \in Nat
          BY <2>5
        <4>4. QED
          BY <4>1, <4>2, <4>3
      <3>2. CASE s # r
        <4>1. /\ issued'[s] = issued[s] /\ s \in Issuers(p)
              /\ issued[s] <= Cardinality(Issuers(p))
              /\ issued[s] \in Nat
          BY <2>1, <2>9, <3>2 DEF IndexInv, U16
        <4>2. CASE p = o
          BY <2>3, <2>5, <4>1, <4>2
        <4>3. CASE p # o
          BY <2>4, <4>1, <4>3
        <4>4. QED
          BY <4>2, <4>3
      <3>3. QED
        BY <3>1, <3>2
    <2>10. ASSUME NEW s \in Requests, s # r, issued[s] # 0, room[s] = o
           PROVE  issued[s] # c + 1
      <3>1. issued[s] <= c /\ issued[s] \in Nat
        BY <2>1, <2>10 DEF IndexInv, U16
      <3>2. QED
        BY <2>5, <3>1
    <2>11. IndicesUnique'
      BY <2>0, <2>1, <2>6, <2>10 DEF IndicesUnique, IndexInv
    <2>12. \A s \in Requests : issued'[s] # 0 => pc'[s] = "done"
      BY <2>1 DEF IndexInv
    <2>13. QED
      BY <2>8, <2>9, <2>11, <2>12 DEF IndexInv
  <1>2. CASE /\ \A o : Issuers(o)' = Issuers(o)
             /\ UNCHANGED <<next_idx, issued>>
    <2>1. \A r \in Requests :
            issued[r] # 0 => pc'[r] = "done" /\ room'[r] = room[r]
      BY WhoFinishes DEF IndexInv
    <2>2. QED
      BY <1>2, <2>1 DEF IndexInv, IndicesUnique
  <1>3. QED
    BY <1>1, <1>2, WhoFinishes

LEMMA NextLogInv == TypeInv /\ LogInv /\ [Next]_vars => LogInv'
  <1> SUFFICES ASSUME TypeInv, LogInv, [Next]_vars
               PROVE  LogInv'
    OBVIOUS
  <1>0. /\ \A o \in Requests : messages[o] \in Seq(Requests)
        /\ messages = [o \in Requests |-> messages[o]]
        /\ pc = [r \in Requests |-> pc[r]]
    BY DEF TypeInv, TypeOK
  <1>1. ASSUME NEW r \in Requests, Publish(r), NEW o \in Requests
        PROVE  /\ Len(messages'[o]) = Cardinality(Publishers(o)')
               /\ \A n \in 1 .. Len(messages'[o]) :
                     pc'[messages'[o][n]] = "done"
    <2>1. /\ room[r] \in Requests /\ pc[r] # "done" /\ IsBroadcast(r)
          /\ pc' = [pc EXCEPT ![r] = "done"]
          /\ messages' = [messages EXCEPT ![room[r]] = Append(messages[room[r]], r)]
          /\ UNCHANGED <<req, room>>
      BY <1>1 DEF Publish, TypeInv, HoldsRoom
    <2>2. ASSUME NEW n \in 1 .. Len(messages[o])
          PROVE  messages[o][n] \in Requests /\ pc'[messages[o][n]] = "done"
      BY <1>0, <2>1, EntryType DEF LogInv
    <2>3. CASE o = room[r]
      <3>1. Publishers(o)' = Publishers(o) \cup {r}
        BY <1>0, <2>1, <2>3 DEF Publishers, Finished, IsBroadcast
      <3>2. r \notin Publishers(o) /\ Publishers(o) \subseteq Requests
        BY <2>1 DEF Publishers, Finished
      <3>3. Cardinality(Publishers(o)') = Cardinality(Publishers(o)) + 1
        BY <3>1, <3>2, OneMore
      <3>4. messages'[o] = Append(messages[o], r)
        BY <1>0, <2>1, <2>3
      <3>5. /\ Len(messages'[o]) = Len(messages[o]) + 1
            /\ Len(messages[o]) \in Nat
            /\ \A n \in 1 .. Len(messages[o]) : messages'[o][n] = messages[o][n]
            /\ messages'[o][Len(messages[o]) + 1] = r
        BY <1>0, <3>4, AppendFacts
      <3>6. pc'[r] = "done"
        BY <1>0, <2>1
      <3>7. ASSUME NEW n \in 1 .. Len(messages'[o])
            PROVE  pc'[messages'[o][n]] = "done"
        <4>1. n \in 1 .. Len(messages[o]) \/ n = Len(messages[o]) + 1
          BY <3>5
        <4>2. QED
          BY <2>2, <3>5, <3>6, <4>1
      <3>8. QED
        BY <3>3, <3>5, <3>7 DEF LogInv
    <2>4. CASE o # room[r]
      <3>1. Publishers(o)' = Publishers(o) /\ messages'[o] = messages[o]
        BY <1>0, <2>1, <2>4 DEF Publishers, Finished, IsBroadcast
      <3>2. QED
        BY <2>2, <3>1 DEF LogInv
    <2>5. QED
      BY <2>3, <2>4
  <1>2. CASE /\ \A o : Publishers(o)' = Publishers(o)
             /\ UNCHANGED messages
    <2>1. ASSUME NEW o \in Requests, NEW n \in 1 .. Len(messages[o])
          PROVE  pc'[messages[o][n]] = "done"
      <3>1. messages[o][n] \in Requests /\ pc[messages[o][n]] = "done"
        BY <1>0, EntryType DEF LogInv
      <3>2. QED
        BY <3>1, WhoFinishes
    <2>2. QED
      BY <1>2, <2>1 DEF LogInv
  <1>3. QED
    BY <1>1, <1>2, WhoFinishes DEF LogInv

(* No room gives one index to two requests. *)
THEOREM IndicesNeverShared == Spec => []IndicesUnique
  <1>1. IndexInv => IndicesUnique
    BY DEF IndexInv
  <1>2. QED
    BY <1>1, InitIndexAndLog, NextIndexInv, TypeInvariant, PTL DEF Spec

LEMMA LogInvariant == Spec => []LogInv
  BY InitIndexAndLog, NextLogInv, TypeInvariant, PTL DEF Spec

-----------------------------------------------------------------------------
(* The server's rooms are the feeds of RoomFeed: every step of a handler   *)
(* is a step of a feed, or one its clients cannot see.                     *)

Place == [r \in Requests |-> At(r)]

(* A handler on its way to a room is nowhere, for the feed. *)
LEMMA LookupUnseen ==
    ASSUME TypeInv, NEW r \in Requests, Arrive(r) \/ GetRoom(r)
    PROVE  UNCHANGED <<messages, Place, next_event, delivered>>
  <1>1. UNCHANGED <<req, messages, next_event, delivered>>
    BY DEF Arrive, GetRoom, GetWatched, InsertRoom, CheckAgain, ReplaceRoom
  <1>2. /\ pc[r] \in {"idle", "lookup", "create", "replace"}
        /\ pc'[r] \in {"lookup", "create", "replace", "have"}
        /\ \A s \in Requests \ {r} : pc'[s] = pc[s] /\ room'[s] = room[s]
    BY DEF Arrive, GetRoom, GetWatched, InsertRoom, CheckAgain, ReplaceRoom,
           TypeInv, TypeOK
  <1>3. \A s \in Requests : At(s)' = At(s)
    BY <1>1, <1>2 DEF At, Live, IsSubscribe
  <1>4. QED
    BY <1>1, <1>3 DEF Place

(* A step that moves no stream to or from a room keeps every place. *)
LEMMA PlaceKept ==
    ASSUME NEW r \in Requests, UNCHANGED <<req, room>>,
           \A s \in Requests \ {r} : pc'[s] = pc[s],
           \/ Live(r) /\ Live(r)'
           \/ ~IsSubscribe(r) /\ ~Live(r) /\ ~Live(r)'
    PROVE  UNCHANGED Place
  <1>1. \A s \in Requests : At(s)' = At(s)
    BY DEF At, Live, IsSubscribe
  <1>2. QED
    BY <1>1 DEF Place

LEMMA InitFeed == Init => Feed!Init
  <1> SUFFICES ASSUME Init PROVE Feed!Init
    OBVIOUS
  <1>1. \A r \in Requests : At(r) = NoRoom
    BY DEF Init, At, Live
  <1>2. QED
    BY <1>1 DEF Init, Feed!Init

LEMMA SubscribeAttaches ==
    ASSUME TypeInv, NEW r \in Requests, Subscribe(r)
    PROVE  Feed!Next
  <1>1. /\ room[r] \in Requests /\ pc[r] = "have"
        /\ pc' = [pc EXCEPT ![r] = "poll"]
        /\ pc = [s \in Requests |-> pc[s]]
        /\ next_event' = [next_event EXCEPT ![r] = FirstEvent(r)]
        /\ next_event = [s \in Requests |-> next_event[s]]
        /\ UNCHANGED <<req, room, messages, delivered>>
    BY DEF Subscribe, TypeInv, TypeOK, HoldsRoom
  <1>2. FirstEvent(r) \in Nat
    BY FirstEventType DEF Subscribe, TypeInv, U16
  <1>3. Place[r] = NoRoom /\ At(r)' = room[r]
    BY <1>1 DEF Place, At, Live
  <1>4. \A s \in Requests \ {r} : At(s)' = At(s)
    BY <1>1 DEF At, Live, IsSubscribe
  <1>5. Place' = [Place EXCEPT ![r] = room[r]]
    BY <1>3, <1>4 DEF Place
  <1>6. Feed!Attach(r, room[r])
    BY <1>1, <1>2, <1>3, <1>5 DEF Feed!Attach, Place
  <1>7. QED
    BY <1>1, <1>6 DEF Feed!Next

LEMMA PublishWrites ==
    ASSUME TypeInv, LogInv, NEW r \in Requests, Publish(r)
    PROVE  Feed!Next
  <1>1. /\ room[r] \in Requests /\ pc[r] = "have" /\ ~IsSubscribe(r)
        /\ pc' = [pc EXCEPT ![r] = "done"]
        /\ messages' = [messages EXCEPT ![room[r]] = Append(@, r)]
        /\ UNCHANGED <<req, room, next_event, delivered>>
        /\ pc = [s \in Requests |-> pc[s]]
    BY DEF Publish, TypeInv, TypeOK, HoldsRoom, IsBroadcast, IsSubscribe
  <1>2. \A q \in Requests : \A n \in 1 .. Len(messages[q]) : messages[q][n] # r
    BY <1>1 DEF LogInv
  <1>3. UNCHANGED Place
    <2>1. ~Live(r) /\ ~Live(r)'
      BY <1>1 DEF Live
    <2>2. \A s \in Requests \ {r} : pc'[s] = pc[s]
      BY <1>1
    <2>3. QED
      BY <1>1, <2>1, <2>2, PlaceKept
  <1>4. Feed!Write(r, room[r])
    BY <1>1, <1>2, <1>3 DEF Feed!Write, Place
  <1>5. QED
    BY <1>1, <1>4 DEF Feed!Next

(* The log is shorter than Width, so `event_id + 1` does not wrap. *)
LEMMA YieldReads ==
    ASSUME TypeInv, LogInv, NEW r \in Requests, PollHit(r)
    PROVE  Feed!Next
  <1>1. /\ room[r] \in Requests /\ pc[r] = "poll" /\ HasNext(r)
        /\ next_event[r] \in U16
        /\ delivered' = [delivered EXCEPT ![r] =
             Append(@, [id  |-> next_event[r],
                        msg |-> messages[room[r]][next_event[r] + 1]])]
        /\ next_event' = [next_event EXCEPT ![r] = Succ(next_event[r])]
        /\ UNCHANGED <<req, pc, room, messages>>
    BY DEF PollHit, TypeInv, TypeOK, HoldsRoom
  <1>2. Place[r] = room[r] /\ UNCHANGED Place
    BY <1>1 DEF Place, At, Live, IsSubscribe
  <1>3. Succ(next_event[r]) = next_event[r] + 1
    <2>1. Publishers(room[r]) \subseteq Requests
      BY DEF Publishers, Finished
    <2>2. Len(messages[room[r]]) < Width /\ Len(messages[room[r]]) \in Nat
      BY <1>1, <2>1, SomeRequests DEF LogInv
    <2>3. QED
      BY <1>1, <2>2, WidthAssumption DEF HasNext, U16, Succ
  <1>4. Feed!Read(r)
    BY <1>1, <1>2, <1>3 DEF Feed!Read, Place, HasNext
  <1>5. QED
    BY <1>4 DEF Feed!Next

LEMMA DropDetaches ==
    ASSUME TypeInv, NEW r \in Requests, DropStream(r)
    PROVE  Feed!Next
  <1>1. /\ room[r] \in Requests /\ IsSubscribe(r)
        /\ pc[r] \in {"poll", "wait"}
        /\ pc' = [pc EXCEPT ![r] = "done"]
        /\ pc = [s \in Requests |-> pc[s]]
        /\ UNCHANGED <<req, room, messages, next_event, delivered>>
    BY DEF DropStream, TypeInv, TypeOK, HoldsRoom, OnlyStreamsPoll
  <1>2. Place[r] = room[r] /\ At(r)' = Left
    BY <1>1 DEF Place, At, Live, IsSubscribe
  <1>3. \A s \in Requests \ {r} : At(s)' = At(s)
    BY <1>1 DEF At, Live, IsSubscribe
  <1>4. Place' = [Place EXCEPT ![r] = Left]
    BY <1>2, <1>3 DEF Place
  <1>5. Feed!Detach(r)
    BY <1>1, <1>2, <1>4 DEF Feed!Detach, Place
  <1>6. QED
    BY <1>5 DEF Feed!Next

LEMMA StepFeed ==
    TypeInv /\ LogInv /\ [Next]_vars => [Feed!Next]_Feed!vars
  <1> SUFFICES ASSUME TypeInv, LogInv, [Next]_vars
               PROVE  Feed!Next \/ UNCHANGED <<messages, Place, next_event, delivered>>
    BY DEF Feed!vars, Place
  <1>1. ASSUME NEW r \in Requests, Arrive(r) \/ GetRoom(r)
        PROVE  UNCHANGED <<messages, Place, next_event, delivered>>
    BY <1>1, LookupUnseen
  <1>2. ASSUME NEW r \in Requests, IssueIdx(r)
        PROVE  UNCHANGED <<messages, Place, next_event, delivered>>
    <2>1. /\ UNCHANGED <<req, room, messages, next_event, delivered>>
          /\ ~IsSubscribe(r) /\ ~Live(r) /\ ~Live(r)'
          /\ \A s \in Requests \ {r} : pc'[s] = pc[s]
      BY <1>2 DEF IssueIdx, IsIssue, IsSubscribe, Live, TypeInv, TypeOK
    <2>2. QED
      BY <2>1, PlaceKept
  <1>3. ASSUME NEW r \in Requests, PollMiss(r) \/ Register(r) \/ Wake(r)
        PROVE  UNCHANGED <<messages, Place, next_event, delivered>>
    <2>1. /\ UNCHANGED <<req, room, messages, next_event, delivered>>
          /\ Live(r) /\ Live(r)'
          /\ \A s \in Requests \ {r} : pc'[s] = pc[s]
      BY <1>3 DEF PollMiss, Register, Wake, Live, TypeInv, TypeOK
    <2>2. QED
      BY <2>1, PlaceKept
  <1>4. CASE UNCHANGED vars
    BY <1>4 DEF vars, Place, At, Live, IsSubscribe
  <1>5. QED
    BY <1>1, <1>2, <1>3, <1>4, SubscribeAttaches, PublishWrites, YieldReads,
       DropDetaches DEF Next, Poll

(* The server's rooms implement append-only feeds, each reader at its own  *)
(* pace: no interleaving of handlers, locks, wakeups and dropped streams   *)
(* shows a client anything else.                                           *)
THEOREM RoomsAreFeeds == Spec => ImplementsFeed
  BY InitFeed, StepFeed, TypeInvariant, LogInvariant, PTL
     DEF Spec, ImplementsFeed, Feed!Spec

=============================================================================
