------------------------------ MODULE RoomFeed ------------------------------
(***************************************************************************)
(* What a client may rely on from the rooms of the manager server: a room  *)
(* is an append-only log, and a reader attached to a room reads it from a  *)
(* position of its choice, in order, each entry once, at any pace, however *)
(* many others read and write.  A reader is attached to one room, and to   *)
(* none after it left; it never moves to another.  RoomDb, the server's    *)
(* code, implements this specification.                                    *)
(***************************************************************************)
EXTENDS Naturals, Sequences

CONSTANTS
    Readers, Writers, Rooms,
    Detached,     \* the place of a reader not yet attached
    Departed      \* the place of a reader that has left its room

VARIABLES
    log,      \* the messages of each room
    at,       \* the room each reader is attached to, or Detached or Departed
    cursor,   \* the position of the entry each reader reads next, from 0
    seen      \* what each reader has read: positions and messages

vars == <<log, at, cursor, seen>>

Init ==
    /\ log = [o \in Rooms |-> <<>>]
    /\ at = [r \in Readers |-> Detached]
    /\ cursor = [r \in Readers |-> 0]
    /\ seen = [r \in Readers |-> <<>>]

Write(w, o) ==
    /\ \A q \in Rooms : \A n \in 1 .. Len(log[q]) : log[q][n] # w
    /\ log' = [log EXCEPT ![o] = Append(@, w)]
    /\ UNCHANGED <<at, cursor, seen>>

Attach(r, o) ==
    /\ at[r] = Detached
    /\ at' = [at EXCEPT ![r] = o]
    /\ cursor'[r] \in Nat
    /\ cursor' = [cursor EXCEPT ![r] = cursor'[r]]
    /\ UNCHANGED <<log, seen>>

Read(r) ==
    /\ at[r] \in Rooms
    /\ cursor[r] < Len(log[at[r]])
    /\ seen' = [seen EXCEPT ![r] =
                  Append(@, [id |-> cursor[r], msg |-> log[at[r]][cursor[r] + 1]])]
    /\ cursor' = [cursor EXCEPT ![r] = cursor[r] + 1]
    /\ UNCHANGED <<log, at>>

Detach(r) ==
    /\ at[r] \in Rooms
    /\ at' = [at EXCEPT ![r] = Departed]
    /\ UNCHANGED <<log, cursor, seen>>

Next ==
    \/ \E w \in Writers, o \in Rooms : Write(w, o)
    \/ \E r \in Readers, o \in Rooms : Attach(r, o)
    \/ \E r \in Readers : Read(r)
    \/ \E r \in Readers : Detach(r)

Spec == Init /\ [][Next]_vars
=============================================================================
