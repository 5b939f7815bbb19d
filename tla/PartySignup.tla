---------------------------- MODULE PartySignup ----------------------------
(***************************************************************************)
(* How the parties of a GG18 computation get their numbers:                *)
(* StoreCommunity::get_party_signup over the shared map of the manager     *)
(* server (src/src/ecdsa/gg_2018/adapter.rs), called in place by the       *)
(* centralized handlers and over HTTP, with retries, by ApiCommunity       *)
(* (src/src/api/ecdsa/gg_2018/adapter.rs).                                 *)
(*                                                                         *)
(* The map is read under its read lock and written under its write lock,   *)
(* and the lock is free in between.  `Spec` lets callers meet there, as    *)
(* the tasks of the manager do; `SequentialSpec` does not, as the futures  *)
(* of one centralized request do not: nothing suspends between the two     *)
(* locks, and they all run in one task.                                    *)
(***************************************************************************)
EXTENDS Naturals, FiniteSets

CONSTANTS
    Callers,       \* the parties that sign up, one call of keygen or sign each
    Rooms,         \* the keys they sign up under
    Counts,        \* values of the `parties` field of their requests
    MaxAttempts,   \* how often ApiCommunity::post sends a request: 9 in the code
    NoEntry,       \* an absent key
    Refused        \* Err(()), or the error body it becomes

ASSUME CallersAssumption  == IsFiniteSet(Callers)
ASSUME CountsAssumption   == Counts \subseteq Nat
ASSUME AttemptsAssumption == MaxAttempts \in Nat \ {0}

VARIABLES
    room, num,     \* what each caller asks for; chosen once
    pc,            \* where each call stands
    store,         \* the signup entries of the map
    candidate,     \* `party_signup` between the two locks
    reply,         \* the last answer the store gave each caller
    attempts,      \* requests each caller has sent
    lost           \* signups the map counts whose answers never arrived

vars == <<room, num, pc, store, candidate, reply, attempts, lost>>

Uuids  == Callers \X (1 .. MaxAttempts)
Signup == [number: Nat, uuid: Uuids]

ASSUME MarksAssumption == NoEntry # Refused /\ NoEntry \notin Signup /\ Refused \notin Signup

Init ==
    /\ room \in [Callers -> Rooms]
    /\ num \in [Callers -> Counts]
    /\ pc = [c \in Callers |-> "call"]
    /\ store = [x \in Rooms |-> NoEntry]
    /\ candidate = [c \in Callers |-> NoEntry]
    /\ reply = [c \in Callers |-> NoEntry]
    /\ attempts = [c \in Callers |-> 0]
    /\ lost = {}

(* A request for a number leaves the caller. *)
Send(c) ==
    /\ pc[c] = "call"
    /\ attempts' = [attempts EXCEPT ![c] = @ + 1]
    /\ pc' = [pc EXCEPT ![c] = "read"]
    /\ UNCHANGED <<room, num, store, candidate, reply, lost>>

(* Faulty: the numbers of a room begin at 0. *)
FirstIsZero(c) ==
    /\ pc[c] = "read"
    /\ store[room[c]] = NoEntry
    /\ candidate' = [candidate EXCEPT ![c] = [number |-> 0, uuid |-> <<c, attempts[c]>>]]
    /\ pc' = [pc EXCEPT ![c] = "write"]
    /\ UNCHANGED <<room, num, store, reply, attempts, lost>>

(* Under the read lock, three outcomes.  The uuid of a room is named by    *)
(* the caller and the attempt that generated it.                           *)
FirstOfRoom(c) ==
    /\ pc[c] = "read"
    /\ store[room[c]] = NoEntry
    /\ candidate' = [candidate EXCEPT ![c] = [number |-> 1, uuid |-> <<c, attempts[c]>>]]
    /\ pc' = [pc EXCEPT ![c] = "write"]
    /\ UNCHANGED <<room, num, store, reply, attempts, lost>>

NextOfRoom(c) ==
    LET e == store[room[c]] IN
    /\ pc[c] = "read"
    /\ e # NoEntry
    /\ e.number < num[c]
    /\ candidate' = [candidate EXCEPT ![c] = [e EXCEPT !.number = @ + 1]]
    /\ pc' = [pc EXCEPT ![c] = "write"]
    /\ UNCHANGED <<room, num, store, reply, attempts, lost>>

RoomFull(c) ==
    LET e == store[room[c]] IN
    /\ pc[c] = "read"
    /\ e # NoEntry
    /\ e.number >= num[c]
    /\ reply' = [reply EXCEPT ![c] = Refused]
    /\ pc' = [pc EXCEPT ![c] = "replied"]
    /\ UNCHANGED <<room, num, store, candidate, attempts, lost>>

(* Faulty: the caller is answered and the map is left as it was. *)
WriteNothing(c) ==
    /\ pc[c] = "write"
    /\ reply' = [reply EXCEPT ![c] = candidate[c]]
    /\ pc' = [pc EXCEPT ![c] = "replied"]
    /\ UNCHANGED <<room, num, store, candidate, attempts, lost>>

(* Under the write lock: the entry is overwritten with what was computed. *)
Write(c) ==
    /\ pc[c] = "write"
    /\ store' = [store EXCEPT ![room[c]] = candidate[c]]
    /\ reply' = [reply EXCEPT ![c] = candidate[c]]
    /\ pc' = [pc EXCEPT ![c] = "replied"]
    /\ UNCHANGED <<room, num, candidate, attempts, lost>>

(* The answer reaches the caller, which unwraps it. *)
Receive(c) ==
    /\ pc[c] = "replied"
    /\ pc' = [pc EXCEPT ![c] = IF reply[c] = Refused THEN "panicked" ELSE "party"]
    /\ UNCHANGED <<room, num, store, candidate, reply, attempts, lost>>

Numbered(c) == reply[c] \notin {NoEntry, Refused}

(* Faulty: one attempt too many. *)
LoseReplyOnceMore(c) ==
    /\ pc[c] = "replied"
    /\ lost' = IF Numbered(c) THEN lost \cup {<<room[c], reply[c]>>} ELSE lost
    /\ reply' = [reply EXCEPT ![c] = NoEntry]
    /\ pc' = [pc EXCEPT ![c] = IF attempts[c] <= MaxAttempts THEN "call"
                                                          ELSE "panicked"]
    /\ UNCHANGED <<room, num, store, candidate, attempts>>

(* The body of the answer does not arrive whole: ApiCommunity::post sends  *)
(* the request again, and gives up after the last attempt.                 *)
LoseReply(c) ==
    /\ pc[c] = "replied"
    /\ lost' = IF Numbered(c) THEN lost \cup {<<room[c], reply[c]>>} ELSE lost
    /\ reply' = [reply EXCEPT ![c] = NoEntry]
    /\ pc' = [pc EXCEPT ![c] = IF attempts[c] < MaxAttempts THEN "call"
                                                         ELSE "panicked"]
    /\ UNCHANGED <<room, num, store, candidate, attempts>>

Read(c) == FirstOfRoom(c) \/ NextOfRoom(c) \/ RoomFull(c)

Next ==
    \E c \in Callers : Send(c) \/ Read(c) \/ Write(c) \/ Receive(c) \/ LoseReply(c)

Spec == Init /\ [][Next]_vars

(* Nobody reads the map between another caller's two locks. *)
Alone(c) == \A d \in Callers : pc[d] # "write"

SequentialNext ==
    \E c \in Callers :
        \/ Send(c)
        \/ Alone(c) /\ Read(c)
        \/ Write(c)
        \/ Receive(c)
        \/ LoseReply(c)

SequentialSpec == Init /\ [][SequentialNext]_vars

-----------------------------------------------------------------------------
TypeOK ==
    /\ room \in [Callers -> Rooms]
    /\ num \in [Callers -> Counts]
    /\ pc \in [Callers -> {"call", "read", "write", "replied", "party", "panicked"}]
    /\ store \in [Rooms -> Signup \cup {NoEntry}]
    /\ candidate \in [Callers -> Signup \cup {NoEntry}]
    /\ reply \in [Callers -> Signup \cup {NoEntry, Refused}]
    /\ attempts \in [Callers -> 0 .. MaxAttempts]
    /\ lost \in SUBSET (Rooms \X Signup)

(* No two parties of one room hold the same number, and they agree on the  *)
(* uuid that prefixes the keys of their messages: what the repository's    *)
(* test of two signups in a row asserts.  Get_party_signup ensures it only *)
(* while its callers stay out of each other's way.                         *)
DistinctParties ==
    \A c, d \in Callers :
        Numbered(c) /\ Numbered(d) /\ room[c] = room[d] /\ c # d
          => /\ reply[c].number # reply[d].number
             /\ reply[c].uuid = reply[d].uuid

(* The entry of a room counts the signups it has served: the numbers up to *)
(* it have been given out, each to a caller that holds it or in an answer  *)
(* that was lost, and no other.  A number that was lost is never given out *)
(* again, so the parties of that room wait for it for ever.                *)
NumbersGiven(x) ==
    {reply[c].number : c \in {d \in Callers : room[d] = x /\ Numbered(d)}}

NumbersLost(x) == {l[2].number : l \in {m \in lost : m[1] = x}}

NumbersAccounted ==
    \A x \in Rooms :
        /\ NumbersGiven(x) \cap NumbersLost(x) = {}
        /\ NumbersGiven(x) \cup NumbersLost(x)
             = IF store[x] = NoEntry THEN {} ELSE 1 .. store[x].number

(* A room never numbers a caller beyond the count the caller asked for. *)
WithinCount ==
    \A c \in Callers : Numbered(c) => reply[c].number = 1 \/ reply[c].number <= num[c]

=============================================================================
