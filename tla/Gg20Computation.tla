-------------------------- MODULE Gg20Computation --------------------------
(***************************************************************************)
(* A GG20 key generation or signature as its parties see it: clients of    *)
(* the rooms of the manager (src/src/ecdsa/gg_2020/sm_client.rs) that run  *)
(* the round-based protocol (external) over them, in one room for          *)
(* keygen.rs, and in an offline and an online room for sign.rs.            *)
(*                                                                         *)
(* A request to the manager is one step here; RoomDb is about requests     *)
(* that interleave.  A call is named by the index its request gives it     *)
(* (keygen), or by the place in `parties` of the share it signs with.      *)
(***************************************************************************)
EXTENDS Naturals, Sequences, FiniteSets

CONSTANTS
    N,            \* the number of parties
    Rounds,       \* what a party sends in each round of a key generation, and
                  \*   of the offline stage of a signature
    MaxFaults     \* how many streams, calls and managers may fail

ASSUME PartiesAssumption == N \in Nat \ {0, 1}
ASSUME RoundsAssumption  ==
    \A k \in {"keygen", "sign"} :
        Rounds[k] \in Seq({"broadcast", "p2p"}) /\ Rounds[k] # <<>>
ASSUME FaultsAssumption  == MaxFaults \in Nat

VARIABLES
    kind,         \* what is computed: a key or a signature
    pc,           \* where each call stands
    at,           \* the room it is in
    index,        \* the index that room issued to it; 0 before that
    cursor,       \* how many messages of its stream it has read
    round,        \* the round it is in; the online stage is one more
    sent,         \* messages it has sent in this round
    got,          \* the messages that completed its last round
    rooms,        \* the rooms of the manager
    linked,       \* the streams that are open, <<call, room>>
    faults        \* faults so far

vars == <<kind, pc, at, index, cursor, round, sent, got, rooms, linked, faults>>

Callers   == 1 .. N
RoomNames == {"first", "online"}   \* "first": the room of keygen, or "-offline"
All       == 0                     \* `receiver: None`
Last      == Len(Rounds[kind])

Message == [sender: 1 .. N, receiver: {All} \cup 1 .. N, round: Nat, of: Callers]

EmptyRoom == [messages |-> <<>>, watchers |-> {}, next_idx |-> 1]

(* Faulty: a room is never found again. *)
FoundFresh(x) == EmptyRoom

(* The room a request finds under a name: a new one if nobody watches it.  *)
Found(x) == IF rooms[x].watchers = {} THEN EmptyRoom ELSE rooms[x]

(* The party a call is in the protocol, and in the messages it sends.      *)
PartyInd(c) == IF kind = "keygen" THEN c ELSE index[c]

Init ==
    /\ kind \in {"keygen", "sign"}
    /\ pc = [c \in Callers |-> "subscribe"]
    /\ at = [c \in Callers |-> "first"]
    /\ index = [c \in Callers |-> 0]
    /\ cursor = [c \in Callers |-> 0]
    /\ round = [c \in Callers |-> 1]
    /\ sent = [c \in Callers |-> 0]
    /\ got = [c \in Callers |-> {}]
    /\ rooms = [x \in RoomNames |-> EmptyRoom]
    /\ linked = {}
    /\ faults = 0

-----------------------------------------------------------------------------
(* join_computation.  Joining the first room is also the request that asks *)
(* the node for a key or a signature.                                      *)

Subscribe(c) ==
    LET x == at[c] IN
    /\ pc[c] = "subscribe"
    /\ rooms' = [rooms EXCEPT ![x] = [Found(x) EXCEPT !.watchers = @ \cup {c}]]
    /\ linked' = linked \cup {<<c, x>>}
    /\ cursor' = [cursor EXCEPT ![c] = 0]
    /\ pc' = [pc EXCEPT ![c] = "issue"]
    /\ UNCHANGED <<kind, at, index, round, sent, got, faults>>

(* Faulty: the room issues one index to all. *)
IssueSameIndex(c) ==
    LET x == at[c] IN
    /\ pc[c] = "issue"
    /\ index' = [index EXCEPT ![c] = Found(x).next_idx]
    /\ rooms' = [rooms EXCEPT ![x] = Found(x)]
    /\ pc' = [pc EXCEPT ![c] = "send"]
    /\ UNCHANGED <<kind, at, cursor, round, sent, got, linked, faults>>

(* The protocol starts as soon as the index is there. *)
IssueIndex(c) ==
    LET x == at[c] IN
    /\ pc[c] = "issue"
    /\ index' = [index EXCEPT ![c] = Found(x).next_idx]
    /\ rooms' = [rooms EXCEPT ![x] = [Found(x) EXCEPT !.next_idx = @ + 1]]
    /\ pc' = [pc EXCEPT ![c] = "send"]
    /\ UNCHANGED <<kind, at, cursor, round, sent, got, linked, faults>>

(* Faulty: a message to another party passes. *)
PassesToOthers(c, m) == m.sender # index[c]

(* Faulty: a message to all is not taken for one to c. *)
PassesToItOnly(c, m) == m.sender # index[c] /\ m.receiver = index[c]

(* try_filter: what join_computation lets through to call c. *)
Passes(c, m) == m.sender # index[c] /\ m.receiver \in {All, index[c]}

-----------------------------------------------------------------------------
(* The protocol. *)

IsP2p(r) == r <= Last /\ Rounds[kind][r] = "p2p"

(* The parties c addresses in its round, in the order it sends to them.    *)
Receivers(c) ==
    IF IsP2p(round[c])
    THEN [j \in 1 .. N - 1 |-> IF j < PartyInd(c) THEN j ELSE j + 1]
    ELSE <<All>>

(* Faulty: the messages of a round are counted one too many. *)
SendOneMore(c) ==
    LET x == at[c]
        i == sent[c] + 1
        m == [sender |-> PartyInd(c), receiver |-> All, round |-> round[c], of |-> c] IN
    /\ pc[c] = "send"
    /\ rooms' = [rooms EXCEPT ![x] = [Found(x) EXCEPT !.messages = Append(@, m)]]
    /\ sent' = [sent EXCEPT ![c] = i]
    /\ pc' = [pc EXCEPT ![c] = IF i > Len(Receivers(c)) THEN "read" ELSE "send"]
    /\ UNCHANGED <<kind, at, index, cursor, round, got, linked, faults>>

(* One POST of `outgoing`; the messages of a round go before it is read.   *)
Send(c) ==
    LET x == at[c]
        i == sent[c] + 1
        m == [sender |-> PartyInd(c), receiver |-> Receivers(c)[i],
              round |-> round[c], of |-> c] IN
    /\ pc[c] = "send"
    /\ rooms' = [rooms EXCEPT ![x] = [Found(x) EXCEPT !.messages = Append(@, m)]]
    /\ sent' = [sent EXCEPT ![c] = i]
    /\ pc' = [pc EXCEPT ![c] = IF i = Len(Receivers(c)) THEN "read" ELSE "send"]
    /\ UNCHANGED <<kind, at, index, cursor, round, got, linked, faults>>

(* The k-th message of its stream is one the protocol expects: for it, by  *)
(* another party, and the first of its round by that party.  The online    *)
(* stage takes partial signatures from whom it will.                       *)
Fits(c, k) ==
    LET log == rooms[at[c]].messages
        m   == log[k] IN
    \/ at[c] = "online"
    \/ /\ m.sender \in 1 .. N \ {PartyInd(c)}
       /\ m.receiver \in {All, PartyInd(c)}
       /\ \A j \in 1 .. k - 1 :
            Passes(c, log[j]) => <<log[j].sender, log[j].round>> # <<m.sender, m.round>>

(* What the protocol has of this round when it has read n messages.        *)
Heard(c, n) ==
    LET log == rooms[at[c]].messages IN
    {log[k] : k \in {j \in 1 .. n : /\ log[j].round = round[c]
                                   /\ Passes(c, log[j])
                                   /\ Fits(c, j)}}

(* Faulty: the party with the highest index is not awaited. *)
CompleteButLast(c, msgs) ==
    IF at[c] = "online" THEN Cardinality(msgs) = N - 1
    ELSE (1 .. N - 1) \ {PartyInd(c)} \subseteq {m.sender : m \in msgs}

(* The round is complete with a message from every other party, or with    *)
(* `number_of_parties - 1` partial signatures.                             *)
Complete(c, msgs) ==
    IF at[c] = "online" THEN Cardinality(msgs) = N - 1
    ELSE {m.sender : m \in msgs} = 1 .. N \ {PartyInd(c)}

(* The shares at the places of `parties` are those of the parties there:   *)
(* the proofs of the offline stage and the signature itself tell.          *)
Verifies(c, msgs) ==
    kind = "keygen" \/ at[c] = "online" \/ \A m \in msgs : m.sender = m.of

EndCall(c, outcome) ==
    /\ pc' = [pc EXCEPT ![c] = outcome]
    /\ linked' = {l \in linked : l[1] # c}

(* What follows when the messages of the round are complete. *)
NextRound(c, msgs) ==
    CASE round[c] < Last ->
           /\ round' = [round EXCEPT ![c] = @ + 1]
           /\ sent' = [sent EXCEPT ![c] = 0]
           /\ pc' = [pc EXCEPT ![c] = "send"]
           /\ UNCHANGED <<at, linked>>
      [] round[c] = Last /\ kind = "sign" /\ Verifies(c, msgs) ->
           /\ round' = [round EXCEPT ![c] = Last + 1]
           /\ sent' = [sent EXCEPT ![c] = 0]
           /\ at' = [at EXCEPT ![c] = "online"]
           /\ pc' = [pc EXCEPT ![c] = "subscribe"]
           /\ UNCHANGED linked
      [] OTHER ->
           /\ EndCall(c, IF Verifies(c, msgs) THEN "done" ELSE "failed")
           /\ UNCHANGED <<at, round, sent>>

(* The call reads until its round is complete.  Nobody can tell how far it *)
(* is before that, so this is one step.                                    *)
Read(c) ==
    /\ pc[c] = "read"
    /\ <<c, at[c]>> \in linked
    /\ \E n \in cursor[c] .. Len(rooms[at[c]].messages) :
         /\ Complete(c, Heard(c, n))
         /\ \A k \in cursor[c] .. n - 1 : ~Complete(c, Heard(c, k))
         /\ cursor' = [cursor EXCEPT ![c] = n]
         /\ got' = [got EXCEPT ![c] = Heard(c, n)]
         /\ NextRound(c, Heard(c, n))
    /\ UNCHANGED <<kind, index, rooms, faults>>

(* The protocol may reject what it does not expect; or it ignores it.      *)
ReadUnexpected(c) ==
    LET log == rooms[at[c]].messages IN
    /\ pc[c] = "read"
    /\ <<c, at[c]>> \in linked
    /\ \E k \in cursor[c] + 1 .. Len(log) :
         /\ Passes(c, log[k]) /\ ~Fits(c, k)
         /\ ~Complete(c, Heard(c, k - 1))
    /\ EndCall(c, "failed")
    /\ UNCHANGED <<kind, at, index, cursor, round, sent, got, rooms, faults>>

(* A call without its stream fails, at the latest when it reads. *)
Fail(c) ==
    /\ pc[c] \in {"issue", "send", "read"}
    /\ <<c, at[c]>> \notin linked
    /\ EndCall(c, "failed")
    /\ UNCHANGED <<kind, at, index, cursor, round, sent, got, rooms, faults>>

-----------------------------------------------------------------------------
(* What the network, the nodes and the manager may do. *)

(* The manager notices that a stream is gone. *)
DropStream(c, x) ==
    /\ c \in rooms[x].watchers
    /\ <<c, x>> \notin linked
    /\ rooms' = [rooms EXCEPT ![x].watchers = @ \ {c}]
    /\ UNCHANGED <<kind, pc, at, index, cursor, round, sent, got, linked, faults>>

(* The streams of a call break, alone or with its node: it may go on       *)
(* sending, or fail at once.  A stream is not opened again.                *)
Break(c) ==
    /\ faults < MaxFaults
    /\ \E x \in RoomNames : <<c, x>> \in linked
    /\ linked' = {l \in linked : l[1] # c}
    /\ faults' = faults + 1
    /\ UNCHANGED <<kind, pc, at, index, cursor, round, sent, got, rooms>>

(* The manager restarts without its rooms. *)
Restart ==
    /\ faults < MaxFaults
    /\ rooms' = [x \in RoomNames |-> EmptyRoom]
    /\ linked' = {}
    /\ faults' = faults + 1
    /\ UNCHANGED <<kind, pc, at, index, cursor, round, sent, got>>

Fault == Restart \/ \E c \in Callers : Break(c)

(* The steps of a call once it has joined. *)
Proceed(c) == IssueIndex(c) \/ Send(c) \/ Read(c) \/ ReadUnexpected(c) \/ Fail(c)

Next ==
    \/ \E c \in Callers : Subscribe(c) \/ Proceed(c)
    \/ \E c \in Callers, x \in RoomNames : DropStream(c, x)
    \/ Fault

Spec == Init /\ [][Next]_vars

(* The gateway asks node i to begin after i * request_delay.  When that is *)
(* long enough, a call joins the first room once those before it have.     *)
InTurn(c) == at[c] = "first" => \A d \in 1 .. c - 1 : index[d] # 0 \/ pc[d] = "failed"

JoinInTurn(c) == InTurn(c) /\ Subscribe(c)

StaggeredNext ==
    \/ \E c \in Callers : JoinInTurn(c) \/ Proceed(c)
    \/ \E c \in Callers, x \in RoomNames : DropStream(c, x)
    \/ Fault

(* The task of a call is polled and its requests are answered.  Nothing    *)
(* obliges a node to be called, or the manager to notice a lost stream.    *)
Called(c) == at[c] = "online" \/ pc[c] # "subscribe"

StaggeredSpec ==
    /\ Init
    /\ [][StaggeredNext]_vars
    /\ \A c \in Callers : WF_vars(Called(c) /\ (Subscribe(c) \/ Proceed(c)))

-----------------------------------------------------------------------------
TypeOK ==
    /\ kind \in {"keygen", "sign"}
    /\ pc \in [Callers -> {"subscribe", "issue", "send", "read", "done", "failed"}]
    /\ at \in [Callers -> RoomNames]
    /\ index \in [Callers -> 0 .. N]
    /\ cursor \in [Callers -> Nat]
    /\ round \in [Callers -> 1 .. Last + 1]
    /\ sent \in [Callers -> 0 .. N - 1]
    /\ got \in [Callers -> SUBSET Message]
    /\ DOMAIN rooms = RoomNames
    /\ \A x \in RoomNames :
         /\ rooms[x].messages \in Seq(Message)
         /\ rooms[x].watchers \subseteq Callers
         /\ rooms[x].next_idx \in 1 .. N + 1
    /\ linked \subseteq Callers \X RoomNames
    /\ faults \in 0 .. MaxFaults

Joined(c) == pc[c] \in {"send", "read"}

(* "Ignore incoming messages addressed to someone else": the messages the  *)
(* filter of join_computation keeps from a party are its own and those to  *)
(* others, not one that its protocol waits for.  The filter goes by the    *)
(* index the room issued, the protocol of keygen by the index of the       *)
(* request: they are the same only if the parties join in turn.            *)
OnlyOthersIgnored ==
    \A c \in Callers : Joined(c) /\ faults = 0 =>
        \A n \in 1 .. Len(rooms[at[c]].messages) :
            LET m == rooms[at[c]].messages[n] IN
            m.sender # PartyInd(c) /\ m.receiver \in {All, PartyInd(c)} => Passes(c, m)

(* No message is lost between two parties: what one has sent to a room is  *)
(* there for the other to read, or it has read it, whoever of them joined  *)
(* the room first, and whoever has left it since.  So a party that ends    *)
(* its offline stage late finds the partial signatures of the others, and  *)
(* no request replaces a room under a computation.                         *)
HasSent(d, c, r) ==
    \/ round[d] > r
    \/ round[d] = r /\ IF IsP2p(r) THEN \E i \in 1 .. sent[d] : Receivers(d)[i] = PartyInd(c)
                                   ELSE sent[d] = 1

NothingMissed ==
    \A c, d \in Callers : Joined(c) /\ c # d /\ faults = 0 =>
        LET log == rooms[at[c]].messages IN
        HasSent(d, c, round[c]) =>
            \E n \in 1 .. Len(log) :
                /\ log[n].of = d /\ log[n].round = round[c]
                /\ n > cursor[c] \/ log[n] \in Heard(c, cursor[c])

(* Of parties that join in turn none fails unless something else does: the *)
(* protocol never meets a message it does not expect, and every share is   *)
(* at its place.                                                           *)
NobodyFails == \A c \in Callers : pc[c] = "failed" => faults > 0

(* All or nothing, whatever fails: a call returns a key or a signature     *)
(* only if every other party has contributed to its last round.            *)
NoneWithoutAll ==
    \A c, d \in Callers : pc[c] = "done" /\ c # d =>
        \E m \in got[c] : m.of = d /\ m.round = round[c]

(* Once all parties are called and join in turn, all return, in whatever   *)
(* order they go through the rounds and into the online room.              *)
ComputationsFinish ==
    (\A c \in Callers : Called(c)) ~> (faults > 0 \/ \A c \in Callers : pc[c] = "done")

=============================================================================
