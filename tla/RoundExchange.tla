--------------------------- MODULE RoundExchange ---------------------------
(***************************************************************************)
(* How the parties of a GG18 computation exchange the values of a round    *)
(* (src/src/ecdsa/gg_2018/common.rs) through the shared map of the         *)
(* manager (src/src/ecdsa/gg_2018/adapter.rs): every party writes its      *)
(* values under keys made of its number, the round and the uuid of the     *)
(* computation, and polls for the keys of the others, one after the other  *)
(* and without a time limit.                                               *)
(*                                                                         *)
(* Gg18Keygen and Gg18Sign extend this module with what is exchanged.      *)
(* A signup reads the map under one lock and writes it under another:      *)
(* callers that meet in between may get one number twice, or a computation *)
(* each.  Retries of a signup are in PartySignup.                          *)
(***************************************************************************)
EXTENDS Naturals, Sequences, FiniteSets

CONSTANTS
    Callers,       \* one call of keygen or sign each; a uuid is named by the
                   \*   caller whose signup generated it
    Counts,        \* values of the `parties` field of their requests
    MaxRestarts,   \* how often the manager restarts; its map is in memory
    NoUuid         \* the uuid of a caller that has none

ASSUME CallersAssumption  == IsFiniteSet(Callers) /\ NoUuid \notin Callers
ASSUME CountsAssumption   == Counts \subseteq Nat \ {0}
ASSUME RestartsAssumption == MaxRestarts \in Nat

VARIABLES
    parties,       \* the `parties` of each call; chosen once
    pc,            \* where each call stands
    number, uuid,  \* its PartySignup; number 0 before that
    round,         \* the round it is in
    peer,          \* the loop variable `i` of the round's sends, then reads
    ans_vec,       \* the answers read in this round
    entry,         \* the PartySignup the map holds for the room
    candidate,     \* `party_signup` of each call between the two locks
    store,         \* the values the map holds
    restarts,      \* restarts of the manager so far
    live           \* history: the uuids generated since the last of them

exchangeVars == <<parties, pc, number, uuid, round, peer, ans_vec, entry,
                  candidate, store, restarts, live>>

NoEntry == [number |-> 0, uuid |-> NoUuid]

All == 0   \* the recipient of a broadcast

(* Faulty: the uuid of the computation is left out of the key. *)
SharedKey(c, from, to, r) == <<NoUuid, from, to, r>>

(* Faulty: the round is left out of the key. *)
RoundlessKey(c, from, to, r) == <<uuid[c], from, to, 0>>

(* The keys "{from}-{round}-{uuid}" and "{from}-{to}-{round}-{uuid}", as    *)
(* caller c forms them.                                                    *)
Key(c, from, to, r) == <<uuid[c], from, to, r>>

Put(k, v) == [x \in DOMAIN store \cup {k} |-> IF x = k THEN v ELSE store[x]]

(* The first party from i on that is not c itself. *)
Other(c, i) == IF i = number[c] THEN i + 1 ELSE i

ExchangeInit(first) ==
    /\ parties \in [Callers -> Counts]
    /\ pc = [c \in Callers |-> "signup"]
    /\ number = [c \in Callers |-> 0]
    /\ uuid = [c \in Callers |-> NoUuid]
    /\ round = [c \in Callers |-> first]
    /\ peer = [c \in Callers |-> 0]
    /\ ans_vec = [c \in Callers |-> <<>>]
    /\ entry = NoEntry
    /\ candidate = [c \in Callers |-> NoEntry]
    /\ store = [k \in {} |-> NoUuid]
    /\ restarts = 0
    /\ live = {}

(* adapter.get_party_signup(parties, room_id).await.unwrap().  Under the   *)
(* read lock: the first number, the next, or none.                         *)
ReadSignup(c) ==
    /\ pc[c] = "signup"
    /\ \/ /\ entry = NoEntry
          /\ candidate' = [candidate EXCEPT ![c] = [number |-> 1, uuid |-> c]]
          /\ live' = live \cup {c}
          /\ pc' = [pc EXCEPT ![c] = "write"]
       \/ /\ entry # NoEntry /\ entry.number < parties[c]
          /\ candidate' = [candidate EXCEPT ![c] = [entry EXCEPT !.number = @ + 1]]
          /\ pc' = [pc EXCEPT ![c] = "write"]
          /\ UNCHANGED live
       \/ /\ entry # NoEntry /\ entry.number >= parties[c]
          /\ pc' = [pc EXCEPT ![c] = "panicked"]
          /\ UNCHANGED <<candidate, live>>
    /\ UNCHANGED <<parties, number, uuid, round, peer, ans_vec, entry, store,
                   restarts>>

(* Under the write lock: the entry is overwritten with what was computed.  *)
WriteSignup(c) ==
    /\ pc[c] = "write"
    /\ entry' = candidate[c]
    /\ number' = [number EXCEPT ![c] = candidate[c].number]
    /\ uuid' = [uuid EXCEPT ![c] = candidate[c].uuid]
    /\ peer' = [peer EXCEPT ![c] = IF candidate[c].number = 1 THEN 2 ELSE 1]
    /\ pc' = [pc EXCEPT ![c] = "send"]
    /\ UNCHANGED <<parties, round, ans_vec, candidate, store, restarts, live>>

SignUp(c) == ReadSignup(c) \/ WriteSignup(c)

(* Faulty: what opens a commitment is sent along with it. *)
BroadcastAhead(c, value) ==
    /\ pc[c] = "send"
    /\ LET next == IF round[c] = 0 THEN 0 ELSE round[c] + 1
           ahead == Key(c, number[c], All, next) IN
       store' = [k \in DOMAIN store \cup {Key(c, number[c], All, round[c]), ahead} |->
                   IF k \in DOMAIN store THEN store[k] ELSE value]
    /\ peer' = [peer EXCEPT ![c] = Other(c, 1)]
    /\ pc' = [pc EXCEPT ![c] = "poll"]
    /\ UNCHANGED <<parties, number, uuid, round, ans_vec, entry, candidate,
                   restarts, live>>

Broadcast(c, value) ==
    /\ pc[c] = "send"
    /\ store' = Put(Key(c, number[c], All, round[c]), value)
    /\ peer' = [peer EXCEPT ![c] = Other(c, 1)]
    /\ pc' = [pc EXCEPT ![c] = "poll"]
    /\ UNCHANGED <<parties, number, uuid, round, ans_vec, entry, candidate,
                   restarts, live>>

(* Faulty: the recipient comes before the sender in the key. *)
SendP2pReversed(c, reach, value) ==
    /\ pc[c] = "send"
    /\ store' = IF peer[c] <= reach
                THEN Put(Key(c, peer[c], number[c], round[c]), value[peer[c]])
                ELSE store
    /\ LET i == Other(c, peer[c] + 1) IN
       IF i <= reach
       THEN /\ peer' = [peer EXCEPT ![c] = i]
            /\ UNCHANGED pc
       ELSE /\ peer' = [peer EXCEPT ![c] = Other(c, 1)]
            /\ pc' = [pc EXCEPT ![c] = "poll"]
    /\ UNCHANGED <<parties, number, uuid, round, ans_vec, entry, candidate,
                   restarts, live>>

(* One iteration of the loop that sends a value to every other party of    *)
(* 1 .. reach, if there is one; value[i] is the one for party i.           *)
SendP2p(c, reach, value) ==
    /\ pc[c] = "send"
    /\ store' = IF peer[c] <= reach
                THEN Put(Key(c, number[c], peer[c], round[c]), value[peer[c]])
                ELSE store
    /\ LET i == Other(c, peer[c] + 1) IN
       IF i <= reach
       THEN /\ peer' = [peer EXCEPT ![c] = i]
            /\ UNCHANGED pc
       ELSE /\ peer' = [peer EXCEPT ![c] = Other(c, 1)]
            /\ pc' = [pc EXCEPT ![c] = "poll"]
    /\ UNCHANGED <<parties, number, uuid, round, ans_vec, entry, candidate,
                   restarts, live>>

(* poll_for_broadcasts and poll_for_p2p: the answer the loop waits for is  *)
(* there.  While it is not, the caller sleeps and asks again.              *)
Poll(c, reach, to) ==
    LET k == Key(c, peer[c], to, round[c]) IN
    /\ pc[c] = "poll"
    /\ peer[c] <= reach
    /\ k \in DOMAIN store
    /\ ans_vec' = [ans_vec EXCEPT ![c] = Append(@, store[k])]
    /\ peer' = [peer EXCEPT ![c] = Other(c, @ + 1)]
    /\ UNCHANGED <<parties, pc, number, uuid, round, entry, candidate, store,
                   restarts, live>>

(* Faulty: the answer of the last party is not awaited. *)
EndRoundEarly(c, reach, last, verified) ==
    /\ pc[c] = "poll"
    /\ peer[c] >= reach
    /\ ans_vec' = [ans_vec EXCEPT ![c] = <<>>]
    /\ peer' = [peer EXCEPT ![c] = Other(c, 1)]
    /\ pc' = [pc EXCEPT ![c] = "send"]
    /\ round' = [round EXCEPT ![c] = @ + 1]
    /\ UNCHANGED <<parties, number, uuid, entry, candidate, store,
                   restarts, live>>

(* Faulty: the round is counted on past the last. *)
EndRoundPastLast(c, reach, last, verified) ==
    /\ pc[c] = "poll"
    /\ peer[c] > reach
    /\ ans_vec' = [ans_vec EXCEPT ![c] = <<>>]
    /\ peer' = [peer EXCEPT ![c] = Other(c, 1)]
    /\ pc' = [pc EXCEPT ![c] = IF ~verified THEN "panicked"
                               ELSE IF round[c] = last THEN "done" ELSE "send"]
    /\ round' = [round EXCEPT ![c] = @ + 1]
    /\ UNCHANGED <<parties, number, uuid, entry, candidate, store,
                   restarts, live>>

(* The answers are complete: the caller panics, unless they verify, or     *)
(* goes on to the next round, if there is one.                             *)
EndRound(c, reach, last, verified) ==
    /\ pc[c] = "poll"
    /\ peer[c] > reach
    /\ ans_vec' = [ans_vec EXCEPT ![c] = <<>>]
    /\ peer' = [peer EXCEPT ![c] = Other(c, 1)]
    /\ pc' = [pc EXCEPT ![c] = IF ~verified THEN "panicked"
                               ELSE IF round[c] = last THEN "done" ELSE "send"]
    /\ round' = [round EXCEPT ![c] = IF verified /\ round[c] # last THEN @ + 1 ELSE @]
    /\ UNCHANGED <<parties, number, uuid, entry, candidate, store,
                   restarts, live>>

(* The call ends early: its process does, or a request to the manager      *)
(* failed and ApiCommunity unwrapped the failure.  It may have left when   *)
(* all it sends in the round was sent, or have stopped before.             *)
Stop(c) ==
    /\ pc[c] \in {"send", "poll"}
    /\ pc' = [pc EXCEPT ![c] = IF pc[c] = "send" THEN "stopped" ELSE "left"]
    /\ UNCHANGED <<parties, number, uuid, round, peer, ans_vec, entry,
                   candidate, store, restarts, live>>

(* The manager restarts with an empty map.  Of the requests, a signup can  *)
(* be under way: it has no answer, and its caller unwraps the failure.     *)
Restart ==
    /\ restarts < MaxRestarts
    /\ restarts' = restarts + 1
    /\ entry' = NoEntry
    /\ store' = [k \in {} |-> NoUuid]
    /\ live' = {}
    /\ pc' = [c \in Callers |-> IF pc[c] = "write" THEN "panicked" ELSE pc[c]]
    /\ UNCHANGED <<parties, number, uuid, round, peer, ans_vec, candidate>>

(* format_vec_from_reads: the answers with the caller's own value put at   *)
(* its number.                                                             *)
FormatVec(ans, me, own) ==
    [i \in 1 .. Len(ans) + 1 |->
        IF i = me THEN own ELSE ans[IF i < me THEN i ELSE i - 1]]

(* vec.remove(number - 1) *)
Without(vec, me) ==
    [j \in 1 .. Len(vec) - 1 |-> vec[IF j < me THEN j ELSE j + 1]]

-----------------------------------------------------------------------------
ExchangeTypeOK(first, last, Values) ==
    /\ parties \in [Callers -> Counts]
    /\ pc \in [Callers -> {"signup", "write", "send", "poll", "done", "panicked",
                        "stopped", "left"}]
    /\ number \in [Callers -> Nat]
    /\ \A c \in Callers : number[c] <= parties[c]
    /\ uuid \in [Callers -> Callers \cup {NoUuid}]
    /\ round \in [Callers -> first .. last]
    /\ peer \in [Callers -> Nat]
    /\ ans_vec \in [Callers -> Seq(Values)]
    /\ entry \in [number: Nat, uuid: Callers \cup {NoUuid}]
    /\ candidate \in [Callers -> [number: Nat, uuid: Callers \cup {NoUuid}]]
    /\ DOMAIN store \subseteq Callers \X Nat \X Nat \X (first .. last)
    /\ \A k \in DOMAIN store : store[k] \in Values
    /\ restarts \in 0 .. MaxRestarts
    /\ live \subseteq Callers

SameRun(c, d) == uuid[c] # NoUuid /\ uuid[c] = uuid[d]

(* The map still holds what the parties of c's computation wrote. *)
MapKept(c) == uuid[c] \in live

(* No two callers of one computation have the same number.  Callers that   *)
(* do not meet between the locks of the signup have distinct numbers, see  *)
(* PartySignup; what rests on it says so.                                  *)
DistinctNumbers ==
    \A c, d \in Callers : SameRun(c, d) /\ c # d => number[c] # number[d]

(* A value a party has written is not written again: what the others read  *)
(* does not depend on when they poll.  Two parties with one number         *)
(* overwrite each other's values.                                          *)
WrittenOnce ==
    [][DistinctNumbers' =>
          \A k \in DOMAIN store \cap DOMAIN store' : store'[k] = store[k]]_exchangeVars

=============================================================================
