------------------------- MODULE Gg20ComputationProofs -------------------------
(***************************************************************************)
(* Of a GG20 key generation or signature, for any number of parties and of *)
(* rounds.  Whatever fails and in whatever order the parties join: what    *)
(* one that returns has of the others.  Of parties that join in turn, as   *)
(* long as nothing fails: that nothing is lost between them, that none is  *)
(* rejected, and that they do not all wait for one another.                *)
(***************************************************************************)
EXTENDS Gg20Computation, FiniteSetTheorems, WellFoundedInduction, TLAPS

Log(x) == rooms[x].messages

Letter == [sender: Nat, receiver: Nat, round: Nat, of: Callers]

(* What is needed of the types; an index may be any number here. *)
ShapeInv ==
    /\ kind \in {"keygen", "sign"}
    /\ pc \in [Callers -> {"subscribe", "issue", "send", "read", "done", "failed"}]
    /\ at \in [Callers -> RoomNames]
    /\ index \in [Callers -> Nat]
    /\ cursor \in [Callers -> Nat]
    /\ round \in [Callers -> 1 .. Last + 1]
    /\ sent \in [Callers -> Nat]
    /\ got \in [Callers -> SUBSET Letter]
    /\ rooms \in [RoomNames -> [messages: Seq(Letter), watchers: SUBSET Callers, next_idx: Nat]]

(* A key generation has one room, a signature goes on in a second one. *)
StageInv ==
    \A c \in Callers :
        /\ at[c] = "online" => kind = "sign" /\ round[c] = Last + 1
        /\ round[c] = Last + 1 => at[c] = "online"

(* The messages of a key generation carry the indices of the requests. *)
FirstInv ==
    kind = "keygen" =>
        \A k \in 1 .. Len(Log("first")) : Log("first")[k].sender = Log("first")[k].of

(* A call that has yet to send has a message left to send in its round. *)
Messages(c) == IF IsP2p(round[c]) THEN N - 1 ELSE 1

SendInv ==
    \A c \in Callers : pc[c] \in {"subscribe", "issue", "send"} => sent[c] < Messages(c)

(* In the online room everybody has one message, once it has sent it. *)
OnlineInv ==
    /\ \A k \in 1 .. Len(Log("online")) :
         LET d == Log("online")[k].of IN
         /\ at[d] = "online" /\ pc[d] \in {"read", "done", "failed"}
         /\ Log("online")[k].sender = index[d]
    /\ \A j, k \in 1 .. Len(Log("online")) :
         j # k => Log("online")[j].of # Log("online")[k].of

ComputationInv == ShapeInv /\ StageInv /\ SendInv /\ FirstInv /\ OnlineInv /\ NoneWithoutAll

LEMMA LastIsPositive == kind \in {"keygen", "sign"} => Last \in Nat /\ Last >= 1
<1> SUFFICES ASSUME kind \in {"keygen", "sign"}
             PROVE  Last \in Nat /\ Last >= 1
  OBVIOUS
<1>1. Rounds[kind] \in Seq({"broadcast", "p2p"}) /\ Rounds[kind] # <<>>
  BY RoundsAssumption
<1>2. QED
  BY <1>1 DEF Last

LEMMA InitInv == Init => ComputationInv
<1> SUFFICES ASSUME Init PROVE ComputationInv
  OBVIOUS
<1>1. Last \in Nat /\ Last >= 1
  BY LastIsPositive DEF Init
<1>2. ShapeInv
  BY <1>1 DEF Init, ShapeInv, RoomNames, EmptyRoom
<1>3. StageInv
  BY <1>1 DEF Init, StageInv
<1>4. FirstInv /\ OnlineInv
  BY DEF Init, FirstInv, OnlineInv, Log, EmptyRoom, RoomNames
<1>5. NoneWithoutAll
  BY DEF Init, NoneWithoutAll
<1>6. SendInv
  BY PartiesAssumption DEF Init, SendInv, Messages
<1>7. QED
  BY <1>2, <1>3, <1>4, <1>5, <1>6 DEF ComputationInv

-----------------------------------------------------------------------------
(* What a call has when a round is complete. *)

(* In a key generation: one message of each other index. *)
LEMMA KeygenComplete ==
    ASSUME ComputationInv, NEW c \in Callers, NEW d \in Callers, c # d,
           NEW n \in 0 .. Len(Log(at[c])), kind = "keygen", Complete(c, Heard(c, n))
    PROVE  \E m \in Heard(c, n) : m.of = d /\ m.round = round[c]
<1> USE DEF ComputationInv
<1>1. at[c] = "first"
  BY DEF StageInv, ShapeInv, RoomNames
<1>2. d \in {m.sender : m \in Heard(c, n)}
  BY <1>1 DEF Complete, PartyInd, Callers
<1>3. PICK m \in Heard(c, n) : m.sender = d
  BY <1>2
<1>4. PICK k \in 1 .. n : m = Log("first")[k] /\ m.round = round[c]
  BY <1>1 DEF Heard, Log
<1>5. m.of = d
  <2>1. Log("first") \in Seq(Letter)
    BY DEF ShapeInv, Log, RoomNames
  <2>2. k \in 1 .. Len(Log("first"))
    BY <1>1, <2>1
  <2>3. QED
    BY <1>3, <1>4, <2>2 DEF FirstInv
<1>6. QED
  BY <1>4, <1>5

(* In the online room: N - 1 messages of as many other parties. *)
LEMMA OnlineComplete ==
    ASSUME ComputationInv, NEW c \in Callers, NEW d \in Callers, c # d,
           NEW n \in 0 .. Len(Log(at[c])), at[c] = "online", Complete(c, Heard(c, n))
    PROVE  \E m \in Heard(c, n) : m.of = d /\ m.round = round[c]
<1> USE DEF ComputationInv
<1> DEFINE H == Heard(c, n)
           Others == Callers \ {c, d}
<1>1. \A m \in H : \E k \in 1 .. Len(Log("online")) :
         m = Log("online")[k] /\ m.round = round[c] /\ m.sender # index[c]
  BY DEF Heard, Log, Passes, ShapeInv
<1>2. \A m \in H : m.of \in Callers /\ m.of # c /\ m.round = round[c]
  <2> SUFFICES ASSUME NEW m \in H PROVE m.of \in Callers /\ m.of # c /\ m.round = round[c]
    OBVIOUS
  <2>1. PICK k \in 1 .. Len(Log("online")) :
           m = Log("online")[k] /\ m.round = round[c] /\ m.sender # index[c]
    BY <1>1
  <2>2. Log("online")[k] \in Letter
    BY DEF ShapeInv, Log, RoomNames
  <2>3. QED
    BY <2>1, <2>2 DEF OnlineInv, Letter
<1>3. \A x, y \in H : x.of = y.of => x = y
  <2> SUFFICES ASSUME NEW x \in H, NEW y \in H, x.of = y.of PROVE x = y
    OBVIOUS
  <2>1. PICK j \in 1 .. Len(Log("online")) : x = Log("online")[j]
    BY <1>1
  <2>2. PICK k \in 1 .. Len(Log("online")) : y = Log("online")[k]
    BY <1>1
  <2>3. QED
    BY <2>1, <2>2 DEF OnlineInv
<1>4. Cardinality(H) = N - 1
  BY DEF Complete
<1>5. IsFiniteSet(H)
  <2> DEFINE f == [m \in H |-> m.of]
  <2>1. f \in Injection(H, Callers)
    BY <1>2, <1>3 DEF Injection, IsInjective
  <2>2. IsFiniteSet(Callers)
    BY PartiesAssumption, FS_Interval DEF Callers
  <2>3. QED
    <3> HIDE DEF f, H
    <3> QED
      BY <2>1, <2>2, FS_Injection
<1>6. IsFiniteSet(Others) /\ Cardinality(Others) = N - 2
  <2>1. IsFiniteSet(Callers) /\ Cardinality(Callers) = N
    BY PartiesAssumption, FS_Interval DEF Callers
  <2>2. IsFiniteSet(Callers \ {c}) /\ Cardinality(Callers \ {c}) = N - 1
    BY <2>1, FS_RemoveElement
  <2>3. Others = (Callers \ {c}) \ {d}
    OBVIOUS
  <2>4. IsFiniteSet(Others) /\ Cardinality(Others) = (N - 1) - 1
    BY <2>2, <2>3, FS_RemoveElement
  <2>5. QED
    BY <2>4, PartiesAssumption
<1>7. ASSUME \A m \in H : m.of # d
      PROVE  FALSE
  <2> DEFINE f == [m \in H |-> m.of]
  <2>1. f \in [H -> Others]
    BY <1>2, <1>7
  <2>2. Cardinality(Others) < Cardinality(H)
    BY <1>4, <1>6, PartiesAssumption
  <2>3. \E x, y \in H : x # y /\ f[x] = f[y]
    <3> HIDE DEF f, H, Others
    <3> QED
      BY <1>5, <1>6, <2>1, <2>2, FS_PigeonHole
  <2>4. QED
    BY <1>3, <2>3
<1>8. QED
  BY <1>2, <1>7

-----------------------------------------------------------------------------
(* The rooms. *)

RoomType == [messages: Seq(Letter), watchers: SUBSET Callers, next_idx: Nat]

LEMMA FoundRoom ==
    ASSUME ShapeInv, NEW x \in RoomNames
    PROVE  /\ Found(x) \in RoomType
           /\ Found(x).messages = Log(x) \/ Found(x).messages = <<>>
  BY DEF ShapeInv, Found, EmptyRoom, RoomType, Log

LEMMA LogType == ASSUME ShapeInv, NEW x \in RoomNames PROVE Log(x) \in Seq(Letter)
  BY DEF ShapeInv, Log

LEMMA LogAuthors ==
    ASSUME ShapeInv, NEW x \in RoomNames
    PROVE  \A k \in 1 .. Len(Log(x)) : Log(x)[k] \in Letter /\ Log(x)[k].of \in Callers
<1>1. Log(x) \in Seq(Letter)
  BY LogType
<1>2. \A k \in 1 .. Len(Log(x)) : Log(x)[k] \in Letter
  BY <1>1
<1>3. QED
  BY <1>2 DEF Letter

(* Steps that write no message may empty a room, and change nothing of     *)
(* those that have written.                                                *)
LEMMA LogsOrEmpty ==
    ASSUME ComputationInv, NEW c \in Callers,
           \A x \in RoomNames : Log(x)' = Log(x) \/ Log(x)' = <<>>,
           kind' = kind,
           \A d \in Callers \ {c} :
             at'[d] = at[d] /\ pc'[d] = pc[d] /\ index'[d] = index[d],
           at[c] = "online" /\ pc[c] \in {"read", "done", "failed"}
             => at'[c] = "online" /\ pc'[c] \in {"read", "done", "failed"} /\ index'[c] = index[c]
    PROVE  FirstInv' /\ OnlineInv'
<1> USE DEF ComputationInv
<1>1. \A x \in RoomNames : Log(x)' = Log(x) \/ Len(Log(x)') = 0
  OBVIOUS
<1>2. "first" \in RoomNames /\ "online" \in RoomNames
  BY DEF RoomNames
<1>3. FirstInv'
  BY <1>1, <1>2 DEF FirstInv
<1>4. \A d \in Callers : at[d] = "online" /\ pc[d] \in {"read", "done", "failed"}
        => at'[d] = "online" /\ pc'[d] \in {"read", "done", "failed"} /\ index'[d] = index[d]
  OBVIOUS
<1>5. \A k \in 1 .. Len(Log("online")) : Log("online")[k].of \in Callers
  BY <1>2, LogAuthors
<1>6. ASSUME Log("online")' = Log("online")
      PROVE  OnlineInv'
  <2>1. \A k \in 1 .. Len(Log("online")) :
          LET d == Log("online")[k].of IN
          /\ at'[d] = "online" /\ pc'[d] \in {"read", "done", "failed"}
          /\ Log("online")[k].sender = index'[d]
    BY <1>4, <1>5 DEF OnlineInv
  <2>2. QED
    BY <1>6, <2>1 DEF OnlineInv
<1>7. ASSUME Len(Log("online")') = 0
      PROVE  OnlineInv'
  BY <1>7 DEF OnlineInv
<1>8. QED
  BY <1>1, <1>2, <1>3, <1>6, <1>7

-----------------------------------------------------------------------------
(* The steps. *)

LEMMA JoinStep ==
    ASSUME ComputationInv, NEW c \in Callers, Subscribe(c) \/ IssueIndex(c)
    PROVE  ComputationInv'
<1> USE DEF ComputationInv
<1> DEFINE x == at[c]
<1>1. x \in RoomNames /\ Found(x) \in RoomType
  BY FoundRoom DEF ShapeInv
<1>2. UNCHANGED <<kind, at, round, sent, got, faults>> /\ Last' = Last
  BY DEF Subscribe, IssueIndex, Last
<1>3. \E r \in RoomType : rooms' = [rooms EXCEPT ![x] = r] /\ r.messages = Found(x).messages
  <2>1. CASE Subscribe(c)
    <3> DEFINE r == [Found(x) EXCEPT !.watchers = @ \cup {c}]
    <3>1. r \in RoomType /\ r.messages = Found(x).messages
      BY <1>1 DEF RoomType
    <3>2. rooms' = [rooms EXCEPT ![x] = r]
      BY <2>1 DEF Subscribe
    <3>3. QED
      BY <3>1, <3>2
  <2>2. CASE IssueIndex(c)
    <3> DEFINE r == [Found(x) EXCEPT !.next_idx = @ + 1]
    <3>1. r \in RoomType /\ r.messages = Found(x).messages
      BY <1>1 DEF RoomType
    <3>2. rooms' = [rooms EXCEPT ![x] = r]
      BY <2>2 DEF IssueIndex
    <3>3. QED
      BY <3>1, <3>2
  <2>3. QED
    BY <2>1, <2>2
<1>4. ShapeInv'
  <2>1. rooms' \in [RoomNames -> [messages: Seq(Letter), watchers: SUBSET Callers, next_idx: Nat]]
    BY <1>1, <1>3 DEF ShapeInv, RoomType
  <2>2. index' \in [Callers -> Nat]
    BY <1>1 DEF Subscribe, IssueIndex, ShapeInv, RoomType
  <2>3. pc' \in [Callers -> {"subscribe", "issue", "send", "read", "done", "failed"}]
    BY DEF Subscribe, IssueIndex, ShapeInv
  <2>4. cursor' \in [Callers -> Nat]
    <3>1. cursor \in [Callers -> Nat]
      BY DEF ShapeInv
    <3>2. cursor' = cursor \/ cursor' = [cursor EXCEPT ![c] = 0]
      BY DEF Subscribe, IssueIndex
    <3>3. QED
      BY <3>1, <3>2
  <2>5. QED
    BY <1>2, <2>1, <2>2, <2>3, <2>4 DEF ShapeInv
<1>5. StageInv' /\ SendInv' /\ NoneWithoutAll'
  <2>1. /\ pc[c] \in {"subscribe", "issue"} /\ pc'[c] # "done"
        /\ \A d \in Callers \ {c} : pc'[d] = pc[d]
    BY DEF Subscribe, IssueIndex, ShapeInv
  <2>2. StageInv' /\ NoneWithoutAll'
    BY <1>2, <2>1 DEF StageInv, NoneWithoutAll
  <2>3. SendInv'
    BY <1>2, <2>1 DEF SendInv, Messages, IsP2p
  <2>4. QED
    BY <2>2, <2>3
<1>6. FirstInv' /\ OnlineInv'
  <2>1. \A y \in RoomNames : Log(y)' = Log(y) \/ Log(y)' = <<>>
    BY <1>1, <1>3, FoundRoom DEF Log, ShapeInv
  <2>2. /\ pc[c] \in {"subscribe", "issue"} /\ pc'[c] \in {"issue", "send"}
        /\ \A d \in Callers \ {c} : pc'[d] = pc[d] /\ index'[d] = index[d]
    BY DEF Subscribe, IssueIndex, ShapeInv
  <2>3. QED
    BY <1>2, <2>1, <2>2, LogsOrEmpty
<1>7. QED
  BY <1>4, <1>5, <1>6

LEMMA ReceiversType ==
    ASSUME ShapeInv, NEW c \in Callers
    PROVE  /\ PartyInd(c) \in Nat
           /\ Receivers(c) \in Seq(Nat) /\ Len(Receivers(c)) = Messages(c)
<1>1. PartyInd(c) \in Nat
  BY PartiesAssumption DEF ShapeInv, PartyInd, Callers
<1>2. N - 1 \in Nat
  BY PartiesAssumption
<1>3. QED
  BY <1>1, <1>2 DEF Receivers, Messages, All

(* What is sent carries what the receivers of a round look for. *)
LEMMA SendStep ==
    ASSUME ComputationInv, NEW c \in Callers, Send(c)
    PROVE  ComputationInv'
<1> USE DEF ComputationInv
<1> DEFINE x == at[c]
           i == sent[c] + 1
           m == [sender |-> PartyInd(c), receiver |-> Receivers(c)[i], round |-> round[c], of |-> c]
           r == [Found(x) EXCEPT !.messages = Append(@, m)]
<1>1. x \in RoomNames /\ Found(x) \in RoomType
  BY FoundRoom DEF ShapeInv
<1>2. UNCHANGED <<kind, at, index, cursor, round, got>> /\ Last' = Last
  BY DEF Send, Last
<1>3. /\ pc[c] = "send" /\ pc'[c] \in {"send", "read"} /\ sent'[c] \in Nat
      /\ \A d \in Callers \ {c} : pc'[d] = pc[d] /\ sent'[d] = sent[d]
      /\ pc' \in [Callers -> {"subscribe", "issue", "send", "read", "done", "failed"}]
      /\ sent' \in [Callers -> Nat]
  BY DEF Send, ShapeInv
<1>4. rooms' = [rooms EXCEPT ![x] = r]
  BY DEF Send
<1>12. /\ Receivers(c) \in Seq(Nat) /\ Len(Receivers(c)) = Messages(c)
      /\ sent[c] \in Nat /\ sent[c] < Messages(c) /\ Messages(c) \in Nat
  <2>1. Receivers(c) \in Seq(Nat) /\ Len(Receivers(c)) = Messages(c)
    BY ReceiversType
  <2>2. sent[c] \in Nat
    BY DEF ShapeInv
  <2>3. sent[c] < Messages(c)
    BY <1>3 DEF SendInv
  <2>4. Messages(c) \in Nat
    BY PartiesAssumption DEF Messages
  <2>5. QED
    BY <2>1, <2>2, <2>3, <2>4
<1>5. m \in Letter
  <2>1. i \in 1 .. Len(Receivers(c))
    BY <1>12
  <2>2. Receivers(c)[i] \in Nat /\ PartyInd(c) \in Nat
    BY <2>1, ReceiversType
  <2>3. round[c] \in Nat
    BY LastIsPositive DEF ShapeInv
  <2>4. QED
    BY <2>2, <2>3 DEF Letter
<1>6. r \in RoomType /\ r.messages = Append(Found(x).messages, m)
  <2> DEFINE messages == Append(Found(x).messages, m)
  <2>1. messages \in Seq(Letter)
    <3> HIDE DEF m, x
    <3> QED
      BY <1>1, <1>5 DEF RoomType
  <2>2. r = [Found(x) EXCEPT !.messages = messages]
    OBVIOUS
  <2> HIDE DEF messages, m, x, r
  <2>3. QED
    BY <1>1, <2>1, <2>2 DEF RoomType, messages
<1>7. ShapeInv'
  <2> HIDE DEF r, x
  <2>1. rooms' \in [RoomNames -> [messages: Seq(Letter), watchers: SUBSET Callers, next_idx: Nat]]
    BY <1>1, <1>4, <1>6 DEF ShapeInv, RoomType
  <2>2. QED
    BY <1>2, <1>3, <2>1 DEF ShapeInv
<1>8. StageInv' /\ SendInv' /\ NoneWithoutAll'
  <2>1. StageInv' /\ NoneWithoutAll'
    BY <1>2, <1>3 DEF StageInv, NoneWithoutAll
  <2>2. pc'[c] = "send" => sent'[c] < Messages(c)
    <3>1. sent'[c] = i /\ pc'[c] = IF i = Len(Receivers(c)) THEN "read" ELSE "send"
      BY DEF Send, ShapeInv
    <3>2. QED
      BY <1>12, <3>1
  <2>3. \A d \in Callers : Messages(d)' = Messages(d)
    BY <1>2 DEF Messages, IsP2p
  <2>4. SendInv'
    BY <1>3, <2>2, <2>3 DEF SendInv
  <2>5. QED
    BY <2>1, <2>4
<1>9. FirstInv'
  <2> SUFFICES ASSUME kind = "keygen", NEW k \in 1 .. Len(Log("first")')
               PROVE  Log("first")'[k].sender = Log("first")'[k].of
    BY <1>2 DEF FirstInv
  <2>1. x = "first"
    BY DEF StageInv, ShapeInv, RoomNames
  <2>2. Log("first")' = Append(Found("first").messages, m)
    BY <1>1, <1>4, <1>6, <2>1 DEF Log, ShapeInv
  <2>3. m.sender = m.of
    BY DEF PartyInd
  <2>4. \A j \in 1 .. Len(Found("first").messages) :
          Found("first").messages[j].sender = Found("first").messages[j].of
    BY <1>1, <2>1, FoundRoom DEF FirstInv
  <2>5. Found("first").messages \in Seq(Letter)
    BY <1>1, <2>1 DEF RoomType
  <2>6. QED
    <3> HIDE DEF m
    <3> QED
      BY <2>2, <2>3, <2>4, <2>5
<1>10. OnlineInv'
  <2>1. CASE x # "online"
    <3>1. Log("online")' = Log("online")
      BY <1>1, <1>4, <2>1 DEF Log, ShapeInv, RoomNames
    <3>2. \A k \in 1 .. Len(Log("online")) : Log("online")[k].of \in Callers
      BY LogAuthors DEF RoomNames
    <3>3. \A d \in Callers : at[d] = "online" /\ pc[d] \in {"read", "done", "failed"}
            => pc'[d] \in {"read", "done", "failed"}
      BY <1>3, <2>1
    <3>4. QED
      BY <1>2, <3>1, <3>2, <3>3 DEF OnlineInv
  <2>2. CASE x = "online"
    <3> DEFINE old == Found("online").messages
               new == Append(old, m)
    <3>1. kind = "sign" /\ round[c] = Last + 1 /\ Last \in Nat
      BY <2>2, LastIsPositive DEF StageInv, ShapeInv
    <3>2. pc'[c] = "read"
      <4>1. Messages(c) = 1
        BY <3>1 DEF Messages, IsP2p
      <4>2. i = Len(Receivers(c))
        BY <1>12, <4>1
      <4>3. QED
        BY <4>2 DEF Send, ShapeInv
    <3>3. m.of = c /\ m.sender = index[c]
      BY <3>1 DEF PartyInd
    <3>4. old \in Seq(Letter)
      BY <1>1, <2>2 DEF RoomType
    <3>5. Log("online")' = new
      BY <1>1, <1>4, <1>6, <2>2 DEF Log, ShapeInv
    <3>6. \A k \in 1 .. Len(old) :
            /\ old[k].of \in Callers \ {c}
            /\ at[old[k].of] = "online" /\ pc[old[k].of] \in {"read", "done", "failed"}
            /\ old[k].sender = index[old[k].of]
      <4>1. \A k \in 1 .. Len(Log("online")) : Log("online")[k].of \in Callers
        BY LogAuthors DEF RoomNames
      <4>2. \A k \in 1 .. Len(Log("online")) : Log("online")[k].of # c
        BY <1>3 DEF OnlineInv
      <4>3. old = Log("online") \/ old = <<>>
        BY FoundRoom DEF RoomNames
      <4>4. QED
        BY <4>1, <4>2, <4>3 DEF OnlineInv
    <3>7. \A j, k \in 1 .. Len(old) : j # k => old[j].of # old[k].of
      BY FoundRoom DEF OnlineInv, RoomNames
    <3>8. /\ Len(new) = Len(old) + 1 /\ new[Len(old) + 1] = m
          /\ \A k \in 1 .. Len(old) : new[k] = old[k]
      <4> HIDE DEF m, old
      <4> QED
        BY <3>4
    <3> HIDE DEF new, old, m
    <3>9. \A k \in 1 .. Len(new) :
            /\ at[new[k].of] = "online" /\ pc'[new[k].of] \in {"read", "done", "failed"}
            /\ new[k].sender = index[new[k].of]
      <4> SUFFICES ASSUME NEW k \in 1 .. Len(new)
                   PROVE  /\ at[new[k].of] = "online"
                          /\ pc'[new[k].of] \in {"read", "done", "failed"}
                          /\ new[k].sender = index[new[k].of]
        OBVIOUS
      <4>1. CASE k = Len(old) + 1
        BY <2>2, <3>2, <3>3, <3>8, <4>1
      <4>2. CASE k \in 1 .. Len(old)
        BY <1>3, <3>6, <3>8, <4>2
      <4>3. QED
        BY <3>4, <3>8, <4>1, <4>2
    <3>10. \A j, k \in 1 .. Len(new) : j # k => new[j].of # new[k].of
      <4>1. \A k \in 1 .. Len(new) : k \in 1 .. Len(old) \/ k = Len(old) + 1
        BY <3>4, <3>8
      <4>2. \A k \in 1 .. Len(old) : new[k].of # c
        BY <3>6, <3>8
      <4>3. QED
        BY <3>3, <3>7, <3>8, <4>1, <4>2
    <3>11. QED
      BY <1>2, <3>5, <3>9, <3>10 DEF OnlineInv
  <2>3. QED
    BY <2>1, <2>2
<1>11. QED
  BY <1>7, <1>8, <1>9, <1>10

(* A call that fails, or that stays what it is. *)
LEMMA EndStep ==
    ASSUME ComputationInv, NEW c \in Callers, pc[c] # "done",
           EndCall(c, "failed"),
           UNCHANGED <<kind, at, index, cursor, round, sent, got, rooms, faults>>
    PROVE  ComputationInv'
<1> USE DEF ComputationInv
<1>1. /\ pc'[c] = "failed" /\ \A d \in Callers \ {c} : pc'[d] = pc[d]
      /\ pc' \in [Callers -> {"subscribe", "issue", "send", "read", "done", "failed"}]
  BY DEF EndCall, ShapeInv
<1>2. Last' = Last /\ \A d \in Callers : Messages(d)' = Messages(d)
  BY DEF Last, Messages, IsP2p
<1>3. ShapeInv'
  BY <1>1, <1>2 DEF ShapeInv
<1>4. StageInv'
  BY <1>2 DEF StageInv
<1>5. SendInv'
  BY <1>1, <1>2 DEF SendInv
<1>6. NoneWithoutAll'
  BY <1>1 DEF NoneWithoutAll
<1>7. FirstInv' /\ OnlineInv'
  <2>1. \A x \in RoomNames : Log(x)' = Log(x)
    BY DEF Log
  <2>2. QED
    BY <1>1, <2>1, LogsOrEmpty
<1>8. QED
  BY <1>3, <1>4, <1>5, <1>6, <1>7

(* A call returns on the messages that completed its last round. *)
LEMMA ReadStep ==
    ASSUME ComputationInv, NEW c \in Callers, Read(c)
    PROVE  ComputationInv'
<1> USE DEF ComputationInv
<1>1. PICK n \in cursor[c] .. Len(Log(at[c])) :
         /\ Complete(c, Heard(c, n))
         /\ cursor' = [cursor EXCEPT ![c] = n]
         /\ got' = [got EXCEPT ![c] = Heard(c, n)]
         /\ NextRound(c, Heard(c, n))
  BY DEF Read, Log
<1> DEFINE H == Heard(c, n)
<1>2. UNCHANGED <<kind, index, rooms, faults>> /\ pc[c] = "read" /\ Last' = Last
  BY DEF Read, Last
<1>3. at[c] \in RoomNames /\ n \in 0 .. Len(Log(at[c]))
  <2>1. at[c] \in RoomNames /\ cursor[c] \in Nat
    BY DEF ShapeInv
  <2>2. Len(Log(at[c])) \in Nat
    BY <2>1, LogType
  <2>3. QED
    BY <2>1, <2>2
<1>4. H \in SUBSET Letter
  <2>1. \A k \in 1 .. Len(Log(at[c])) : Log(at[c])[k] \in Letter
    BY <1>3, LogAuthors
  <2>2. \A k \in 1 .. n : k \in 1 .. Len(Log(at[c]))
    BY <1>3
  <2>3. QED
    BY <2>1, <2>2 DEF Heard, Log
<1>5. /\ cursor' \in [Callers -> Nat] /\ got' \in [Callers -> SUBSET Letter]
      /\ got'[c] = H /\ \A d \in Callers \ {c} : got'[d] = got[d]
  <2> HIDE DEF H
  <2>1. cursor \in [Callers -> Nat] /\ got \in [Callers -> SUBSET Letter]
    BY DEF ShapeInv
  <2>2. n \in Nat
    BY <1>3
  <2>3. got' = [got EXCEPT ![c] = H]
    BY <1>1 DEF H
  <2>4. QED
    BY <1>1, <1>4, <2>1, <2>2, <2>3
<1>6. Last \in Nat /\ Last >= 1 /\ round[c] \in 1 .. Last + 1
  BY LastIsPositive DEF ShapeInv
<1>7. \A x \in RoomNames : Log(x)' = Log(x)
  BY <1>2 DEF Log
<1>8. ASSUME NEW s \in 1 .. Last + 1, s = round[c] + 1, s <= Last,
             round' = [round EXCEPT ![c] = s], sent' = [sent EXCEPT ![c] = 0],
             pc' = [pc EXCEPT ![c] = "send"], at' = at
      PROVE  ComputationInv'
  <2>1. at[c] # "online"
    BY <1>6, <1>8 DEF StageInv
  <2>2. ShapeInv'
    BY <1>2, <1>5, <1>8 DEF ShapeInv
  <2>3. StageInv'
    BY <1>2, <1>6, <1>8, <2>1 DEF StageInv, ShapeInv
  <2>4. SendInv'
    BY <1>2, <1>8, PartiesAssumption DEF SendInv, Messages, IsP2p, ShapeInv
  <2>5. NoneWithoutAll'
    <3>1. pc'[c] # "done" /\ \A d \in Callers \ {c} : pc'[d] = pc[d] /\ round'[d] = round[d]
      BY <1>8 DEF ShapeInv
    <3>2. QED
      BY <1>5, <3>1 DEF NoneWithoutAll
  <2>6. FirstInv' /\ OnlineInv'
    BY <1>2, <1>7, <1>8, <2>1, LogsOrEmpty DEF ShapeInv
  <2>7. QED
    BY <2>2, <2>3, <2>4, <2>5, <2>6
<1>9. ASSUME kind = "sign", round[c] = Last,
             round' = [round EXCEPT ![c] = Last + 1], sent' = [sent EXCEPT ![c] = 0],
             pc' = [pc EXCEPT ![c] = "subscribe"], at' = [at EXCEPT ![c] = "online"]
      PROVE  ComputationInv'
  <2>1. at[c] # "online"
    BY <1>6, <1>9 DEF StageInv
  <2>2. ShapeInv'
    <3>1. Last + 1 \in 1 .. Last + 1
      BY <1>6
    <3>2. QED
      BY <1>2, <1>5, <1>9, <3>1 DEF ShapeInv, RoomNames
  <2>3. StageInv'
    BY <1>2, <1>6, <1>9 DEF StageInv, ShapeInv
  <2>4. SendInv'
    BY <1>2, <1>9, PartiesAssumption DEF SendInv, Messages, IsP2p, ShapeInv
  <2>5. NoneWithoutAll'
    <3>1. pc'[c] # "done" /\ \A d \in Callers \ {c} : pc'[d] = pc[d] /\ round'[d] = round[d]
      BY <1>9 DEF ShapeInv
    <3>2. QED
      BY <1>5, <3>1 DEF NoneWithoutAll
  <2>6. FirstInv' /\ OnlineInv'
    BY <1>2, <1>7, <1>9, <2>1, LogsOrEmpty DEF ShapeInv
  <2>7. QED
    BY <2>2, <2>3, <2>4, <2>5, <2>6
<1>10. ASSUME NEW outcome \in {"done", "failed"},
              outcome = "done" => kind = "keygen" \/ at[c] = "online",
              pc' = [pc EXCEPT ![c] = outcome], UNCHANGED <<at, round, sent>>
       PROVE  ComputationInv'
  <2>1. ShapeInv'
    BY <1>2, <1>5, <1>10 DEF ShapeInv
  <2>2. StageInv'
    BY <1>2, <1>10 DEF StageInv
  <2>3. SendInv'
    BY <1>2, <1>10 DEF SendInv, Messages, IsP2p, ShapeInv
  <2>4. NoneWithoutAll'
    <3> SUFFICES ASSUME NEW a \in Callers, NEW d \in Callers, pc'[a] = "done", a # d
                 PROVE  \E m \in got'[a] : m.of = d /\ m.round = round[a]
      BY <1>10 DEF NoneWithoutAll
    <3>1. CASE a # c
      BY <1>5, <1>10, <3>1 DEF NoneWithoutAll, ShapeInv
    <3>2. CASE a = c
      <4>1. kind = "keygen" \/ at[c] = "online"
        BY <1>10, <3>2 DEF ShapeInv
      <4>2. \E m \in H : m.of = d /\ m.round = round[c]
        BY <1>1, <1>3, <3>2, <4>1, KeygenComplete, OnlineComplete
      <4>3. QED
        BY <1>5, <3>2, <4>2
    <3>3. QED
      BY <3>1, <3>2
  <2>5. FirstInv' /\ OnlineInv'
    BY <1>2, <1>7, <1>10, LogsOrEmpty DEF ShapeInv
  <2>6. QED
    BY <2>1, <2>2, <2>3, <2>4, <2>5
<1>11. CASE round[c] < Last
  <2>1. /\ round' = [round EXCEPT ![c] = round[c] + 1] /\ sent' = [sent EXCEPT ![c] = 0]
        /\ pc' = [pc EXCEPT ![c] = "send"] /\ at' = at
    <3>1. ~(round[c] = Last /\ kind = "sign" /\ Verifies(c, H))
      BY <1>6, <1>11
    <3>2. QED
      BY <1>1, <1>11, <3>1 DEF NextRound
  <2>2. round[c] + 1 \in 1 .. Last + 1 /\ round[c] + 1 <= Last
    BY <1>6, <1>11
  <2>3. QED
    BY <1>8, <2>1, <2>2
<1>12. CASE round[c] = Last /\ kind = "sign" /\ Verifies(c, H)
  <2>1. ~(round[c] < Last)
    BY <1>6, <1>12
  <2>2. /\ round' = [round EXCEPT ![c] = Last + 1] /\ sent' = [sent EXCEPT ![c] = 0]
        /\ at' = [at EXCEPT ![c] = "online"] /\ pc' = [pc EXCEPT ![c] = "subscribe"]
    BY <1>1, <1>12, <2>1 DEF NextRound
  <2>3. QED
    BY <1>9, <1>12, <2>2
<1>13. CASE ~(round[c] < Last) /\ ~(round[c] = Last /\ kind = "sign" /\ Verifies(c, H))
  <2> DEFINE outcome == IF Verifies(c, H) THEN "done" ELSE "failed"
  <2>1. EndCall(c, outcome) /\ UNCHANGED <<at, round, sent>>
    BY <1>1, <1>13 DEF NextRound
  <2>2. outcome = "done" => kind = "keygen" \/ at[c] = "online"
    <3>1. kind = "sign" /\ Verifies(c, H) => round[c] = Last + 1
      BY <1>6, <1>13
    <3>2. QED
      BY <3>1 DEF StageInv, ShapeInv
  <2>3. QED
    BY <1>10, <2>1, <2>2 DEF EndCall
<1>14. QED
  BY <1>11, <1>12, <1>13

(* What fails may empty the rooms, and changes nothing of the calls. *)
LEMMA FaultStep ==
    ASSUME ComputationInv,
           \/ \E c \in Callers, x \in RoomNames : DropStream(c, x)
           \/ Fault
    PROVE  ComputationInv'
<1> USE DEF ComputationInv
<1>1. UNCHANGED <<kind, pc, at, index, cursor, round, sent, got>>
  BY DEF DropStream, Fault, Restart, Break
<1>2. /\ rooms' \in [RoomNames -> RoomType]
      /\ \A x \in RoomNames : Log(x)' = Log(x) \/ Log(x)' = <<>>
  <2>1. CASE \E c \in Callers, x \in RoomNames : DropStream(c, x)
    <3> PICK c \in Callers, x \in RoomNames : DropStream(c, x)
      BY <2>1
    <3> DEFINE r == [rooms[x] EXCEPT !.watchers = @ \ {c}]
    <3>1. r \in RoomType /\ r.messages = rooms[x].messages
      BY DEF ShapeInv, RoomType
    <3>2. rooms' = [rooms EXCEPT ![x] = r]
      BY DEF DropStream
    <3>3. QED
      BY <3>1, <3>2 DEF ShapeInv, RoomType, Log
  <2>2. CASE Restart
    BY <2>2 DEF Restart, EmptyRoom, RoomType, Log
  <2>3. CASE \E c \in Callers : Break(c)
    BY <2>3 DEF Break, ShapeInv, RoomType, Log
  <2>4. QED
    BY <2>1, <2>2, <2>3 DEF Fault
<1>3. Last' = Last /\ \A d \in Callers : Messages(d)' = Messages(d)
  BY <1>1 DEF Last, Messages, IsP2p
<1>4. ShapeInv'
  BY <1>1, <1>2, <1>3 DEF ShapeInv, RoomType
<1>5. StageInv' /\ SendInv' /\ NoneWithoutAll'
  BY <1>1, <1>3 DEF StageInv, SendInv, NoneWithoutAll
<1>6. FirstInv' /\ OnlineInv'
  <2>1. PICK c \in Callers : TRUE
    BY PartiesAssumption DEF Callers
  <2>2. QED
    BY <1>1, <1>2, LogsOrEmpty
<1>7. QED
  BY <1>4, <1>5, <1>6

LEMMA StutterStep == ASSUME ComputationInv, UNCHANGED vars PROVE ComputationInv'
  BY DEF vars, ComputationInv, ShapeInv, StageInv, SendInv, Messages, IsP2p, Last,
         FirstInv, OnlineInv, Log, NoneWithoutAll

-----------------------------------------------------------------------------
LEMMA ComputationStep == ASSUME ComputationInv, [Next]_vars PROVE ComputationInv'
<1>1. ASSUME NEW c \in Callers, Subscribe(c) \/ IssueIndex(c) PROVE ComputationInv'
  BY <1>1, JoinStep
<1>2. ASSUME NEW c \in Callers, Send(c) PROVE ComputationInv'
  BY <1>2, SendStep
<1>3. ASSUME NEW c \in Callers, Read(c) PROVE ComputationInv'
  BY <1>3, ReadStep
<1>4. ASSUME NEW c \in Callers, ReadUnexpected(c) \/ Fail(c) PROVE ComputationInv'
  BY <1>4, EndStep DEF ReadUnexpected, Fail
<1>5. ASSUME \/ \E c \in Callers, x \in RoomNames : DropStream(c, x)
             \/ Fault
      PROVE  ComputationInv'
  BY <1>5, FaultStep
<1>6. CASE UNCHANGED vars
  BY <1>6, StutterStep
<1> QED
  BY <1>1, <1>2, <1>3, <1>4, <1>5, <1>6 DEF Next, Proceed

(* All or nothing: a call of a key generation or a signature returns only  *)
(* if it has a message of its last round from each of the other parties,   *)
(* in whatever order the parties join the rooms, whichever streams break   *)
(* and however often the manager restarts without its rooms.               *)
THEOREM AllOrNothing == Spec => []NoneWithoutAll
<1>1. ComputationInv => NoneWithoutAll
  BY DEF ComputationInv
<1>2. QED
  BY InitInv, ComputationStep, <1>1, PTL DEF Spec

-----------------------------------------------------------------------------
(* The types.  A room has issued no more indices than there are calls that *)
(* asked for one, so no index exceeds the number of parties.               *)

(* Call c has asked room x for its index.                                  *)
HasIssued(c, x) ==
    IF x = "first" THEN at[c] = "online" \/ pc[c] \notin {"subscribe", "issue"}
    ELSE at[c] = "online" /\ pc[c] \notin {"subscribe", "issue"}

Issuers(x) == {c \in Callers : HasIssued(c, x)}

RoomInv ==
    \A x \in RoomNames :
        /\ Log(x) \in Seq(Message)
        /\ rooms[x].next_idx \in Nat \ {0}
        /\ rooms[x].next_idx <= 1 + Cardinality(Issuers(x))

PartyInv ==
    /\ index \in [Callers -> 0 .. N]
    /\ sent \in [Callers -> 0 .. N - 1]
    /\ got \in [Callers -> SUBSET Message]
    /\ linked \subseteq Callers \X RoomNames
    /\ faults \in 0 .. MaxFaults
    /\ \A c \in Callers : pc[c] \in {"send", "read"} \/ at[c] = "online" => index[c] >= 1

TypeInv == ComputationInv /\ RoomInv /\ PartyInv

LEMMA CallersFinite == IsFiniteSet(Callers) /\ Cardinality(Callers) = N
  BY PartiesAssumption, FS_Interval DEF Callers

LEMMA IssuersFinite ==
    \A x : IsFiniteSet(Issuers(x)) /\ Cardinality(Issuers(x)) \in Nat
  BY CallersFinite, FS_Subset, FS_CardinalityType DEF Issuers

LEMMA TypeInit == Init => TypeInv
<1> SUFFICES ASSUME Init PROVE TypeInv
  OBVIOUS
<1>1. \A x \in RoomNames : rooms[x] = EmptyRoom
  BY DEF Init
<1>2. RoomInv
  <2>1. EmptyRoom.messages \in Seq(Message) /\ EmptyRoom.next_idx = 1
    BY DEF EmptyRoom
  <2> QED
    BY <1>1, <2>1, IssuersFinite DEF RoomInv, Log
<1>3. PartyInv
  BY PartiesAssumption, FaultsAssumption DEF Init, PartyInv
<1> QED
  BY <1>2, <1>3, InitInv DEF TypeInv

LEMMA HeardIsRead ==
    ASSUME ComputationInv, NEW c \in Callers, NEW n \in 0 .. Len(Log(at[c]))
    PROVE  \A m \in Heard(c, n) : \E k \in 1 .. Len(Log(at[c])) :
               m = Log(at[c])[k] /\ k <= n /\ m.round = round[c] /\ Passes(c, m)
<1>1. Len(Log(at[c])) \in Nat
  BY LogType DEF ComputationInv, ShapeInv
<1> QED
  BY <1>1 DEF Heard, Log

(* What a round makes of a call that has read it. *)
LEMMA ReadKinds ==
    ASSUME ComputationInv, NEW c \in Callers, Read(c)
    PROVE  \E n \in 0 .. Len(Log(at[c])) :
             /\ cursor[c] <= n
             /\ Complete(c, Heard(c, n))
             /\ cursor' = [cursor EXCEPT ![c] = n]
             /\ got' = [got EXCEPT ![c] = Heard(c, n)]
             /\ pc[c] = "read" /\ <<c, at[c]>> \in linked
             /\ UNCHANGED <<kind, index, rooms, faults>>
             /\ \/ /\ round[c] < Last /\ at[c] = "first"
                   /\ round' = [round EXCEPT ![c] = @ + 1] /\ sent' = [sent EXCEPT ![c] = 0]
                   /\ pc' = [pc EXCEPT ![c] = "send"] /\ UNCHANGED <<at, linked>>
                \/ /\ round[c] = Last /\ kind = "sign" /\ at[c] = "first"
                   /\ round' = [round EXCEPT ![c] = Last + 1] /\ sent' = [sent EXCEPT ![c] = 0]
                   /\ pc' = [pc EXCEPT ![c] = "subscribe"] /\ at' = [at EXCEPT ![c] = "online"]
                   /\ UNCHANGED linked
                \/ /\ kind = "keygen" \/ at[c] = "online" \/ ~Verifies(c, Heard(c, n))
                   /\ round[c] >= Last
                   /\ EndCall(c, IF Verifies(c, Heard(c, n)) THEN "done" ELSE "failed")
                   /\ UNCHANGED <<at, round, sent>>
<1> USE DEF ComputationInv
<1>1. PICK n \in cursor[c] .. Len(Log(at[c])) :
         /\ Complete(c, Heard(c, n))
         /\ cursor' = [cursor EXCEPT ![c] = n]
         /\ got' = [got EXCEPT ![c] = Heard(c, n)]
         /\ NextRound(c, Heard(c, n))
  BY DEF Read, Log
<1>2. pc[c] = "read" /\ <<c, at[c]>> \in linked /\ UNCHANGED <<kind, index, rooms, faults>>
  BY DEF Read
<1>3. /\ at[c] \in RoomNames /\ cursor[c] \in Nat /\ Len(Log(at[c])) \in Nat
      /\ Last \in Nat /\ Last >= 1 /\ round[c] \in 1 .. Last + 1 /\ kind \in {"keygen", "sign"}
  BY LogType, LastIsPositive DEF ShapeInv
<1>4. n \in 0 .. Len(Log(at[c])) /\ cursor[c] <= n
  BY <1>3
<1>5. round[c] <= Last => at[c] = "first"
  BY <1>3 DEF StageInv, RoomNames
<1> DEFINE H == Heard(c, n)
<1>6. \/ /\ round[c] < Last /\ at[c] = "first"
         /\ round' = [round EXCEPT ![c] = @ + 1] /\ sent' = [sent EXCEPT ![c] = 0]
         /\ pc' = [pc EXCEPT ![c] = "send"] /\ UNCHANGED <<at, linked>>
      \/ /\ round[c] = Last /\ kind = "sign" /\ at[c] = "first"
         /\ round' = [round EXCEPT ![c] = Last + 1] /\ sent' = [sent EXCEPT ![c] = 0]
         /\ pc' = [pc EXCEPT ![c] = "subscribe"] /\ at' = [at EXCEPT ![c] = "online"]
         /\ UNCHANGED linked
      \/ /\ kind = "keygen" \/ at[c] = "online" \/ ~Verifies(c, H)
         /\ round[c] >= Last
         /\ EndCall(c, IF Verifies(c, H) THEN "done" ELSE "failed")
         /\ UNCHANGED <<at, round, sent>>
  <2>1. CASE round[c] < Last
    <3>1. ~(round[c] = Last /\ kind = "sign" /\ Verifies(c, H))
      BY <1>3, <2>1
    <3> QED
      BY <1>1, <1>3, <1>5, <2>1, <3>1 DEF NextRound
  <2>2. CASE round[c] = Last /\ kind = "sign" /\ Verifies(c, H)
    <3>1. ~(round[c] < Last)
      BY <1>3, <2>2
    <3> QED
      BY <1>1, <1>3, <1>5, <2>2, <3>1 DEF NextRound
  <2>3. CASE ~(round[c] < Last) /\ ~(round[c] = Last /\ kind = "sign" /\ Verifies(c, H))
    <3>1. /\ EndCall(c, IF Verifies(c, H) THEN "done" ELSE "failed")
          /\ UNCHANGED <<at, round, sent>>
      BY <1>1, <2>3 DEF NextRound
    <3>2. round[c] >= Last
      BY <1>3, <2>3
    <3>3. kind = "keygen" \/ at[c] = "online" \/ ~Verifies(c, H)
      BY <1>3, <2>3 DEF StageInv
    <3> QED
      BY <3>1, <3>2, <3>3
  <2> QED
    BY <2>1, <2>2, <2>3
<1> QED
  BY <1>1, <1>2, <1>4, <1>6

(* Nobody forgets that it has an index.                                    *)
LEMMA IssuedStays ==
    ASSUME ComputationInv, [Next]_vars
    PROVE  \A c \in Callers : \A x \in RoomNames : HasIssued(c, x) => HasIssued(c, x)'
<1> USE DEF HasIssued, ComputationInv, ShapeInv
<1> DEFINE Stays == \A c \in Callers : \A x \in RoomNames : HasIssued(c, x) => HasIssued(c, x)'
<1>1. ASSUME NEW c \in Callers, Subscribe(c) \/ IssueIndex(c) \/ Send(c) PROVE Stays
  BY <1>1 DEF Subscribe, IssueIndex, Send
<1>2. ASSUME NEW c \in Callers, Read(c) PROVE Stays
  <2>1. /\ \A d \in Callers \ {c} : pc'[d] = pc[d] /\ at'[d] = at[d]
        /\ \/ pc'[c] \in {"send", "done", "failed"} /\ at'[c] = at[c]
           \/ at'[c] = "online" /\ at[c] = "first"
    <3>1. PICK n \in 0 .. Len(Log(at[c])) :
            \/ pc' = [pc EXCEPT ![c] = "send"] /\ UNCHANGED at
            \/ /\ at[c] = "first" /\ pc' = [pc EXCEPT ![c] = "subscribe"]
               /\ at' = [at EXCEPT ![c] = "online"]
            \/ EndCall(c, IF Verifies(c, Heard(c, n)) THEN "done" ELSE "failed") /\ UNCHANGED at
      BY <1>2, ReadKinds
    <3> QED
      BY <3>1 DEF EndCall
  <2> QED
    BY <2>1 DEF RoomNames
<1>3. ASSUME NEW c \in Callers, ReadUnexpected(c) \/ Fail(c) PROVE Stays
  BY <1>3 DEF ReadUnexpected, Fail, EndCall
<1>4. ASSUME \/ \E c \in Callers, x \in RoomNames : DropStream(c, x)
             \/ Fault
      PROVE  Stays
  BY <1>4 DEF DropStream, Fault, Restart, Break
<1>5. CASE UNCHANGED vars
  BY <1>5 DEF vars
<1> QED
  BY <1>1, <1>2, <1>3, <1>4, <1>5 DEF Next, Proceed

LEMMA MessageSent ==
    ASSUME TypeInv, NEW c \in Callers, Send(c)
    PROVE  [sender |-> PartyInd(c), receiver |-> Receivers(c)[sent[c] + 1],
            round |-> round[c], of |-> c] \in Message
<1> USE DEF TypeInv, ComputationInv
<1>1. PartyInd(c) \in 1 .. N
  BY PartiesAssumption DEF PartyInd, PartyInv, Send, Callers
<1>2. sent[c] + 1 \in 1 .. Messages(c)
  <2>1. sent[c] \in Nat /\ sent[c] < Messages(c) /\ Messages(c) \in Nat
    BY PartiesAssumption DEF ShapeInv, SendInv, Send, Messages
  <2> QED
    BY <2>1
<1>3. Receivers(c)[sent[c] + 1] \in {All} \cup 1 .. N
  BY <1>1, <1>2, PartiesAssumption DEF Receivers, Messages, All
<1>4. round[c] \in Nat
  BY LastIsPositive DEF ShapeInv
<1> QED
  BY <1>1, <1>3, <1>4 DEF Message

(* What a step makes of the rooms: no more is in their logs than messages, *)
(* and an index is issued to a call that had none.                         *)
LEMMA RoomKept ==
    ASSUME TypeInv, [Next]_vars, NEW x \in RoomNames,
           Log(x)' \in Seq(Message), rooms'[x].next_idx \in Nat \ {0},
           \/ rooms'[x].next_idx <= rooms[x].next_idx
           \/ /\ rooms'[x].next_idx <= rooms[x].next_idx + 1
              /\ \E c \in Callers : ~HasIssued(c, x) /\ HasIssued(c, x)'
    PROVE  rooms'[x].next_idx <= 1 + Cardinality(Issuers(x)')
<1>1. rooms[x].next_idx \in Nat /\ rooms[x].next_idx <= 1 + Cardinality(Issuers(x))
  BY DEF TypeInv, RoomInv
<1>2. Issuers(x) \subseteq Issuers(x)'
  BY IssuedStays DEF TypeInv, Issuers
<1>3. /\ IsFiniteSet(Issuers(x)) /\ Cardinality(Issuers(x)) \in Nat
      /\ IsFiniteSet(Issuers(x)') /\ Cardinality(Issuers(x)') \in Nat
  <2>1. Issuers(x) \subseteq Callers /\ Issuers(x)' \subseteq Callers
    BY DEF Issuers
  <2> QED
    BY <2>1, CallersFinite, FS_Subset, FS_CardinalityType
<1>4. Cardinality(Issuers(x)) <= Cardinality(Issuers(x)')
  BY <1>2, <1>3, FS_Subset
<1>5. ASSUME NEW c \in Callers, ~HasIssued(c, x), HasIssued(c, x)'
      PROVE  Cardinality(Issuers(x)) + 1 <= Cardinality(Issuers(x)')
  <2>1. c \notin Issuers(x) /\ Issuers(x) \cup {c} \subseteq Issuers(x)'
    BY <1>2, <1>5 DEF Issuers
  <2>2. Cardinality(Issuers(x) \cup {c}) = Cardinality(Issuers(x)) + 1
    BY <1>3, <2>1, FS_AddElement
  <2>3. Cardinality(Issuers(x) \cup {c}) <= Cardinality(Issuers(x)')
    BY <1>3, <2>1, FS_Subset
  <2> QED
    BY <2>2, <2>3
<1> QED
  BY <1>1, <1>3, <1>4, <1>5

LEMMA FoundType ==
    ASSUME TypeInv, NEW x \in RoomNames
    PROVE  /\ Found(x).messages \in Seq(Message)
           /\ Found(x).next_idx \in Nat \ {0}
           /\ Found(x).next_idx <= rooms[x].next_idx
           /\ Found(x).watchers = rooms[x].watchers
           /\ Found(x) \in RoomType
<1>1. rooms[x].messages \in Seq(Message) /\ rooms[x].next_idx \in Nat \ {0}
  BY DEF TypeInv, RoomInv, Log
<1>2. CASE rooms[x].watchers = {}
  BY <1>1, <1>2, FoundRoom DEF Found, EmptyRoom, TypeInv, ComputationInv
<1>3. CASE rooms[x].watchers # {}
  BY <1>1, <1>3, FoundRoom DEF Found, TypeInv, ComputationInv
<1> QED
  BY <1>2, <1>3

(* An index is that of a room with an index to spare. *)
LEMMA IndexWithinParties ==
    ASSUME TypeInv, NEW c \in Callers, NEW x \in RoomNames, ~HasIssued(c, x)
    PROVE  rooms[x].next_idx \in 1 .. N
<1>1. Issuers(x) \subseteq Callers \ {c}
  BY DEF Issuers
<1>2. IsFiniteSet(Callers \ {c}) /\ Cardinality(Callers \ {c}) = N - 1
  BY CallersFinite, FS_RemoveElement
<1>3. Cardinality(Issuers(x)) <= N - 1 /\ Cardinality(Issuers(x)) \in Nat
  BY <1>1, <1>2, FS_Subset, FS_CardinalityType
<1>4. /\ rooms[x].next_idx \in Nat \ {0}
      /\ rooms[x].next_idx <= 1 + Cardinality(Issuers(x))
  BY DEF TypeInv, RoomInv
<1> QED
  BY <1>3, <1>4, PartiesAssumption

LEMMA SubscribeTypes ==
    ASSUME TypeInv, NEW c \in Callers, Subscribe(c)
    PROVE  RoomInv' /\ PartyInv'
<1>0. PICK x \in RoomNames : x = at[c]
  BY DEF TypeInv, ComputationInv, ShapeInv
<1> DEFINE r == [Found(x) EXCEPT !.watchers = @ \cup {c}]
<1>1. x \in RoomNames /\ rooms \in [RoomNames -> RoomType]
  BY DEF TypeInv, ComputationInv, ShapeInv, RoomType
<1>2. Found(x) \in RoomType
  BY <1>1, FoundType
<1>3. r.messages = Found(x).messages /\ r.next_idx = Found(x).next_idx
  BY <1>2 DEF RoomType
<1>4. rooms' = [rooms EXCEPT ![x] = r]
  BY <1>0 DEF Subscribe
<1> HIDE DEF r
<1>5. /\ Log(x)' = Found(x).messages /\ rooms'[x].next_idx = Found(x).next_idx
      /\ \A y \in RoomNames \ {x} : Log(y)' = Log(y) /\ rooms'[y].next_idx = rooms[y].next_idx
  BY <1>1, <1>3, <1>4 DEF Log
<1>6. RoomInv'
  <2> SUFFICES ASSUME NEW y \in RoomNames
               PROVE  /\ Log(y)' \in Seq(Message)
                      /\ rooms'[y].next_idx \in Nat \ {0}
                      /\ rooms'[y].next_idx <= 1 + Cardinality(Issuers(y)')
    BY DEF RoomInv
  <2>1. /\ Log(y)' \in Seq(Message) /\ rooms'[y].next_idx \in Nat \ {0}
        /\ rooms'[y].next_idx <= rooms[y].next_idx
    <3>1. CASE y = x
      BY <1>5, <3>1, FoundType
    <3>2. CASE y # x
      BY <1>5, <3>2 DEF TypeInv, RoomInv
    <3> QED
      BY <3>1, <3>2
  <2>2. [Next]_vars
    BY DEF Next
  <2> QED
    BY <2>1, <2>2, RoomKept
<1>7. PartyInv'
  <2>1. /\ UNCHANGED <<at, index, sent, got, faults>>
        /\ \A d \in Callers : pc'[d] \in {"send", "read"} => pc[d] \in {"send", "read"}
    BY DEF Subscribe, TypeInv, ComputationInv, ShapeInv
  <2>2. linked' \subseteq Callers \X RoomNames
    BY <1>0 DEF Subscribe, TypeInv, PartyInv
  <2> QED
    BY <2>1, <2>2 DEF PartyInv, TypeInv
<1> QED
  BY <1>6, <1>7

LEMMA IssueTypes ==
    ASSUME TypeInv, NEW c \in Callers, IssueIndex(c)
    PROVE  RoomInv' /\ PartyInv'
<1>0. PICK x \in RoomNames : x = at[c]
  BY DEF TypeInv, ComputationInv, ShapeInv
<1> DEFINE r == [Found(x) EXCEPT !.next_idx = @ + 1]
<1>1. x \in RoomNames /\ rooms \in [RoomNames -> RoomType]
  BY DEF TypeInv, ComputationInv, ShapeInv, RoomType
<1>2. Found(x) \in RoomType
  BY <1>1, FoundType
<1>3. r.messages = Found(x).messages /\ r.next_idx = Found(x).next_idx + 1
  BY <1>2 DEF RoomType
<1>4. rooms' = [rooms EXCEPT ![x] = r]
  BY <1>0 DEF IssueIndex
<1> HIDE DEF r
<1>5. /\ Log(x)' = Found(x).messages /\ rooms'[x].next_idx = Found(x).next_idx + 1
      /\ \A y \in RoomNames \ {x} : Log(y)' = Log(y) /\ rooms'[y].next_idx = rooms[y].next_idx
  BY <1>1, <1>3, <1>4 DEF Log
<1>6. ~HasIssued(c, x) /\ HasIssued(c, x)'
  BY <1>0 DEF IssueIndex, HasIssued, TypeInv, ComputationInv, ShapeInv, RoomNames
<1>7. index' = [index EXCEPT ![c] = Found(x).next_idx]
  BY <1>0 DEF IssueIndex
<1>8. RoomInv'
  <2> SUFFICES ASSUME NEW y \in RoomNames
               PROVE  /\ Log(y)' \in Seq(Message)
                      /\ rooms'[y].next_idx \in Nat \ {0}
                      /\ rooms'[y].next_idx <= 1 + Cardinality(Issuers(y)')
    BY DEF RoomInv
  <2>1. [Next]_vars
    BY DEF Next, Proceed
  <2>2. CASE y = x
    <3>1. /\ Log(y)' \in Seq(Message) /\ rooms'[y].next_idx \in Nat \ {0}
          /\ rooms'[y].next_idx <= rooms[y].next_idx + 1
      BY <1>5, <2>2, FoundType DEF TypeInv, RoomInv
    <3> QED
      BY <1>6, <2>1, <2>2, <3>1, RoomKept
  <2>3. CASE y # x
    <3>1. /\ Log(y)' \in Seq(Message) /\ rooms'[y].next_idx \in Nat \ {0}
          /\ rooms'[y].next_idx <= rooms[y].next_idx
      BY <1>5, <2>3 DEF TypeInv, RoomInv
    <3> QED
      BY <2>1, <3>1, RoomKept
  <2> QED
    BY <2>2, <2>3
<1>9. PartyInv'
  <2>1. /\ UNCHANGED <<at, sent, got, linked, faults>>
        /\ \A d \in Callers \ {c} : pc'[d] = pc[d]
    BY DEF IssueIndex, TypeInv, ComputationInv, ShapeInv
  <2>2. Found(x).next_idx \in 1 .. N
    BY <1>1, <1>6, FoundType, IndexWithinParties, PartiesAssumption
  <2>3. /\ index' \in [Callers -> 0 .. N] /\ index'[c] >= 1
        /\ \A d \in Callers \ {c} : index'[d] = index[d]
    BY <1>7, <2>2 DEF TypeInv, PartyInv
  <2>4. \A d \in Callers : pc'[d] \in {"send", "read"} \/ at[d] = "online" => index'[d] >= 1
    BY <2>1, <2>3 DEF TypeInv, PartyInv
  <2> QED
    BY <2>1, <2>3, <2>4 DEF PartyInv, TypeInv
<1> QED
  BY <1>8, <1>9

LEMMA SendTypes ==
    ASSUME TypeInv, NEW c \in Callers, Send(c)
    PROVE  RoomInv' /\ PartyInv'
<1>0. PICK x \in RoomNames : x = at[c]
  BY DEF TypeInv, ComputationInv, ShapeInv
<1> DEFINE m == [sender |-> PartyInd(c), receiver |-> Receivers(c)[sent[c] + 1],
                 round |-> round[c], of |-> c]
           messages == Append(Found(x).messages, m)
           r == [Found(x) EXCEPT !.messages = messages]
<1>1. x \in RoomNames /\ rooms \in [RoomNames -> RoomType]
  BY DEF TypeInv, ComputationInv, ShapeInv, RoomType
<1>2. m \in Message
  BY MessageSent
<1>3. rooms' = [rooms EXCEPT ![x] = r]
  BY <1>0 DEF Send
<1> HIDE DEF m
<1>4. messages \in Seq(Message)
  BY <1>1, <1>2, FoundType
<1> HIDE DEF messages
<1>5. r.messages = messages /\ r.next_idx = Found(x).next_idx
  BY <1>1, FoundType DEF RoomType
<1> HIDE DEF r
<1>6. /\ Log(x)' = messages /\ rooms'[x].next_idx = Found(x).next_idx
      /\ \A y \in RoomNames \ {x} : Log(y)' = Log(y) /\ rooms'[y].next_idx = rooms[y].next_idx
  BY <1>1, <1>3, <1>5 DEF Log
<1>7. RoomInv'
  <2> SUFFICES ASSUME NEW y \in RoomNames
               PROVE  /\ Log(y)' \in Seq(Message)
                      /\ rooms'[y].next_idx \in Nat \ {0}
                      /\ rooms'[y].next_idx <= 1 + Cardinality(Issuers(y)')
    BY DEF RoomInv
  <2>1. /\ Log(y)' \in Seq(Message) /\ rooms'[y].next_idx \in Nat \ {0}
        /\ rooms'[y].next_idx <= rooms[y].next_idx
    <3>1. CASE y = x
      BY <1>4, <1>6, <3>1, FoundType
    <3>2. CASE y # x
      BY <1>6, <3>2 DEF TypeInv, RoomInv
    <3> QED
      BY <3>1, <3>2
  <2>2. [Next]_vars
    BY DEF Next, Proceed
  <2> QED
    BY <2>1, <2>2, RoomKept
<1>8. PartyInv'
  <2>1. /\ UNCHANGED <<at, index, got, linked, faults>>
        /\ \A d \in Callers : pc'[d] \in {"send", "read"} => pc[d] \in {"send", "read"}
    BY DEF Send, TypeInv, ComputationInv, ShapeInv
  <2>2. sent[c] + 1 \in 0 .. N - 1
    <3>1. sent[c] \in Nat /\ sent[c] < Messages(c)
      BY DEF Send, SendInv, TypeInv, ComputationInv, ShapeInv
    <3>2. Messages(c) \in Nat /\ Messages(c) <= N - 1
      BY PartiesAssumption DEF Messages
    <3> QED
      BY <3>1, <3>2, PartiesAssumption
  <2>3. sent' \in [Callers -> 0 .. N - 1]
    BY <2>2 DEF Send, TypeInv, PartyInv
  <2> QED
    BY <2>1, <2>3 DEF PartyInv, TypeInv
<1> QED
  BY <1>7, <1>8

(* Steps that leave the rooms as they are, or lose them. *)
LEMMA OtherTypes ==
    ASSUME TypeInv, [Next]_vars, UNCHANGED index,
           sent' \in [Callers -> 0 .. N - 1], got' \in [Callers -> SUBSET Message],
           linked' \subseteq Callers \X RoomNames, faults' \in 0 .. MaxFaults,
           \A d \in Callers : pc'[d] \in {"send", "read"} \/ at'[d] = "online" =>
               pc[d] \in {"send", "read"} \/ at[d] = "online",
           \A x \in RoomNames :
               \/ Log(x)' = Log(x) /\ rooms'[x].next_idx = rooms[x].next_idx
               \/ rooms'[x] = EmptyRoom
    PROVE  RoomInv' /\ PartyInv'
<1>1. RoomInv'
  <2> SUFFICES ASSUME NEW x \in RoomNames
               PROVE  /\ Log(x)' \in Seq(Message)
                      /\ rooms'[x].next_idx \in Nat \ {0}
                      /\ rooms'[x].next_idx <= 1 + Cardinality(Issuers(x)')
    BY DEF RoomInv
  <2>1. EmptyRoom.messages \in Seq(Message) /\ EmptyRoom.next_idx = 1
    BY DEF EmptyRoom
  <2>2. /\ Log(x) \in Seq(Message) /\ rooms[x].next_idx \in Nat \ {0}
    BY DEF TypeInv, RoomInv
  <2>3. /\ Log(x)' \in Seq(Message) /\ rooms'[x].next_idx \in Nat \ {0}
        /\ rooms'[x].next_idx <= rooms[x].next_idx
    <3>1. CASE Log(x)' = Log(x) /\ rooms'[x].next_idx = rooms[x].next_idx
      BY <2>2, <3>1
    <3>2. CASE rooms'[x] = EmptyRoom
      BY <2>1, <2>2, <3>2 DEF Log
    <3> QED
      BY <3>1, <3>2
  <2> QED
    BY <2>3, RoomKept
<1>2. PartyInv'
  BY DEF TypeInv, PartyInv
<1> QED
  BY <1>1, <1>2

LEMMA TypeStep == ASSUME TypeInv, [Next]_vars PROVE TypeInv'
<1> DEFINE Types == RoomInv' /\ PartyInv'
<1>1. ASSUME NEW c \in Callers, Subscribe(c) PROVE Types
  BY <1>1, SubscribeTypes
<1>2. ASSUME NEW c \in Callers, IssueIndex(c) PROVE Types
  BY <1>2, IssueTypes
<1>3. ASSUME NEW c \in Callers, Send(c) PROVE Types
  BY <1>3, SendTypes
<1>4. ASSUME NEW c \in Callers, Read(c) PROVE Types
  <2>1. PICK n \in 0 .. Len(Log(at[c])) :
             /\ got' = [got EXCEPT ![c] = Heard(c, n)]
             /\ pc[c] = "read" /\ UNCHANGED <<index, rooms, faults>>
             /\ sent' = sent \/ sent' = [sent EXCEPT ![c] = 0]
             /\ \A d \in Callers \ {c} : pc'[d] = pc[d] /\ at'[d] = at[d]
             /\ linked' \subseteq linked
    <3>1. PICK n \in 0 .. Len(Log(at[c])) :
             /\ got' = [got EXCEPT ![c] = Heard(c, n)]
             /\ pc[c] = "read" /\ UNCHANGED <<index, rooms, faults>>
             /\ \/ /\ sent' = [sent EXCEPT ![c] = 0]
                   /\ pc' = [pc EXCEPT ![c] = "send"] /\ UNCHANGED <<at, linked>>
                \/ /\ sent' = [sent EXCEPT ![c] = 0]
                   /\ pc' = [pc EXCEPT ![c] = "subscribe"] /\ at' = [at EXCEPT ![c] = "online"]
                   /\ UNCHANGED linked
                \/ /\ EndCall(c, IF Verifies(c, Heard(c, n)) THEN "done" ELSE "failed")
                   /\ UNCHANGED <<at, sent>>
      BY <1>4, ReadKinds DEF TypeInv
    <3>2. /\ sent' = sent \/ sent' = [sent EXCEPT ![c] = 0]
          /\ \A d \in Callers \ {c} : pc'[d] = pc[d] /\ at'[d] = at[d]
          /\ linked' \subseteq linked
      BY <3>1 DEF EndCall, TypeInv, ComputationInv, ShapeInv
    <3> QED
      BY <3>1, <3>2
  <2>2. Heard(c, n) \in SUBSET Message
    <3>1. at[c] \in RoomNames
      BY DEF TypeInv, ComputationInv, ShapeInv
    <3>2. Log(at[c]) \in Seq(Message)
      BY <3>1 DEF TypeInv, RoomInv
    <3>3. \A k \in 1 .. Len(Log(at[c])) : Log(at[c])[k] \in Message
      BY <3>2
    <3> QED
      BY <3>3, HeardIsRead DEF TypeInv
  <2> DEFINE H == Heard(c, n)
  <2> HIDE DEF H
  <2>3. got' = [got EXCEPT ![c] = H] /\ H \in SUBSET Message
    BY <2>1, <2>2 DEF H
  <2>4. got' \in [Callers -> SUBSET Message]
    BY <2>3 DEF TypeInv, PartyInv
  <2>5. sent' \in [Callers -> 0 .. N - 1]
    BY <2>1, PartiesAssumption DEF TypeInv, PartyInv
  <2>6. linked' \subseteq Callers \X RoomNames /\ faults' \in 0 .. MaxFaults
    BY <2>1 DEF TypeInv, PartyInv
  <2>7. \A d \in Callers : pc'[d] \in {"send", "read"} \/ at'[d] = "online" =>
               pc[d] \in {"send", "read"} \/ at[d] = "online"
    BY <2>1
  <2>8. \A x \in RoomNames : Log(x)' = Log(x) /\ rooms'[x].next_idx = rooms[x].next_idx
    BY <2>1 DEF Log
  <2> QED
    BY <2>1, <2>4, <2>5, <2>6, <2>7, <2>8, OtherTypes
<1>5. ASSUME NEW c \in Callers, ReadUnexpected(c) \/ Fail(c) PROVE Types
  <2>1. /\ UNCHANGED <<index, sent, got, at, rooms, faults>> /\ linked' \subseteq linked
        /\ pc' = [pc EXCEPT ![c] = "failed"]
    BY <1>5 DEF ReadUnexpected, Fail, EndCall
  <2>2. \A d \in Callers : pc'[d] \in {"send", "read"} => pc[d] \in {"send", "read"}
    BY <2>1 DEF TypeInv, ComputationInv, ShapeInv
  <2>3. \A x \in RoomNames : Log(x)' = Log(x) /\ rooms'[x].next_idx = rooms[x].next_idx
    BY <2>1 DEF Log
  <2> QED
    BY <2>1, <2>2, <2>3, OtherTypes DEF TypeInv, PartyInv
<1>6. ASSUME NEW c \in Callers, NEW x \in RoomNames, DropStream(c, x) PROVE Types
  <2>1. UNCHANGED <<index, sent, got, at, pc, linked, faults>>
    BY <1>6 DEF DropStream
  <2>2. \A y \in RoomNames : Log(y)' = Log(y) /\ rooms'[y].next_idx = rooms[y].next_idx
    BY <1>6 DEF DropStream, Log, TypeInv, ComputationInv, ShapeInv
  <2> QED
    BY <2>1, <2>2, OtherTypes DEF TypeInv, PartyInv
<1>7. ASSUME Fault PROVE Types
  <2>1. UNCHANGED <<index, sent, got, at, pc>> /\ linked' \subseteq linked
    BY <1>7 DEF Fault, Restart, Break
  <2>2. faults' \in 0 .. MaxFaults
    BY <1>7, FaultsAssumption DEF Fault, Restart, Break, TypeInv, PartyInv
  <2>3. \A x \in RoomNames :
               \/ Log(x)' = Log(x) /\ rooms'[x].next_idx = rooms[x].next_idx
               \/ rooms'[x] = EmptyRoom
    BY <1>7 DEF Fault, Restart, Break, Log
  <2> QED
    BY <2>1, <2>2, <2>3, OtherTypes DEF TypeInv, PartyInv
<1>8. ASSUME UNCHANGED vars PROVE Types
  <2>1. \A x \in RoomNames : Log(x)' = Log(x) /\ rooms'[x].next_idx = rooms[x].next_idx
    BY <1>8 DEF vars, Log
  <2> QED
    BY <1>8, <2>1, OtherTypes DEF vars, TypeInv, PartyInv
<1>9. Types
  BY <1>1, <1>2, <1>3, <1>4, <1>5, <1>6, <1>7, <1>8 DEF Next, Proceed
<1> QED
  BY <1>9, ComputationStep DEF TypeInv

(* The types hold, whatever fails: no party is given an index above the    *)
(* number of parties, and none sends more than a round has.                *)
THEOREM TypeCorrect == Spec => []TypeOK
<1>1. TypeInv => TypeOK
  <2> SUFFICES ASSUME TypeInv PROVE TypeOK
    OBVIOUS
  <2>1. ASSUME NEW x \in RoomNames PROVE rooms[x].next_idx \in 1 .. N + 1
    <3>1. Cardinality(Issuers(x)) <= N /\ Cardinality(Issuers(x)) \in Nat
      <4>1. Issuers(x) \subseteq Callers
        BY DEF Issuers
      <4> QED
        BY <4>1, CallersFinite, FS_Subset, FS_CardinalityType
    <3>2. /\ rooms[x].next_idx \in Nat \ {0}
          /\ rooms[x].next_idx <= 1 + Cardinality(Issuers(x))
      BY DEF TypeInv, RoomInv
    <3> QED
      BY <3>1, <3>2, PartiesAssumption
  <2>2. \A x \in RoomNames : rooms[x].messages \in Seq(Message) /\ rooms[x].watchers \subseteq Callers
    BY DEF TypeInv, RoomInv, ComputationInv, ShapeInv, Log
  <2>3. DOMAIN rooms = RoomNames
    BY DEF TypeInv, ComputationInv, ShapeInv
  <2> QED
    BY <2>1, <2>2, <2>3 DEF TypeInv, ComputationInv, ShapeInv, PartyInv, TypeOK
<1> QED
  BY TypeInit, TypeStep, <1>1, PTL DEF Spec

-----------------------------------------------------------------------------
(* Parties that join in turn, as long as nothing fails. *)

(* Call c has subscribed to room x. *)
InRoom(c, x) == HasIssued(c, x) \/ (at[c] = x /\ pc[c] = "issue")

(* Nobody fails, and every call has its streams until it returns. *)
LinkInv ==
    \A c \in Callers :
        /\ pc[c] # "failed"
        /\ \A x \in RoomNames : InRoom(c, x) /\ pc[c] # "done" =>
               <<c, x>> \in linked /\ c \in rooms[x].watchers

(* A call leaves a room when all have joined it. *)
PassInv ==
    \A c, d \in Callers :
        /\ at[c] = "online" => HasIssued(d, "first")
        /\ pc[c] = "done" => HasIssued(d, at[c])

(* A call that joins has sent nothing in its round; one that reads, all;   *)
(* and one that returns has gone through all rounds.                       *)
StartInv ==
    \A c \in Callers :
        /\ pc[c] \in {"subscribe", "issue"} =>
               sent[c] = 0 /\ (at[c] = "first" => round[c] = 1)
        /\ pc[c] \in {"read", "done"} => sent[c] = Messages(c)
        /\ pc[c] = "done" => round[c] >= Last /\ (kind = "sign" => at[c] = "online")

(* In the first room the parties have the indices they were given. *)
IndexInv ==
    \A c \in Callers :
        /\ HasIssued(c, "first") <=> c < rooms["first"].next_idx
        /\ ~HasIssued(c, "first") => index[c] = 0
        /\ HasIssued(c, "first") /\ at[c] = "first" => index[c] = c
        /\ pc[c] = "issue" /\ at[c] = "first" =>
               \A d \in 1 .. c - 1 : HasIssued(d, "first")

(* In the online room they have different ones. *)
OnlineIndexInv ==
    \A c \in Callers : HasIssued(c, "online") =>
        /\ index[c] < rooms["online"].next_idx
        /\ \A d \in Callers : HasIssued(d, "online") /\ d # c => index[d] # index[c]

(* What call d has sent in the first room: one message in round r to each  *)
(* it addresses, in order.                                                 *)
Addressed(d, r) == IF IsP2p(r) THEN Callers \ {d} ELSE {All}

Place(d, r, to) == IF IsP2p(r) THEN (IF to > d THEN to - 1 ELSE to) ELSE 1

Posted(d, r, to) ==
    /\ r \in 1 .. Last /\ to \in Addressed(d, r)
    /\ r < round[d] \/ (r = round[d] /\ Place(d, r, to) <= sent[d])

Sound ==
    \A k \in 1 .. Len(Log("first")) :
        LET m == Log("first")[k] IN m.sender = m.of /\ Posted(m.of, m.round, m.receiver)

Same(l, m) == l.of = m.of /\ l.round = m.round /\ l.receiver = m.receiver

Once == \A j, k \in 1 .. Len(Log("first")) : Same(Log("first")[j], Log("first")[k]) => j = k

Has(d, r, to) ==
    \E k \in 1 .. Len(Log("first")) :
        LET m == Log("first")[k] IN m.of = d /\ m.round = r /\ m.receiver = to

There == \A d \in Callers : \A r, to \in Nat : Posted(d, r, to) => Has(d, r, to)

(* The same of the online room, with OnlineInv. *)
OnlineLogInv ==
    /\ \A k \in 1 .. Len(Log("online")) :
         Log("online")[k].round = Last + 1 /\ Log("online")[k].receiver = All
    /\ \A d \in Callers : at[d] = "online" /\ sent[d] > 0 =>
         \E k \in 1 .. Len(Log("online")) : Log("online")[k].of = d

LogInv == Sound /\ Once /\ There /\ OnlineLogInv

Calm == LinkInv /\ PassInv /\ StartInv /\ IndexInv /\ OnlineIndexInv /\ LogInv

(* Nobody has read more of its room than there is. *)
CursorInv ==
    \A c \in Callers : pc[c] \in {"issue", "send", "read"} => cursor[c] <= Len(Log(at[c]))

StaggeredInv == TypeInv /\ (faults = 0 => Calm /\ CursorInv)

LEMMA PlaceBounds ==
    ASSUME NEW d \in Callers, NEW r, NEW to \in Addressed(d, r)
    PROVE  Place(d, r, to) \in 1 .. IF IsP2p(r) THEN N - 1 ELSE 1
  BY PartiesAssumption DEF Addressed, Place, Callers

LEMMA CalmInit == Init => StaggeredInv
<1> SUFFICES ASSUME Init PROVE StaggeredInv
  OBVIOUS
<1>1. TypeInv /\ "first" \in RoomNames /\ "online" \in RoomNames
  BY TypeInit DEF RoomNames
<1>2. \A c \in Callers : \A x \in RoomNames : ~HasIssued(c, x) /\ ~InRoom(c, x)
  BY DEF Init, HasIssued, InRoom, RoomNames
<1>3. \A x \in RoomNames : Len(Log(x)) = 0 /\ rooms[x].next_idx = 1
  BY DEF Init, Log, EmptyRoom
<1>4. LinkInv /\ PassInv /\ StartInv
  BY <1>2 DEF Init, LinkInv, PassInv, StartInv
<1>5. IndexInv /\ OnlineIndexInv
  BY <1>1, <1>2, <1>3 DEF Init, IndexInv, OnlineIndexInv, Callers
<1>6. Sound /\ Once /\ OnlineLogInv
  BY <1>1, <1>3 DEF Init, Sound, Once, OnlineLogInv
<1>7. \A d \in Callers : \A r, to \in Nat : ~Posted(d, r, to)
  <2> SUFFICES ASSUME NEW d \in Callers, NEW r \in Nat, NEW to \in Nat, Posted(d, r, to)
               PROVE  FALSE
    OBVIOUS
  <2>1. r = 1 /\ Place(d, r, to) <= 0 /\ to \in Addressed(d, r)
    BY DEF Init, Posted
  <2>2. Place(d, r, to) \in 1 .. IF IsP2p(r) THEN N - 1 ELSE 1
    BY <2>1, PlaceBounds
  <2> QED
    BY <2>1, <2>2, PartiesAssumption
<1>8. CursorInv
  BY DEF Init, CursorInv
<1> QED
  BY <1>1, <1>4, <1>5, <1>6, <1>7, <1>8 DEF StaggeredInv, Calm, LogInv, There

(* Whoever has sent something in the first room has its index. *)
LEMMA PostedIssued ==
    ASSUME TypeInv, Calm, NEW d \in Callers, NEW r, NEW to, Posted(d, r, to)
    PROVE  HasIssued(d, "first")
<1> SUFFICES ASSUME ~HasIssued(d, "first") PROVE FALSE
  OBVIOUS
<1>1. pc[d] \in {"subscribe", "issue"} /\ at[d] = "first"
  BY DEF HasIssued, TypeInv, ComputationInv, ShapeInv, RoomNames
<1>2. sent[d] = 0 /\ round[d] = 1
  BY <1>1 DEF Calm, StartInv
<1>3. r = 1 /\ Place(d, r, to) <= 0 /\ to \in Addressed(d, r)
  BY <1>2, LastIsPositive DEF Posted, TypeInv, ComputationInv, ShapeInv
<1>4. Place(d, r, to) \in 1 .. IF IsP2p(r) THEN N - 1 ELSE 1
  BY <1>3, PlaceBounds
<1> QED
  BY <1>3, <1>4, PartiesAssumption

LEMMA AuthorIssued ==
    ASSUME TypeInv, Calm, NEW x \in RoomNames, NEW k \in 1 .. Len(Log(x))
    PROVE  HasIssued(Log(x)[k].of, x)
<1>1. Log(x)[k].of \in Callers
  BY LogAuthors DEF TypeInv, ComputationInv
<1>2. CASE x = "first"
  BY <1>1, <1>2, PostedIssued DEF Calm, LogInv, Sound
<1>3. CASE x = "online"
  BY <1>3 DEF TypeInv, ComputationInv, OnlineInv, HasIssued
<1> QED
  BY <1>2, <1>3 DEF RoomNames

(* A room is not replaced under a call; only one that nobody has joined is *)
(* made anew.                                                              *)
LEMMA FoundCalm ==
    ASSUME TypeInv, Calm, NEW c \in Callers, pc[c] \in {"subscribe", "issue", "send"}
    PROVE  \/ Found(at[c]) = rooms[at[c]]
           \/ /\ pc[c] = "subscribe" /\ Found(at[c]) = EmptyRoom
              /\ \A d \in Callers : ~InRoom(d, at[c])
<1>1. PICK x \in RoomNames : x = at[c]
  BY DEF TypeInv, ComputationInv, ShapeInv
<1>2. CASE rooms[x].watchers # {}
  BY <1>1, <1>2 DEF Found
<1>3. CASE rooms[x].watchers = {}
  <2>1. pc[c] = "subscribe"
    <3>1. pc[c] # "subscribe" => InRoom(c, x)
      BY <1>1 DEF InRoom, HasIssued, RoomNames
    <3> QED
      BY <1>3, <3>1 DEF Calm, LinkInv
  <2>2. ASSUME NEW d \in Callers, InRoom(d, x) PROVE FALSE
    <3>1. pc[d] = "done"
      BY <1>3, <2>2 DEF Calm, LinkInv
    <3>2. ~HasIssued(c, x)
      BY <1>1, <2>1 DEF HasIssued, RoomNames
    <3>3. at[d] = x \/ (x = "first" /\ at[d] = "online")
      BY <2>2 DEF InRoom, HasIssued, TypeInv, ComputationInv, ShapeInv, RoomNames
    <3> QED
      BY <3>1, <3>2, <3>3 DEF Calm, PassInv
  <2> QED
    BY <1>1, <1>3, <2>1, <2>2 DEF Found
<1> QED
  BY <1>2, <1>3

(* What passes the filter is what the protocol expects. *)
LEMMA PassesFits ==
    ASSUME TypeInv, Calm, NEW c \in Callers, pc[c] \in {"send", "read"},
           NEW k \in 1 .. Len(Log(at[c])), Passes(c, Log(at[c])[k])
    PROVE  Fits(c, k)
<1>1. CASE at[c] = "online"
  BY <1>1 DEF Fits
<1>2. CASE at[c] = "first"
  <2>1. index[c] = c /\ PartyInd(c) = c
    BY <1>2 DEF Calm, IndexInv, HasIssued, PartyInd
  <2> DEFINE log == Log("first")
  <2>2. /\ log \in Seq(Message) /\ Len(log) \in Nat /\ k \in 1 .. Len(log)
        /\ \A j \in 1 .. Len(log) : log[j] \in Message
    <3>1. log \in Seq(Message)
      BY DEF TypeInv, RoomInv, RoomNames
    <3> HIDE DEF log
    <3>2. Len(log) \in Nat /\ \A j \in 1 .. Len(log) : log[j] \in Message
      BY <3>1
    <3> QED
      BY <1>2, <3>1, <3>2 DEF log
  <2>3. log[k].sender \in 1 .. N /\ log[k].sender # c /\ log[k].receiver \in {All, c}
    BY <1>2, <2>1, <2>2 DEF Passes, Message
  <2>4. ASSUME NEW j \in 1 .. k - 1, Passes(c, log[j]),
               log[j].sender = log[k].sender, log[j].round = log[k].round
        PROVE  FALSE
    <3>1. j \in 1 .. Len(log) /\ j # k
      BY <2>2
    <3>2. /\ log[j].sender = log[j].of /\ Posted(log[j].of, log[j].round, log[j].receiver)
          /\ log[k].sender = log[k].of /\ Posted(log[k].of, log[k].round, log[k].receiver)
      BY <2>2, <3>1 DEF Calm, LogInv, Sound
    <3>3. log[j].receiver \in {All, c}
      BY <2>1, <2>4 DEF Passes
    <3>4. log[j].receiver = log[k].receiver
      BY <2>3, <2>4, <3>2, <3>3 DEF Posted, Addressed, All, Callers
    <3> QED
      BY <2>2, <2>4, <3>1, <3>2, <3>4 DEF Calm, LogInv, Once, Same
  <2> QED
    BY <1>2, <2>1, <2>3, <2>4 DEF Fits, Log
<1> QED
  BY <1>1, <1>2 DEF TypeInv, ComputationInv, ShapeInv, RoomNames

(* So nobody rejects a message, or misses its stream. *)
LEMMA NoneRejects ==
    ASSUME TypeInv, Calm, NEW c \in Callers
    PROVE  ~ReadUnexpected(c) /\ ~Fail(c)
<1>1. at[c] \in RoomNames /\ cursor[c] \in Nat
  BY DEF TypeInv, ComputationInv, ShapeInv
<1>2. ~ReadUnexpected(c)
  BY <1>1, PassesFits DEF ReadUnexpected, Log
<1>3. ~Fail(c)
  BY <1>1 DEF Fail, Calm, LinkInv, InRoom, HasIssued, RoomNames
<1> QED
  BY <1>2, <1>3

(* Steps that write no message. *)
LEMMA LogsSame ==
    ASSUME Calm, kind' = kind,
           Log("first")' = Log("first"), Log("online")' = Log("online"),
           \A d \in Callers : \A r, to : Posted(d, r, to)' <=> Posted(d, r, to),
           \A d \in Callers : at'[d] = "online" /\ sent'[d] > 0 => at[d] = "online" /\ sent[d] > 0,
           \A k \in 1 .. Len(Log("first")) : Log("first")[k].of \in Callers
    PROVE  LogInv'
<1> USE DEF Calm, LogInv
<1>1. Sound'
  BY DEF Sound
<1>2. Once'
  BY DEF Once, Same
<1>3. There'
  BY DEF There, Has
<1>4. OnlineLogInv'
  BY DEF OnlineLogInv, Last
<1> QED
  BY <1>1, <1>2, <1>3, <1>4

LEMMA Authors ==
    ASSUME TypeInv
    PROVE  \A x \in RoomNames : \A k \in 1 .. Len(Log(x)) : Log(x)[k].of \in Callers
  BY LogAuthors DEF TypeInv, ComputationInv

LEMMA Lower == \A c \in Callers : \A d \in 1 .. c - 1 : d \in Callers
  BY PartiesAssumption DEF Callers

LEMMA SubscribeCalm ==
    ASSUME TypeInv, Calm, NEW c \in Callers, JoinInTurn(c)
    PROVE  Calm'
<1>0. PICK x \in RoomNames : x = at[c]
  BY DEF TypeInv, ComputationInv, ShapeInv
<1>1. /\ UNCHANGED <<kind, at, index, round, sent, faults>>
      /\ pc[c] = "subscribe" /\ pc' = [pc EXCEPT ![c] = "issue"]
      /\ linked' = linked \cup {<<c, x>>}
      /\ rooms' = [rooms EXCEPT ![x] = [Found(x) EXCEPT !.watchers = @ \cup {c}]]
  BY <1>0 DEF JoinInTurn, Subscribe
<1>2. pc'[c] = "issue" /\ \A d \in Callers \ {c} : pc'[d] = pc[d]
  BY <1>1 DEF TypeInv, ComputationInv, ShapeInv
<1>3. \A d \in Callers : \A y \in RoomNames :
        /\ HasIssued(d, y)' <=> HasIssued(d, y)
        /\ InRoom(d, y)' <=> InRoom(d, y) \/ (d = c /\ y = x)
  BY <1>0, <1>1, <1>2 DEF HasIssued, InRoom, RoomNames
<1> DEFINE r == [Found(x) EXCEPT !.watchers = @ \cup {c}]
<1>4. /\ Found(x) \in RoomType /\ rooms \in [RoomNames -> RoomType]
      /\ Found(x).watchers = rooms[x].watchers
  BY FoundType DEF TypeInv, ComputationInv, ShapeInv, RoomType
<1>5. /\ r.messages = Found(x).messages /\ r.next_idx = Found(x).next_idx
      /\ r.watchers = rooms[x].watchers \cup {c}
  BY <1>4 DEF RoomType
<1> HIDE DEF r
<1>6. /\ rooms'[x] = r /\ \A y \in RoomNames \ {x} : rooms'[y] = rooms[y]
  BY <1>1, <1>4 DEF r
<1>7. \/ Log(x)' = Log(x) /\ rooms'[x].next_idx = rooms[x].next_idx
      \/ /\ Len(Log(x)') = 0 /\ rooms'[x].next_idx = 1
         /\ \A d \in Callers : ~InRoom(d, x)
  <2>1. CASE Found(x) = rooms[x]
    BY <1>5, <1>6, <2>1 DEF Log
  <2>2. CASE Found(x) = EmptyRoom /\ \A d \in Callers : ~InRoom(d, x)
    BY <1>5, <1>6, <2>2 DEF Log, EmptyRoom
  <2> QED
    BY <1>0, <1>1, <2>1, <2>2, FoundCalm
<1>8. "first" \in RoomNames /\ "online" \in RoomNames
  BY DEF RoomNames
<1>9. LinkInv'
  <2> SUFFICES ASSUME NEW d \in Callers, NEW y \in RoomNames, InRoom(d, y)', pc'[d] # "done"
               PROVE  <<d, y>> \in linked' /\ d \in rooms'[y].watchers
    BY <1>2 DEF LinkInv, Calm
  <2>1. rooms[y].watchers \subseteq rooms'[y].watchers
    BY <1>5, <1>6
  <2>2. CASE d = c /\ y = x
    BY <1>1, <1>5, <1>6, <2>2
  <2>3. CASE InRoom(d, y)
    <3>1. pc[d] # "done"
      BY <1>1, <1>2
    <3> QED
      BY <1>1, <2>1, <2>3, <3>1 DEF Calm, LinkInv
  <2> QED
    BY <1>3, <2>2, <2>3
<1>10. PassInv'
  <2>1. at \in [Callers -> RoomNames]
    BY DEF TypeInv, ComputationInv, ShapeInv
  <2> QED
    BY <1>1, <1>2, <1>3, <1>8, <2>1 DEF PassInv, Calm
<1>11. StartInv'
  <2>1. Last' = Last /\ \A d \in Callers : Messages(d)' = Messages(d)
    BY <1>1 DEF Messages, IsP2p, Last
  <2> QED
    BY <1>1, <1>2, <2>1 DEF StartInv, Calm
<1>12. IndexInv'
  <2>1. \A d \in Callers : HasIssued(d, "first") <=> d < rooms'["first"].next_idx
    <3>1. CASE rooms'["first"].next_idx = rooms["first"].next_idx
      BY <3>1 DEF Calm, IndexInv
    <3>2. CASE rooms'["first"].next_idx = 1 /\ \A d \in Callers : ~InRoom(d, "first")
      BY <3>2 DEF InRoom, Callers
    <3> QED
      BY <1>6, <1>7, <1>8, <3>1, <3>2
  <2>2. ASSUME x = "first" PROVE \A d \in 1 .. c - 1 : HasIssued(d, "first")
    <3> SUFFICES ASSUME NEW d \in 1 .. c - 1 PROVE HasIssued(d, "first")
      OBVIOUS
    <3>1. d \in Callers
      BY Lower
    <3>2. index[d] # 0 \/ pc[d] = "failed"
      BY <1>0, <2>2 DEF JoinInTurn, InTurn
    <3> QED
      BY <3>1, <3>2 DEF Calm, LinkInv, IndexInv
  <2>3. \A e \in Callers : \A d \in 1 .. e - 1 : d \in Callers
    BY Lower
  <2>4. \A d \in Callers : pc'[d] = "issue" /\ at[d] = "first" =>
          \A e \in 1 .. d - 1 : HasIssued(e, "first")
    BY <1>0, <1>2, <2>2 DEF Calm, IndexInv
  <2> QED
    BY <1>1, <1>3, <1>8, <2>1, <2>3, <2>4 DEF Calm, IndexInv
<1>13. OnlineIndexInv'
  <2>1. CASE rooms'["online"].next_idx = rooms["online"].next_idx
    BY <1>1, <1>3, <1>8, <2>1 DEF Calm, OnlineIndexInv
  <2>2. CASE \A d \in Callers : ~InRoom(d, "online")
    BY <1>3, <1>8, <2>2 DEF OnlineIndexInv, InRoom
  <2> QED
    BY <1>6, <1>7, <1>8, <2>1, <2>2
<1>14. LogInv'
  <2>1. \A d \in Callers : \A q, to : Posted(d, q, to)' <=> Posted(d, q, to)
    BY <1>1 DEF Posted, Addressed, Place, IsP2p, Last
  <2>2. CASE Log(x)' = Log(x)
    <3>1. Log("first")' = Log("first") /\ Log("online")' = Log("online")
      BY <1>6, <1>8, <2>2 DEF Log
    <3> QED
      BY <1>1, <1>8, <2>1, <3>1, LogsSame, Authors
  <2>3. CASE /\ Len(Log(x)') = 0
             /\ \A d \in Callers : ~InRoom(d, x)
    <3>1. CASE x = "first"
      <4>1. \A d \in Callers : \A q, to \in Nat : ~Posted(d, q, to)
        BY <2>3, <3>1, PostedIssued DEF InRoom
      <4>2. Log("online")' = Log("online")
        BY <1>6, <1>8, <3>1 DEF Log
      <4>3. OnlineLogInv'
        BY <1>1, <4>2 DEF Calm, LogInv, OnlineLogInv, Last
      <4>4. Len(Log("first")') = 0
        BY <2>3, <3>1
      <4> QED
        BY <2>1, <4>1, <4>3, <4>4 DEF LogInv, Sound, Once, There
    <3>2. CASE x = "online"
      <4>1. Log("first")' = Log("first")
        BY <1>6, <1>8, <3>2 DEF Log
      <4>2. \A k \in 1 .. Len(Log("first")) : Log("first")[k].of \in Callers
        BY <1>8, Authors
      <4>3. Sound' /\ Once' /\ There'
        BY <2>1, <4>1, <4>2 DEF Calm, LogInv, Sound, Once, Same, There, Has
      <4>4. \A d \in Callers : at'[d] = "online" => sent'[d] = 0
        BY <1>1, <2>3, <3>2 DEF Calm, StartInv, InRoom, HasIssued
      <4>5. Len(Log("online")') = 0
        BY <2>3, <3>2
      <4> QED
        BY <4>3, <4>4, <4>5 DEF LogInv, OnlineLogInv
    <3> QED
      BY <3>1, <3>2 DEF RoomNames
  <2> QED
    BY <1>7, <2>2, <2>3
<1> QED
  BY <1>9, <1>10, <1>11, <1>12, <1>13, <1>14 DEF Calm

(* In the first room, the indices come in the order of the parties. *)
LEMMA IssueCalm ==
    ASSUME TypeInv, Calm, NEW c \in Callers, IssueIndex(c)
    PROVE  Calm'
<1>0. PICK x \in RoomNames : x = at[c]
  BY DEF TypeInv, ComputationInv, ShapeInv
<1>1. /\ UNCHANGED <<kind, at, round, sent, linked, faults>>
      /\ pc[c] = "issue" /\ pc' = [pc EXCEPT ![c] = "send"]
  BY DEF IssueIndex
<1>2. Found(x) = rooms[x]
  BY <1>0, <1>1, FoundCalm
<1>3. /\ index' = [index EXCEPT ![c] = rooms[x].next_idx]
      /\ rooms' = [rooms EXCEPT ![x] = [rooms[x] EXCEPT !.next_idx = @ + 1]]
  BY <1>0, <1>2 DEF IssueIndex
<1>4. /\ pc'[c] = "send" /\ \A d \in Callers \ {c} : pc'[d] = pc[d]
      /\ index'[c] = rooms[x].next_idx /\ \A d \in Callers \ {c} : index'[d] = index[d]
  BY <1>1, <1>3 DEF TypeInv, ComputationInv, ShapeInv
<1>5. /\ \A y \in RoomNames : Log(y)' = Log(y) /\ rooms'[y].watchers = rooms[y].watchers
      /\ rooms'[x].next_idx = rooms[x].next_idx + 1
      /\ \A y \in RoomNames \ {x} : rooms'[y] = rooms[y]
  <2>1. rooms \in [RoomNames -> RoomType]
    BY DEF TypeInv, ComputationInv, ShapeInv, RoomType
  <2> QED
    BY <1>3, <2>1 DEF Log, RoomType
<1>6. \A d \in Callers : \A y \in RoomNames :
        /\ HasIssued(d, y)' <=> HasIssued(d, y) \/ (d = c /\ y = x)
        /\ InRoom(d, y)' <=> InRoom(d, y)
  BY <1>0, <1>1, <1>4 DEF HasIssued, InRoom, RoomNames
<1>7. ~HasIssued(c, x) /\ "first" \in RoomNames /\ "online" \in RoomNames
  BY <1>0, <1>1 DEF HasIssued, RoomNames
<1>8. \A y \in RoomNames : rooms[y].next_idx \in Nat \ {0}
  BY DEF TypeInv, RoomInv
<1>9. LinkInv'
  BY <1>1, <1>4, <1>5, <1>6 DEF Calm, LinkInv
<1>10. PassInv'
  <2>1. at \in [Callers -> RoomNames]
    BY DEF TypeInv, ComputationInv, ShapeInv
  <2> QED
    BY <1>1, <1>4, <1>6, <1>7, <2>1 DEF PassInv, Calm
<1>11. StartInv'
  <2>1. Last' = Last /\ \A d \in Callers : Messages(d)' = Messages(d)
    BY <1>1 DEF Messages, IsP2p, Last
  <2> QED
    BY <1>1, <1>4, <2>1 DEF StartInv, Calm
<1>12. IndexInv'
  <2>1. CASE x = "first"
    <3>1. rooms["first"].next_idx = c
      <4>1. ~(c < rooms["first"].next_idx)
        BY <1>7, <2>1 DEF Calm, IndexInv
      <4>2. \A d \in 1 .. c - 1 : d \in Callers /\ HasIssued(d, "first")
        BY <1>0, <1>1, <2>1, Lower DEF Calm, IndexInv
      <4>3. \A d \in 1 .. c - 1 : d < rooms["first"].next_idx
        BY <4>2 DEF Calm, IndexInv
      <4>4. c \in Nat /\ c >= 1 /\ rooms["first"].next_idx \in Nat /\ rooms["first"].next_idx >= 1
        BY <1>7, <1>8 DEF Callers
      <4>5. c = 1 \/ c - 1 \in 1 .. c - 1
        BY <4>4
      <4> QED
        BY <4>1, <4>3, <4>4, <4>5
    <3>2. \A d \in Callers : HasIssued(d, "first")' <=> d < rooms'["first"].next_idx
      <4>1. \A d \in Callers : d < c + 1 <=> d < c \/ d = c
        BY DEF Callers
      <4>2. \A d \in Callers : HasIssued(d, "first") <=> d < c
        BY <3>1 DEF Calm, IndexInv
      <4>3. rooms'["first"].next_idx = c + 1
        BY <1>5, <2>1, <3>1
      <4> QED
        BY <1>6, <1>7, <2>1, <4>1, <4>2, <4>3
    <3>3. \A e \in Callers : \A d \in 1 .. e - 1 : d \in Callers
      BY Lower
    <3>4. index'[c] = c
      BY <1>4, <2>1, <3>1
    <3>5. ASSUME NEW d \in Callers
          PROVE  /\ ~HasIssued(d, "first")' => index'[d] = 0
                 /\ HasIssued(d, "first")' /\ at'[d] = "first" => index'[d] = d
                 /\ pc'[d] = "issue" /\ at'[d] = "first" =>
                      \A e \in 1 .. d - 1 : HasIssued(e, "first")'
      <4>1. CASE d = c
        BY <1>4, <1>6, <1>7, <2>1, <3>4, <4>1
      <4>2. CASE d # c
        BY <1>1, <1>4, <1>6, <1>7, <3>3, <4>2 DEF Calm, IndexInv
      <4> QED
        BY <4>1, <4>2
    <3> QED
      BY <3>2, <3>5 DEF IndexInv
  <2>2. CASE x = "online"
    <3>1. rooms'["first"] = rooms["first"] /\ at[c] = "online"
      BY <1>0, <1>5, <1>7, <2>2
    <3>2. \A d \in Callers : HasIssued(d, "first")' <=> HasIssued(d, "first")
      BY <1>6, <1>7, <2>2
    <3>3. \A e \in Callers : \A d \in 1 .. e - 1 : d \in Callers
      BY Lower
    <3>4. HasIssued(c, "first")
      BY <3>1 DEF HasIssued
    <3> QED
      BY <1>1, <1>4, <3>1, <3>2, <3>3, <3>4 DEF Calm, IndexInv
  <2> QED
    BY <2>1, <2>2 DEF RoomNames
<1>13. OnlineIndexInv'
  <2>1. CASE x = "first"
    <3>1. \A d \in Callers : HasIssued(d, "online")' => HasIssued(d, "online") /\ d # c
      BY <1>0, <1>6, <1>7, <2>1 DEF HasIssued
    <3> QED
      BY <1>4, <1>5, <1>7, <2>1, <3>1 DEF Calm, OnlineIndexInv
  <2>2. CASE x = "online"
    <3> SUFFICES ASSUME NEW d \in Callers, HasIssued(d, "online")'
                 PROVE  /\ index'[d] < rooms'["online"].next_idx
                        /\ \A e \in Callers : HasIssued(e, "online")' /\ e # d => index'[e] # index'[d]
      BY DEF OnlineIndexInv
    <3>1. \A e \in Callers : HasIssued(e, "online")' /\ e # c =>
            HasIssued(e, "online") /\ index[e] < rooms["online"].next_idx /\ index'[e] = index[e]
      BY <1>4, <1>6, <1>7 DEF Calm, OnlineIndexInv
    <3>2. /\ rooms["online"].next_idx \in Nat /\ rooms'["online"].next_idx = rooms["online"].next_idx + 1
          /\ index'[c] = rooms["online"].next_idx
      BY <1>4, <1>5, <1>7, <1>8, <2>2
    <3>3. \A e \in Callers : index[e] \in Nat
      BY DEF TypeInv, ComputationInv, ShapeInv
    <3>4. CASE d = c
      BY <3>1, <3>2, <3>3, <3>4
    <3>5. CASE d # c
      BY <3>1, <3>2, <3>3, <3>5 DEF Calm, OnlineIndexInv
    <3> QED
      BY <3>4, <3>5
  <2> QED
    BY <2>1, <2>2 DEF RoomNames
<1>14. LogInv'
  <2>1. \A d \in Callers : \A q, to : Posted(d, q, to)' <=> Posted(d, q, to)
    BY <1>1 DEF Posted, Addressed, Place, IsP2p, Last
  <2> QED
    BY <1>1, <1>5, <1>7, <2>1, LogsSame, Authors
<1> QED
  BY <1>9, <1>10, <1>11, <1>12, <1>13, <1>14 DEF Calm

(* The messages of a round go out by their places. *)
LEMMA NextPlace ==
    ASSUME TypeInv, Calm, NEW c \in Callers, Send(c), at[c] = "first"
    PROVE  LET to == Receivers(c)[sent[c] + 1] IN
           /\ PartyInd(c) = c /\ round[c] \in 1 .. Last
           /\ to \in Addressed(c, round[c]) /\ Place(c, round[c], to) = sent[c] + 1
           /\ \A q \in Addressed(c, round[c]) : Place(c, round[c], q) = sent[c] + 1 => q = to
<1>1. pc[c] = "send" /\ PartyInd(c) = c
  BY DEF Send, Calm, IndexInv, HasIssued, PartyInd
<1>2. sent[c] \in Nat /\ sent[c] < Messages(c)
  BY <1>1 DEF TypeInv, ComputationInv, ShapeInv, SendInv
<1>3. round[c] \in 1 .. Last
  <2>1. round[c] \in 1 .. Last + 1 /\ round[c] # Last + 1 /\ Last \in Nat
    BY LastIsPositive DEF TypeInv, ComputationInv, ShapeInv, StageInv
  <2> QED
    BY <2>1
<1>4. CASE IsP2p(round[c])
  <2>1. sent[c] + 1 \in 1 .. N - 1 /\ c \in 1 .. N /\ N \in Nat
    BY <1>2, <1>4, PartiesAssumption DEF Messages, Callers
  <2>2. Receivers(c)[sent[c] + 1] = IF sent[c] + 1 < c THEN sent[c] + 1 ELSE sent[c] + 2
    <3>1. Receivers(c) = [j \in 1 .. N - 1 |-> IF j < c THEN j ELSE j + 1]
      BY <1>1, <1>4 DEF Receivers
    <3>2. Receivers(c)[sent[c] + 1] = IF sent[c] + 1 < c THEN sent[c] + 1 ELSE (sent[c] + 1) + 1
      BY <2>1, <3>1
    <3> QED
      BY <1>2, <2>1, <3>2
  <2> DEFINE to == Receivers(c)[sent[c] + 1]
             i == sent[c] + 1
  <2>3. i \in 1 .. N - 1 /\ to = IF i < c THEN i ELSE i + 1
    BY <1>2, <2>1, <2>2
  <2>4. /\ Addressed(c, round[c]) = 1 .. N \ {c}
        /\ \A q : Place(c, round[c], q) = IF q > c THEN q - 1 ELSE q
    BY <1>4 DEF Addressed, Place, Callers
  <2> HIDE DEF to, i
  <2>5. to \in 1 .. N \ {c} /\ (IF to > c THEN to - 1 ELSE to) = i
    BY <2>1, <2>3
  <2>6. \A q \in 1 .. N \ {c} : (IF q > c THEN q - 1 ELSE q) = i => q = to
    BY <2>1, <2>3
  <2> QED
    BY <1>1, <1>3, <2>4, <2>5, <2>6 DEF to, i
<1>5. CASE ~IsP2p(round[c])
  <2>1. sent[c] = 0 /\ Receivers(c) = <<All>>
    BY <1>2, <1>5 DEF Messages, Receivers
  <2> QED
    BY <1>1, <1>3, <1>5, <2>1 DEF Addressed, Place
<1> QED
  BY <1>4, <1>5

LEMMA SendCalm ==
    ASSUME TypeInv, Calm, NEW c \in Callers, Send(c)
    PROVE  Calm'
<1>0. PICK x \in RoomNames : x = at[c]
  BY DEF TypeInv, ComputationInv, ShapeInv
<1> DEFINE to == Receivers(c)[sent[c] + 1]
           m == [sender |-> PartyInd(c), receiver |-> to, round |-> round[c], of |-> c]
           log == Log(x)
           messages == Append(log, m)
<1>1. /\ UNCHANGED <<kind, at, index, round, linked, faults>> /\ pc[c] = "send"
      /\ sent' = [sent EXCEPT ![c] = sent[c] + 1]
      /\ pc' = [pc EXCEPT ![c] = IF sent[c] + 1 = Messages(c) THEN "read" ELSE "send"]
  BY ReceiversType DEF Send, TypeInv, ComputationInv
<1>2. Found(x) = rooms[x]
  BY <1>0, <1>1, FoundCalm
<1>3. m \in Message
  BY MessageSent
<1>4. rooms' = [rooms EXCEPT ![x] = [rooms[x] EXCEPT !.messages = messages]]
  BY <1>0, <1>2 DEF Send, Log
<1>5. log \in Seq(Message)
  BY DEF TypeInv, RoomInv
<1>6. m.sender = PartyInd(c) /\ m.receiver = to /\ m.round = round[c] /\ m.of = c
  OBVIOUS
<1> HIDE DEF m, log, to
<1>7. /\ Len(log) \in Nat /\ Len(messages) = Len(log) + 1
      /\ \A k \in 1 .. Len(log) : messages[k] = log[k]
      /\ messages[Len(log) + 1] = m
  BY <1>3, <1>5
<1> HIDE DEF messages
<1>8. /\ Log(x)' = messages
      /\ \A y \in RoomNames : /\ rooms'[y].watchers = rooms[y].watchers
                              /\ rooms'[y].next_idx = rooms[y].next_idx
      /\ \A y \in RoomNames \ {x} : Log(y)' = Log(y)
  <2>1. rooms \in [RoomNames -> RoomType]
    BY DEF TypeInv, ComputationInv, ShapeInv, RoomType
  <2> QED
    BY <1>4, <2>1 DEF Log, RoomType
<1>9. /\ pc'[c] = (IF sent[c] + 1 = Messages(c) THEN "read" ELSE "send")
      /\ sent'[c] = sent[c] + 1 /\ sent[c] \in Nat
      /\ \A d \in Callers \ {c} : pc'[d] = pc[d] /\ sent'[d] = sent[d]
  BY <1>1 DEF TypeInv, ComputationInv, ShapeInv
<1>10. \A d \in Callers : \A y \in RoomNames :
         (HasIssued(d, y)' <=> HasIssued(d, y)) /\ (InRoom(d, y)' <=> InRoom(d, y))
  BY <1>0, <1>1, <1>9 DEF HasIssued, InRoom, RoomNames
<1>11. "first" \in RoomNames /\ "online" \in RoomNames
  BY DEF RoomNames
<1>12. LinkInv'
  BY <1>1, <1>8, <1>9, <1>10 DEF Calm, LinkInv
<1>13. PassInv'
  <2>1. at \in [Callers -> RoomNames]
    BY DEF TypeInv, ComputationInv, ShapeInv
  <2> QED
    BY <1>1, <1>9, <1>10, <1>11, <2>1 DEF PassInv, Calm
<1>14. StartInv'
  <2>1. Last' = Last /\ \A d \in Callers : Messages(d)' = Messages(d)
    BY <1>1 DEF Messages, IsP2p, Last
  <2> QED
    BY <1>1, <1>9, <2>1 DEF StartInv, Calm
<1>15. IndexInv'
  <2>1. \A e \in Callers : \A d \in 1 .. e - 1 : d \in Callers
    BY Lower
  <2>2. \A d \in Callers : pc'[d] = "issue" => pc[d] = "issue"
    BY <1>9
  <2> QED
    BY <1>1, <1>8, <1>10, <1>11, <2>1, <2>2 DEF Calm, IndexInv
<1>16. OnlineIndexInv'
  BY <1>1, <1>8, <1>10, <1>11 DEF Calm, OnlineIndexInv
<1>17. LogInv'
  <2>1. CASE x = "first"
    <3>1. /\ PartyInd(c) = c /\ round[c] \in 1 .. Last
          /\ to \in Addressed(c, round[c]) /\ Place(c, round[c], to) = sent[c] + 1
          /\ \A q \in Addressed(c, round[c]) : Place(c, round[c], q) = sent[c] + 1 => q = to
      BY <1>0, <2>1, NextPlace DEF to
    <3>2. \A d \in Callers : \A r, q :
            Posted(d, r, q)' <=> Posted(d, r, q) \/ (d = c /\ r = round[c] /\ q = to)
      <4> SUFFICES ASSUME NEW d \in Callers, NEW r, NEW q
                   PROVE  Posted(d, r, q)' <=> Posted(d, r, q) \/ (d = c /\ r = round[c] /\ q = to)
        OBVIOUS
      <4>1. /\ Last' = Last /\ Addressed(d, r)' = Addressed(d, r)
            /\ Place(d, r, q)' = Place(d, r, q)
        BY <1>1 DEF Addressed, Place, IsP2p, Last
      <4>2. CASE d # c
        BY <1>1, <1>9, <4>1, <4>2 DEF Posted
      <4>3. CASE d = c
        <5>1. CASE r = round[c] /\ q \in Addressed(c, r)
          <6>1. Place(c, r, q) \in Nat
            BY <5>1, PlaceBounds, PartiesAssumption
          <6>2. Place(c, r, q) <= sent[c] + 1 <=> Place(c, r, q) <= sent[c] \/ Place(c, r, q) = sent[c] + 1
            BY <1>9, <6>1
          <6> QED
            BY <1>1, <1>9, <3>1, <4>1, <4>3, <5>1, <6>2 DEF Posted
        <5>2. CASE ~(r = round[c] /\ q \in Addressed(c, r))
          BY <1>1, <3>1, <4>1, <4>3, <5>2 DEF Posted
        <5> QED
          BY <5>1, <5>2
      <4> QED
        BY <4>2, <4>3
    <3>3. log = Log("first") /\ Log("first")' = messages /\ Log("online")' = Log("online")
      BY <1>8, <1>11, <2>1 DEF log
    <3>4. \A k \in 1 .. Len(log) : log[k].of \in Callers
      BY <1>11, <3>3, Authors
    <3>5. \A k \in 1 .. Len(messages) : k \in 1 .. Len(log) \/ k = Len(log) + 1
      BY <1>7
    <3>6. Sound'
      <4>1. ASSUME NEW k \in 1 .. Len(messages)
            PROVE  \E d \in Callers : \E r, q :
                     /\ messages[k].sender = d /\ messages[k].of = d
                     /\ messages[k].round = r /\ messages[k].receiver = q
                     /\ Posted(d, r, q)'
        <5>1. CASE k \in 1 .. Len(log)
          <6>1. /\ log[k].of \in Callers /\ log[k].sender = log[k].of
                /\ Posted(log[k].of, log[k].round, log[k].receiver)
            BY <3>3, <3>4, <5>1 DEF Calm, LogInv, Sound
          <6> QED
            BY <1>7, <3>2, <5>1, <6>1
        <5>2. CASE k = Len(log) + 1
          BY <1>6, <1>7, <3>1, <3>2, <5>2
        <5> QED
          BY <3>5, <5>1, <5>2
      <4>2. \A k \in 1 .. Len(Log("first")') : \E d \in Callers : \E r, q :
                     /\ (Log("first")[k].sender)' = d /\ (Log("first")[k].of)' = d
                     /\ (Log("first")[k].round)' = r /\ (Log("first")[k].receiver)' = q
                     /\ Posted(d, r, q)'
        BY <3>3, <4>1
      <4> QED
        BY <4>2 DEF Sound
    <3>7. Once'
      <4>1. \A k \in 1 .. Len(log) : ~Same(log[k], m) /\ ~Same(m, log[k])
        <5> SUFFICES ASSUME NEW k \in 1 .. Len(log), Same(log[k], m) \/ Same(m, log[k])
                     PROVE  FALSE
          OBVIOUS
        <5>1. Posted(c, round[c], to)
          BY <1>6, <3>3 DEF Calm, LogInv, Sound, Same
        <5>2. Place(c, round[c], to) <= sent[c]
          BY <3>1, <5>1 DEF Posted
        <5> QED
          BY <1>9, <3>1, <5>2
      <4>2. \A j, k \in 1 .. Len(log) : Same(log[j], log[k]) => j = k
        BY <3>3 DEF Calm, LogInv, Once
      <4>3. \A j, k \in 1 .. Len(messages) : Same(messages[j], messages[k]) => j = k
        BY <1>7, <3>5, <4>1, <4>2
      <4> QED
        BY <3>3, <4>3 DEF Once, Same
    <3>8. There'
      <4> SUFFICES ASSUME NEW d \in Callers, NEW r \in Nat, NEW q \in Nat, Posted(d, r, q)'
                   PROVE  \E k \in 1 .. Len(messages) :
                            messages[k].of = d /\ messages[k].round = r /\ messages[k].receiver = q
        BY <3>3 DEF There, Has
      <4>1. CASE Posted(d, r, q)
        <5>1. PICK k \in 1 .. Len(log) : log[k].of = d /\ log[k].round = r /\ log[k].receiver = q
          <6>1. Has(d, r, q)
            BY <4>1 DEF Calm, LogInv, There
          <6> QED
            BY <3>3, <6>1 DEF Has
        <5>2. k \in 1 .. Len(messages) /\ messages[k] = log[k]
          BY <1>7, <5>1
        <5> QED
          BY <5>1, <5>2
      <4>2. CASE d = c /\ r = round[c] /\ q = to
        <5>1. Len(log) + 1 \in 1 .. Len(messages)
          BY <1>7
        <5> QED
          BY <1>6, <1>7, <4>2, <5>1
      <4> QED
        BY <3>2, <4>1, <4>2
    <3>9. OnlineLogInv'
      BY <1>0, <1>1, <1>9, <2>1, <3>3 DEF Calm, LogInv, OnlineLogInv, Last
    <3> QED
      BY <3>6, <3>7, <3>8, <3>9 DEF LogInv
  <2>2. CASE x = "online"
    <3>1. /\ kind = "sign" /\ round[c] = Last + 1 /\ Last \in Nat /\ at[c] = "online"
      BY <1>0, <2>2, LastIsPositive DEF TypeInv, ComputationInv, ShapeInv, StageInv
    <3>2. to = All
      <4>1. ~IsP2p(round[c])
        BY <3>1 DEF IsP2p
      <4>2. sent[c] = 0
        BY <1>1, <1>9, <4>1 DEF Messages, TypeInv, ComputationInv, SendInv
      <4> QED
        BY <4>1, <4>2 DEF to, Receivers
    <3>3. log = Log("online") /\ Log("online")' = messages /\ Log("first")' = Log("first")
      BY <1>8, <1>11, <2>2 DEF log
    <3>4. \A d \in Callers : \A r, q : Posted(d, r, q)' <=> Posted(d, r, q)
      <4> SUFFICES ASSUME NEW d \in Callers, NEW r, NEW q
                   PROVE  Posted(d, r, q)' <=> Posted(d, r, q)
        OBVIOUS
      <4>1. /\ Last' = Last /\ Addressed(d, r)' = Addressed(d, r)
            /\ Place(d, r, q)' = Place(d, r, q) /\ round' = round
        BY <1>1 DEF Addressed, Place, IsP2p, Last
      <4>2. d = c => ~(r \in 1 .. Last /\ r = round[d])
        BY <3>1
      <4> QED
        BY <1>9, <4>1, <4>2 DEF Posted
    <3>5. \A k \in 1 .. Len(Log("first")) : Log("first")[k].of \in Callers
      BY <1>11, Authors
    <3>6. Sound' /\ Once' /\ There'
      BY <3>3, <3>4, <3>5 DEF Calm, LogInv, Sound, Once, Same, There, Has
    <3>7. Last' = Last
      BY <1>1 DEF Last
    <3>8. OnlineLogInv'
      <4>1. ASSUME NEW k \in 1 .. Len(messages)
            PROVE  messages[k].round = Last + 1 /\ messages[k].receiver = All
        <5>1. CASE k \in 1 .. Len(log)
          BY <1>7, <3>3, <5>1 DEF Calm, LogInv, OnlineLogInv
        <5>2. CASE k = Len(log) + 1
          BY <1>6, <1>7, <3>1, <3>2, <5>2
        <5> QED
          BY <1>7, <5>1, <5>2
      <4>2. ASSUME NEW d \in Callers, at'[d] = "online", sent'[d] > 0
            PROVE  \E k \in 1 .. Len(messages) : messages[k].of = d
        <5>1. CASE d = c
          <6>1. Len(log) + 1 \in 1 .. Len(messages)
            BY <1>7
          <6> QED
            BY <1>6, <1>7, <5>1, <6>1
        <5>2. CASE d # c
          <6>1. PICK k \in 1 .. Len(log) : log[k].of = d
            BY <1>1, <1>9, <3>3, <4>2, <5>2 DEF Calm, LogInv, OnlineLogInv
          <6>2. k \in 1 .. Len(messages) /\ messages[k] = log[k]
            BY <1>7, <6>1
          <6> QED
            BY <6>1, <6>2
        <5> QED
          BY <5>1, <5>2
      <4> QED
        BY <3>3, <3>7, <4>1, <4>2 DEF OnlineLogInv
    <3> QED
      BY <3>6, <3>8 DEF LogInv
  <2> QED
    BY <2>1, <2>2 DEF RoomNames
<1> QED
  BY <1>12, <1>13, <1>14, <1>15, <1>16, <1>17 DEF Calm

(* A round is complete when everybody is in the room, and is at its place. *)
LEMMA EverybodyIssued ==
    ASSUME TypeInv, Calm, NEW c \in Callers, NEW n \in 0 .. Len(Log(at[c])),
           pc[c] = "read", Complete(c, Heard(c, n))
    PROVE  Verifies(c, Heard(c, n)) /\ \A d \in Callers : HasIssued(d, at[c])
<1>1. PICK x \in RoomNames : x = at[c]
  BY DEF TypeInv, ComputationInv, ShapeInv
<1>2. HasIssued(c, x)
  BY <1>1 DEF HasIssued, RoomNames
<1>3. \A m \in Heard(c, n) : \E k \in 1 .. Len(Log(x)) : m = Log(x)[k]
  BY <1>1, HeardIsRead DEF TypeInv
<1>4. \A m \in Heard(c, n) : HasIssued(m.of, x)
  BY <1>3, AuthorIssued
<1>5. CASE x = "online"
  <2>1. ASSUME NEW d \in Callers, d # c PROVE HasIssued(d, x)
    <3>1. \E m \in Heard(c, n) : m.of = d /\ m.round = round[c]
      <4>1. at[c] = "online" /\ ComputationInv /\ c # d
        BY <1>1, <1>5, <2>1 DEF TypeInv
      <4> QED
        BY <4>1, OnlineComplete
    <3> QED
      BY <1>4, <3>1
  <2> QED
    BY <1>1, <1>2, <1>5, <2>1 DEF Verifies
<1>6. CASE x = "first"
  <2>1. \A m \in Heard(c, n) : m.sender = m.of
    BY <1>3, <1>6 DEF Calm, LogInv, Sound
  <2>2. PartyInd(c) = c
    BY <1>1, <1>2, <1>6 DEF Calm, IndexInv, PartyInd
  <2>3. {m.sender : m \in Heard(c, n)} = Callers \ {c}
    BY <1>1, <1>6, <2>2 DEF Complete, Callers
  <2>4. \A d \in Callers \ {c} : HasIssued(d, x)
    BY <1>4, <2>1, <2>3
  <2> QED
    BY <1>1, <1>2, <2>1, <2>4 DEF Verifies
<1> QED
  BY <1>5, <1>6 DEF RoomNames

(* To go on to the next round changes nothing of what one has sent.        *)
LEMMA PostedStays ==
    ASSUME TypeInv, Calm, NEW c \in Callers, pc[c] = "read", at[c] = "first", kind' = kind,
           round' = [round EXCEPT ![c] = round[c] + 1], sent' = [sent EXCEPT ![c] = 0]
    PROVE  \A d \in Callers : \A r, to : Posted(d, r, to)' <=> Posted(d, r, to)
<1> SUFFICES ASSUME NEW d \in Callers, NEW r, NEW to
             PROVE  Posted(d, r, to)' <=> Posted(d, r, to)
  OBVIOUS
<1>1. Last' = Last /\ Addressed(d, r)' = Addressed(d, r) /\ Place(d, r, to)' = Place(d, r, to)
  BY DEF Addressed, Place, IsP2p, Last
<1>2. /\ round'[c] = round[c] + 1 /\ sent'[c] = 0 /\ round[c] \in Nat
      /\ \A e \in Callers \ {c} : round'[e] = round[e] /\ sent'[e] = sent[e]
  BY LastIsPositive DEF TypeInv, ComputationInv, ShapeInv
<1>3. CASE d # c
  BY <1>1, <1>2, <1>3 DEF Posted
<1>4. CASE d = c /\ r \in 1 .. Last /\ to \in Addressed(d, r)
  <2>1. r \in Nat /\ Place(d, r, to) \in Nat /\ Place(d, r, to) >= 1
    BY <1>4, PlaceBounds, PartiesAssumption
  <2>2. r = round[c] => Place(d, r, to) <= sent[c]
    <3>1. sent[c] = Messages(c)
      BY DEF Calm, StartInv
    <3>2. Place(d, r, to) \in 1 .. IF IsP2p(r) THEN N - 1 ELSE 1
      BY <1>4, PlaceBounds
    <3> QED
      BY <3>1, <3>2 DEF Messages
  <2>3. Posted(d, r, to)' <=> r < round[c] + 1
    BY <1>1, <1>2, <1>4, <2>1 DEF Posted
  <2>4. Posted(d, r, to) <=> r < round[c] \/ r = round[c]
    BY <1>4, <2>2 DEF Posted
  <2> QED
    BY <1>2, <2>1, <2>3, <2>4
<1>5. CASE d = c /\ ~(r \in 1 .. Last /\ to \in Addressed(d, r))
  BY <1>1, <1>5 DEF Posted
<1> QED
  BY <1>3, <1>4, <1>5

LEMMA ReadCalm ==
    ASSUME TypeInv, Calm, NEW c \in Callers, Read(c)
    PROVE  Calm'
<1>1. PICK n \in 0 .. Len(Log(at[c])) :
             /\ Complete(c, Heard(c, n))
             /\ pc[c] = "read" /\ UNCHANGED <<kind, index, rooms, faults>>
             /\ \/ /\ round[c] < Last /\ at[c] = "first"
                   /\ round' = [round EXCEPT ![c] = @ + 1] /\ sent' = [sent EXCEPT ![c] = 0]
                   /\ pc' = [pc EXCEPT ![c] = "send"] /\ UNCHANGED <<at, linked>>
                \/ /\ round[c] = Last /\ kind = "sign" /\ at[c] = "first"
                   /\ round' = [round EXCEPT ![c] = Last + 1] /\ sent' = [sent EXCEPT ![c] = 0]
                   /\ pc' = [pc EXCEPT ![c] = "subscribe"] /\ at' = [at EXCEPT ![c] = "online"]
                   /\ UNCHANGED linked
                \/ /\ kind = "keygen" \/ at[c] = "online" \/ ~Verifies(c, Heard(c, n))
                   /\ round[c] >= Last
                   /\ EndCall(c, IF Verifies(c, Heard(c, n)) THEN "done" ELSE "failed")
                   /\ UNCHANGED <<at, round, sent>>
  BY ReadKinds DEF TypeInv
<1>2. Verifies(c, Heard(c, n)) /\ \A d \in Callers : HasIssued(d, at[c])
  BY <1>1, EverybodyIssued
<1>3. \/ /\ at[c] = "first"
         /\ round' = [round EXCEPT ![c] = round[c] + 1] /\ sent' = [sent EXCEPT ![c] = 0]
         /\ linked' = linked
         /\ \/ pc' = [pc EXCEPT ![c] = "send"] /\ at' = at
            \/ pc' = [pc EXCEPT ![c] = "subscribe"] /\ at' = [at EXCEPT ![c] = "online"]
      \/ /\ pc' = [pc EXCEPT ![c] = "done"] /\ linked' = {l \in linked : l[1] # c}
         /\ UNCHANGED <<at, round, sent>>
         /\ round[c] >= Last /\ (kind = "sign" => at[c] = "online")
  BY <1>1, <1>2 DEF EndCall
<1>4. pc[c] = "read" /\ UNCHANGED <<kind, index, rooms, faults>> /\ Last' = Last
  BY <1>1 DEF Last
<1>5. /\ pc \in [Callers -> {"subscribe", "issue", "send", "read", "done", "failed"}]
      /\ at \in [Callers -> RoomNames]
      /\ sent \in [Callers -> Nat] /\ round \in [Callers -> Nat]
  BY LastIsPositive DEF TypeInv, ComputationInv, ShapeInv
<1>6. /\ \A d \in Callers \ {c} : /\ pc'[d] = pc[d] /\ at'[d] = at[d]
                                  /\ round'[d] = round[d] /\ sent'[d] = sent[d]
      /\ \/ /\ at[c] = "first" /\ sent'[c] = 0 /\ linked' = linked
            /\ \/ pc'[c] = "send" /\ at'[c] = at[c]
               \/ pc'[c] = "subscribe" /\ at'[c] = "online"
         \/ /\ pc'[c] = "done" /\ linked' = {l \in linked : l[1] # c}
            /\ at'[c] = at[c]
  BY <1>3, <1>5
<1>7. "first" \in RoomNames /\ "online" \in RoomNames
  BY DEF RoomNames
<1>8. \A d \in Callers : \A y \in RoomNames :
        /\ HasIssued(d, y)' <=> HasIssued(d, y)
        /\ InRoom(d, y)' <=> InRoom(d, y)
  BY <1>4, <1>6 DEF HasIssued, InRoom, RoomNames
<1>9. LinkInv'
  <2> SUFFICES ASSUME NEW d \in Callers
               PROVE  /\ pc'[d] # "failed"
                      /\ \A y \in RoomNames : InRoom(d, y)' /\ pc'[d] # "done" =>
                           <<d, y>> \in linked' /\ d \in rooms'[y].watchers
    BY DEF LinkInv
  <2>1. CASE d = c
    BY <1>4, <1>6, <1>8, <2>1 DEF Calm, LinkInv
  <2>2. CASE d # c
    <3>1. \A y \in RoomNames : <<d, y>> \in linked => <<d, y>> \in linked'
      BY <1>6, <2>2
    <3> QED
      BY <1>4, <1>6, <1>8, <2>2, <3>1 DEF Calm, LinkInv
  <2> QED
    BY <2>1, <2>2
<1>10. PassInv'
  <2> SUFFICES ASSUME NEW d \in Callers, NEW e \in Callers
               PROVE  /\ at'[d] = "online" => HasIssued(e, "first")
                      /\ pc'[d] = "done" => \A y \in RoomNames : y = at'[d] => HasIssued(e, y)
    <3>1. \A d \in Callers : at'[d] \in RoomNames
      BY <1>5, <1>6, <1>7
    <3> QED
      BY <1>7, <1>8, <3>1 DEF PassInv
  <2>1. CASE d = c
    BY <1>2, <1>6, <2>1 DEF Calm, PassInv
  <2>2. CASE d # c
    BY <1>6, <2>2 DEF Calm, PassInv
  <2> QED
    BY <2>1, <2>2
<1>11. StartInv'
  <2> SUFFICES ASSUME NEW d \in Callers
               PROVE  /\ pc'[d] \in {"subscribe", "issue"} =>
                           sent'[d] = 0 /\ (at'[d] = "first" => round'[d] = 1)
                      /\ pc'[d] \in {"read", "done"} => sent'[d] = Messages(d)'
                      /\ pc'[d] = "done" =>
                           round'[d] >= Last' /\ (kind' = "sign" => at'[d] = "online")
    BY DEF StartInv
  <2>1. CASE d = c
    <3>1. CASE pc'[c] \in {"send", "subscribe"}
      BY <1>6, <2>1, <3>1
    <3>2. CASE pc'[c] = "done"
      <4>1. UNCHANGED <<at, round, sent>> /\ round[c] >= Last /\ (kind = "sign" => at[c] = "online")
        BY <1>3, <1>5, <3>2
      <4>2. Messages(c)' = Messages(c)
        BY <1>4, <4>1 DEF Messages, IsP2p
      <4> QED
        BY <1>4, <2>1, <3>2, <4>1, <4>2 DEF Calm, StartInv
    <3> QED
      BY <1>6, <3>1, <3>2
  <2>2. CASE d # c
    <3>1. Messages(d)' = Messages(d)
      BY <1>4, <1>6, <2>2 DEF Messages, IsP2p
    <3> QED
      BY <1>4, <1>6, <2>2, <3>1 DEF Calm, StartInv
  <2> QED
    BY <2>1, <2>2
<1>12. IndexInv'
  <2>1. \A e \in Callers : \A d \in 1 .. e - 1 : d \in Callers
    BY Lower
  <2>2. \A d \in Callers : pc'[d] = "issue" => pc[d] = "issue" /\ at'[d] = at[d]
    BY <1>6
  <2>3. \A d \in Callers : at'[d] = "first" => at[d] = "first"
    BY <1>6
  <2> QED
    BY <1>4, <1>7, <1>8, <2>1, <2>2, <2>3 DEF Calm, IndexInv
<1>13. OnlineIndexInv'
  BY <1>4, <1>7, <1>8 DEF Calm, OnlineIndexInv
<1>14. LogInv'
  <2>1. \A d \in Callers : \A r, to : Posted(d, r, to)' <=> Posted(d, r, to)
    <3>1. CASE UNCHANGED <<round, sent>>
      BY <1>4, <3>1 DEF Posted, Addressed, Place, IsP2p
    <3>2. CASE /\ at[c] = "first"
               /\ round' = [round EXCEPT ![c] = round[c] + 1] /\ sent' = [sent EXCEPT ![c] = 0]
      BY <1>4, <3>2, PostedStays
    <3> QED
      BY <1>3, <3>1, <3>2
  <2>2. \A d \in Callers : at'[d] = "online" /\ sent'[d] > 0 => at[d] = "online" /\ sent[d] > 0
    <3>1. at'[c] = "online" /\ sent'[c] > 0 => at[c] = "online" /\ sent[c] > 0
      BY <1>3, <1>5, <1>6
    <3> QED
      BY <1>6, <3>1
  <2>3. Log("first")' = Log("first") /\ Log("online")' = Log("online")
    BY <1>4 DEF Log
  <2> QED
    BY <1>4, <1>7, <2>1, <2>2, <2>3, LogsSame, Authors
<1> QED
  BY <1>9, <1>10, <1>11, <1>12, <1>13, <1>14 DEF Calm

(* The manager drops only streams that their calls have closed. *)
LEMMA DropCalm ==
    ASSUME TypeInv, Calm, UNCHANGED <<kind, pc, at, index, round, sent, linked>>,
           \A y \in RoomNames : /\ Log(y)' = Log(y) /\ rooms'[y].next_idx = rooms[y].next_idx
                                /\ \A d \in rooms[y].watchers :
                                     <<d, y>> \in linked => d \in rooms'[y].watchers
    PROVE  Calm'
<1>1. "first" \in RoomNames /\ "online" \in RoomNames /\ Last' = Last
  BY DEF RoomNames, Last
<1>2. \A d \in Callers : \A y \in RoomNames :
        (HasIssued(d, y)' <=> HasIssued(d, y)) /\ (InRoom(d, y)' <=> InRoom(d, y))
  BY DEF HasIssued, InRoom
<1>3. LinkInv'
  BY <1>2 DEF Calm, LinkInv
<1>4. PassInv'
  <2>1. at \in [Callers -> RoomNames]
    BY DEF TypeInv, ComputationInv, ShapeInv
  <2> QED
    BY <1>1, <1>2, <2>1 DEF Calm, PassInv
<1>5. StartInv'
  BY <1>1 DEF Calm, StartInv, Messages, IsP2p
<1>6. IndexInv'
  <2>1. \A e \in Callers : \A d \in 1 .. e - 1 : d \in Callers
    BY Lower
  <2> QED
    BY <1>1, <1>2, <2>1 DEF Calm, IndexInv
<1>7. OnlineIndexInv'
  BY <1>1, <1>2 DEF Calm, OnlineIndexInv
<1>8. LogInv'
  <2>1. \A d \in Callers : \A r, to : Posted(d, r, to)' <=> Posted(d, r, to)
    BY <1>1 DEF Posted, Addressed, Place, IsP2p
  <2> QED
    BY <1>1, <2>1, LogsSame, Authors
<1> QED
  BY <1>3, <1>4, <1>5, <1>6, <1>7, <1>8 DEF Calm

(* The log of room x stays as it is, or has one message more. *)
Grows(x) ==
    /\ Len(Log(x)) \in Nat /\ Len(Log(x)') \in Nat /\ Len(Log(x)) <= Len(Log(x)')
    /\ \A k \in 1 .. Len(Log(x)) : (Log(x)[k])' = Log(x)[k]

LEMMA SameGrows ==
    ASSUME TypeInv, NEW x \in RoomNames, Log(x)' = Log(x) \/ Log(x) = <<>>, Log(x)' \in Seq(Message)
    PROVE  Grows(x)
<1>1. Len(Log(x)) \in Nat /\ Len(Log(x)') \in Nat
  <2>1. Log(x) \in Seq(Message)
    BY DEF TypeInv, RoomInv
  <2> QED
    BY <2>1
<1>2. CASE Log(x)' = Log(x)
  BY <1>1, <1>2 DEF Grows
<1>3. CASE Log(x) = <<>>
  BY <1>1, <1>3 DEF Grows
<1> QED
  BY <1>2, <1>3

LEMMA GrowStep ==
    ASSUME TypeInv, TypeInv', Calm, [StaggeredNext]_vars, faults' = 0, NEW x \in RoomNames
    PROVE  Grows(x)
<1>1. rooms \in [RoomNames -> RoomType] /\ Log(x) \in Seq(Message) /\ Log(x)' \in Seq(Message)
  BY DEF TypeInv, RoomInv, ComputationInv, ShapeInv, RoomType
<1>2. ASSUME NEW c \in Callers, JoinInTurn(c) PROVE Log(x)' = Log(x) \/ Log(x) = <<>>
  <2>1. PICK y \in RoomNames : y = at[c]
    BY DEF TypeInv, ComputationInv, ShapeInv
  <2>2. /\ pc[c] = "subscribe"
        /\ rooms' = [rooms EXCEPT ![y] = [Found(y) EXCEPT !.watchers = @ \cup {c}]]
    BY <1>2, <2>1 DEF JoinInTurn, Subscribe
  <2>3. CASE Found(y) = rooms[y]
    BY <1>1, <2>2, <2>3 DEF Log, RoomType
  <2>4. CASE \A d \in Callers : ~InRoom(d, y)
    <3>1. CASE x = y
      <4>1. \A k \in 1 .. Len(Log(x)) : FALSE
        BY <2>4, <3>1, AuthorIssued, Authors DEF InRoom
      <4> QED
        BY <1>1, <4>1
    <3>2. CASE x # y
      BY <1>1, <2>2, <3>2 DEF Log
    <3> QED
      BY <3>1, <3>2
  <2> QED
    BY <2>1, <2>2, <2>3, <2>4, FoundCalm
<1>3. ASSUME NEW c \in Callers, IssueIndex(c) PROVE Log(x)' = Log(x)
  <2>1. PICK y \in RoomNames : y = at[c]
    BY DEF TypeInv, ComputationInv, ShapeInv
  <2>2. rooms' = [rooms EXCEPT ![y] = [rooms[y] EXCEPT !.next_idx = @ + 1]]
    BY <1>3, <2>1, FoundCalm DEF IssueIndex
  <2> QED
    BY <1>1, <2>2 DEF Log, RoomType
<1>4. ASSUME NEW c \in Callers, Send(c) PROVE Grows(x)
  <2>1. PICK y \in RoomNames : y = at[c]
    BY DEF TypeInv, ComputationInv, ShapeInv
  <2>2. PICK m \in Message : m = [sender |-> PartyInd(c), receiver |-> Receivers(c)[sent[c] + 1],
                                 round |-> round[c], of |-> c]
    BY <1>4, MessageSent
  <2>3. rooms' = [rooms EXCEPT ![y] = [rooms[y] EXCEPT !.messages = Append(@, m)]]
    BY <1>4, <2>1, <2>2, FoundCalm DEF Send
  <2>4. CASE x = y
    <3>1. Log(x)' = Append(Log(x), m)
      BY <1>1, <2>3, <2>4 DEF Log, RoomType
    <3>2. /\ Len(Log(x)) \in Nat /\ Len(Append(Log(x), m)) = Len(Log(x)) + 1
          /\ \A k \in 1 .. Len(Log(x)) : Append(Log(x), m)[k] = Log(x)[k]
      BY <1>1
    <3> QED
      BY <3>1, <3>2 DEF Grows
  <2>5. CASE x # y
    <3>1. Log(x)' = Log(x)
      BY <1>1, <2>3, <2>5 DEF Log, RoomType
    <3> QED
      BY <1>1, <3>1, SameGrows
  <2> QED
    BY <2>4, <2>5
<1>5. ASSUME NEW c \in Callers, Read(c) \/ ReadUnexpected(c) \/ Fail(c) PROVE Log(x)' = Log(x)
  BY <1>5 DEF Read, ReadUnexpected, Fail, Log
<1>6. ASSUME NEW c \in Callers, NEW y \in RoomNames, DropStream(c, y) PROVE Log(x)' = Log(x)
  BY <1>1, <1>6 DEF DropStream, Log, RoomType
<1>7. ~Fault
  BY FaultsAssumption DEF Fault, Restart, Break, TypeInv, PartyInv
<1>8. UNCHANGED vars => Log(x)' = Log(x)
  BY DEF vars, Log
<1>9. ASSUME Log(x)' = Log(x) \/ Log(x) = <<>> PROVE Grows(x)
  BY <1>1, <1>9, SameGrows
<1> QED
  BY <1>2, <1>3, <1>4, <1>5, <1>6, <1>7, <1>8, <1>9 DEF StaggeredNext, Proceed

LEMMA CursorStep ==
    ASSUME TypeInv, TypeInv', Calm, CursorInv, [StaggeredNext]_vars, faults' = 0
    PROVE  CursorInv'
<1> SUFFICES ASSUME NEW d \in Callers, pc'[d] \in {"issue", "send", "read"}
             PROVE  (cursor[d] <= Len(Log(at[d])))'
  BY DEF CursorInv
<1>1. PICK x \in RoomNames : x = at'[d]
  BY DEF TypeInv, ComputationInv, ShapeInv
<1>2. Grows(x)
  BY GrowStep
<1>3. cursor'[d] \in Nat /\ cursor[d] \in Nat
  BY DEF TypeInv, ComputationInv, ShapeInv
<1>4. SUFFICES cursor'[d] = 0 \/ (cursor'[d] <= Len(Log(at[d])) /\ at'[d] = at[d])
  <2>1. Len(Log(x)) \in Nat /\ Len(Log(x)') \in Nat /\ Len(Log(x)) <= Len(Log(x)')
    BY <1>2 DEF Grows
  <2>2. cursor'[d] <= Len(Log(x)')
    BY <1>1, <1>3, <1>4, <2>1
  <2> QED
    BY <1>1, <2>2 DEF Log
<1>5. ASSUME cursor'[d] = cursor[d], at'[d] = at[d], pc[d] \in {"issue", "send", "read"}
      PROVE  cursor'[d] <= Len(Log(at[d]))
  BY <1>5 DEF CursorInv
<1>6. ASSUME NEW c \in Callers, JoinInTurn(c)
      PROVE  cursor'[d] = 0 \/ (cursor'[d] <= Len(Log(at[d])) /\ at'[d] = at[d])
  <2>1. /\ cursor' = [cursor EXCEPT ![c] = 0] /\ pc' = [pc EXCEPT ![c] = "issue"]
        /\ UNCHANGED at
    BY <1>6 DEF JoinInTurn, Subscribe
  <2> QED
    BY <1>5, <2>1 DEF TypeInv, ComputationInv, ShapeInv
<1>7. ASSUME NEW c \in Callers, IssueIndex(c) \/ Send(c)
      PROVE  cursor'[d] <= Len(Log(at[d])) /\ at'[d] = at[d]
  <2>1. /\ UNCHANGED <<cursor, at>> /\ pc[c] \in {"issue", "send"}
        /\ pc'[d] = pc[d] \/ d = c
    BY <1>7 DEF IssueIndex, Send, TypeInv, ComputationInv, ShapeInv
  <2> QED
    BY <1>5, <2>1
<1>8. ASSUME NEW c \in Callers, Read(c)
      PROVE  cursor'[d] <= Len(Log(at[d])) /\ at'[d] = at[d]
  <2>1. PICK n \in 0 .. Len(Log(at[c])) :
          /\ cursor' = [cursor EXCEPT ![c] = n]
          /\ \/ /\ pc' = [pc EXCEPT ![c] = "send"] /\ UNCHANGED at
             \/ pc' = [pc EXCEPT ![c] = "subscribe"] /\ at' = [at EXCEPT ![c] = "online"]
             \/ /\ EndCall(c, IF Verifies(c, Heard(c, n)) THEN "done" ELSE "failed")
                /\ UNCHANGED at
    BY <1>8, ReadKinds DEF TypeInv
  <2>2. CASE d = c
    <3>1. pc'[c] # "subscribe"
      BY <2>2
    <3>2. n \in Nat /\ n <= Len(Log(at[c])) /\ cursor'[c] = n
      <4>1. Len(Log(at[c])) \in Nat
        BY LogType DEF TypeInv, ComputationInv, ShapeInv
      <4> QED
        BY <2>1, <4>1 DEF TypeInv, ComputationInv, ShapeInv
    <3>3. at' = at
      BY <2>1, <3>1 DEF EndCall, TypeInv, ComputationInv, ShapeInv
    <3> QED
      BY <2>2, <3>2, <3>3
  <2>3. CASE d # c
    <3>1. cursor'[d] = cursor[d] /\ at'[d] = at[d] /\ pc'[d] = pc[d]
      BY <2>1, <2>3 DEF EndCall, TypeInv, ComputationInv, ShapeInv
    <3> QED
      BY <1>5, <3>1
  <2> QED
    BY <2>2, <2>3
<1>9. ASSUME NEW c \in Callers, NEW y \in RoomNames, DropStream(c, y)
      PROVE  cursor'[d] <= Len(Log(at[d])) /\ at'[d] = at[d]
  BY <1>5, <1>9 DEF DropStream
<1>10. ASSUME UNCHANGED vars PROVE cursor'[d] <= Len(Log(at[d])) /\ at'[d] = at[d]
  BY <1>5, <1>10 DEF vars
<1>11. ~Fault
  BY FaultsAssumption DEF Fault, Restart, Break, TypeInv, PartyInv
<1> QED
  BY <1>6, <1>7, <1>8, <1>9, <1>10, <1>11, NoneRejects DEF StaggeredNext, Proceed

LEMMA CalmBefore ==
    ASSUME StaggeredInv, [StaggeredNext]_vars, faults' = 0
    PROVE  Calm /\ CursorInv
<1>1. MaxFaults \in Nat /\ faults \in Nat
  BY FaultsAssumption DEF StaggeredInv, TypeInv, PartyInv
<1>2. ~Fault
  BY <1>1 DEF Fault, Restart, Break
<1>3. faults' = faults
  BY <1>2 DEF StaggeredNext, JoinInTurn, Subscribe, Proceed, IssueIndex, Send, Read, ReadUnexpected,
              Fail, DropStream, vars
<1> QED
  BY <1>3 DEF StaggeredInv

LEMMA CalmStep == ASSUME StaggeredInv, [StaggeredNext]_vars PROVE StaggeredInv'
<1>0. TypeInv
  BY DEF StaggeredInv
<1>1. TypeInv'
  <2>1. [Next]_vars
    BY DEF StaggeredNext, Next, JoinInTurn
  <2> QED
    BY <1>0, <2>1, TypeStep
<1> SUFFICES ASSUME faults' = 0 PROVE Calm' /\ CursorInv'
  BY <1>1 DEF StaggeredInv
<1>2. Calm /\ CursorInv
  BY CalmBefore
<1>3. CursorInv'
  BY <1>0, <1>1, <1>2, CursorStep
<1>4. ~Fault
  BY <1>0, FaultsAssumption DEF Fault, Restart, Break, TypeInv, PartyInv
<1>5. ASSUME NEW c \in Callers, JoinInTurn(c) PROVE Calm'
  BY <1>0, <1>2, <1>5, SubscribeCalm
<1>6. ASSUME NEW c \in Callers, Proceed(c) PROVE Calm'
  BY <1>0, <1>2, <1>6, IssueCalm, SendCalm, ReadCalm, NoneRejects DEF Proceed
<1>7. ASSUME NEW c \in Callers, NEW x \in RoomNames, DropStream(c, x) PROVE Calm'
  <2>1. UNCHANGED <<kind, pc, at, index, round, sent, linked, faults>>
    BY <1>7 DEF DropStream
  <2>2. \A y \in RoomNames : /\ Log(y)' = Log(y) /\ rooms'[y].next_idx = rooms[y].next_idx
                             /\ \A d \in rooms[y].watchers :
                                  <<d, y>> \in linked => d \in rooms'[y].watchers
    BY <1>0, <1>7 DEF DropStream, Log, TypeInv, ComputationInv, ShapeInv
  <2> QED
    BY <1>0, <1>2, <2>1, <2>2, DropCalm
<1>8. ASSUME UNCHANGED vars PROVE Calm'
  <2>1. UNCHANGED <<kind, pc, at, index, round, sent, linked, rooms, faults>>
    BY <1>8 DEF vars
  <2>2. \A y \in RoomNames : /\ Log(y)' = Log(y) /\ rooms'[y].next_idx = rooms[y].next_idx
                             /\ \A d \in rooms[y].watchers :
                                  <<d, y>> \in linked => d \in rooms'[y].watchers
    BY <2>1 DEF Log
  <2> QED
    BY <1>0, <1>2, <2>1, <2>2, DropCalm
<1> QED
  BY <1>3, <1>4, <1>5, <1>6, <1>7, <1>8 DEF StaggeredNext

(* No call fails of parties that join in turn, unless something else does: *)
(* the protocol meets no message that it rejects, and the shares are at    *)
(* their places.                                                           *)
THEOREM NoneFails == StaggeredSpec => []NobodyFails
<1>1. StaggeredInv => NobodyFails
  <2> SUFFICES ASSUME StaggeredInv, NEW c \in Callers, pc[c] = "failed", ~(faults > 0)
               PROVE  FALSE
    BY DEF NobodyFails
  <2>1. faults = 0
    BY FaultsAssumption DEF StaggeredInv, TypeInv, PartyInv
  <2> QED
    BY <2>1 DEF StaggeredInv, Calm, LinkInv
<1> QED
  BY CalmInit, CalmStep, <1>1, PTL DEF StaggeredSpec

(* The filter of join_computation goes by the index that the room issued,  *)
(* the protocol by that of the party: of parties that join in turn it      *)
(* keeps nothing that the protocol waits for.                              *)
THEOREM FilterRight == StaggeredSpec => []OnlyOthersIgnored
<1>1. StaggeredInv => OnlyOthersIgnored
  <2> SUFFICES ASSUME StaggeredInv, NEW c \in Callers, Joined(c), faults = 0
               PROVE  PartyInd(c) = index[c]
    BY DEF OnlyOthersIgnored, Passes
  <2>1. CASE kind = "keygen"
    <3>1. at[c] = "first"
      BY <2>1 DEF StaggeredInv, TypeInv, ComputationInv, ShapeInv, StageInv, RoomNames
    <3>2. HasIssued(c, "first")
      BY DEF Joined, HasIssued
    <3> QED
      BY <2>1, <3>1, <3>2 DEF StaggeredInv, Calm, IndexInv, PartyInd
  <2>2. CASE kind # "keygen"
    BY <2>2 DEF PartyInd
  <2> QED
    BY <2>1, <2>2
<1> QED
  BY CalmInit, CalmStep, <1>1, PTL DEF StaggeredSpec

(* What HasSent says of the first room is what is posted there. *)
LEMMA HasSentPosted ==
    ASSUME TypeInv, Calm, NEW c \in Callers, NEW d \in Callers, c # d, Joined(c),
           at[c] = "first", HasSent(d, c, round[c])
    PROVE  Posted(d, round[c], IF IsP2p(round[c]) THEN c ELSE All)
<1> DEFINE r == round[c]
<1>1. r \in 1 .. Last /\ Last \in Nat /\ r \in Nat
  <2>1. round[c] \in 1 .. Last + 1 /\ round[c] # Last + 1 /\ Last \in Nat
    BY LastIsPositive DEF TypeInv, ComputationInv, ShapeInv, StageInv
  <2> QED
    BY <2>1
<1>2. (IF IsP2p(r) THEN c ELSE All) \in Addressed(d, r)
  BY DEF Addressed
<1>3. CASE round[d] > r
  <2>1. round[d] \in Nat
    BY LastIsPositive DEF TypeInv, ComputationInv, ShapeInv
  <2> QED
    BY <1>1, <1>2, <1>3, <2>1 DEF Posted
<1>4. CASE round[d] = r /\ IsP2p(r) /\ \E i \in 1 .. sent[d] : Receivers(d)[i] = PartyInd(c)
  <2>1. PICK i \in 1 .. sent[d] : Receivers(d)[i] = PartyInd(c)
    BY <1>4
  <2>2. sent[d] \in 0 .. N - 1 /\ sent[d] > 0 /\ i \in 1 .. N - 1
    BY PartiesAssumption DEF TypeInv, PartyInv
  <2>3. at[d] = "first"
    BY <1>1, <1>4 DEF TypeInv, ComputationInv, ShapeInv, StageInv, RoomNames
  <2>4. HasIssued(d, "first") /\ HasIssued(c, "first")
    BY <2>2 DEF Joined, Calm, StartInv, HasIssued
  <2>5. PartyInd(d) = d /\ PartyInd(c) = c
    BY <2>3, <2>4 DEF Calm, IndexInv, PartyInd
  <2>6. Receivers(d) = [j \in 1 .. N - 1 |-> IF j < d THEN j ELSE j + 1]
    BY <1>4, <2>5 DEF Receivers
  <2>7. c = IF i < d THEN i ELSE i + 1
    BY <2>1, <2>2, <2>5, <2>6
  <2>8. Place(d, r, c) = IF c > d THEN c - 1 ELSE c
    BY <1>4 DEF Place
  <2> HIDE DEF r
  <2>9. Place(d, r, c) = i /\ i <= sent[d]
    BY <2>1, <2>2, <2>7, <2>8 DEF Callers
  <2> QED
    BY <1>1, <1>2, <1>4, <2>9 DEF Posted, r
<1>5. CASE round[d] = r /\ ~IsP2p(r) /\ sent[d] = 1
  BY <1>1, <1>2, <1>5 DEF Posted, Place
<1> QED
  BY <1>3, <1>4, <1>5 DEF HasSent

(* What is posted for c, or for all, is in the log for c to hear. *)
LEMMA PostedPasses ==
    ASSUME TypeInv, Calm, NEW c \in Callers, NEW d \in Callers, c # d, Joined(c), at[c] = "first",
           Posted(d, round[c], IF IsP2p(round[c]) THEN c ELSE All)
    PROVE  \E n \in 1 .. Len(Log("first")) :
             LET m == Log("first")[n] IN
             m.of = d /\ m.sender = d /\ m.round = round[c] /\ Passes(c, m)
<1>1. PICK to : to = IF IsP2p(round[c]) THEN c ELSE All
  OBVIOUS
<1>2. to \in {c, All} /\ to \in Nat
  BY <1>1, PartiesAssumption DEF Callers, All
<1>3. round[c] \in Nat
  BY LastIsPositive DEF TypeInv, ComputationInv, ShapeInv
<1>4. Has(d, round[c], to)
  BY <1>1, <1>2, <1>3 DEF Calm, LogInv, There
<1>5. PICK k \in 1 .. Len(Log("first")) :
        Log("first")[k].of = d /\ Log("first")[k].round = round[c] /\ Log("first")[k].receiver = to
  BY <1>4 DEF Has
<1>6. Log("first")[k].sender = d
  BY <1>5 DEF Calm, LogInv, Sound
<1>7. index[c] = c
  BY DEF Calm, IndexInv, HasIssued, Joined
<1> QED
  BY <1>2, <1>5, <1>6, <1>7 DEF Passes

(* The same in the online room. *)
LEMMA OnlinePasses ==
    ASSUME TypeInv, Calm, NEW c \in Callers, NEW d \in Callers, c # d, Joined(c), at[c] = "online",
           at[d] = "online", sent[d] > 0
    PROVE  \E n \in 1 .. Len(Log("online")) :
             LET m == Log("online")[n] IN
             m.of = d /\ m.round = round[c] /\ Passes(c, m)
<1>1. PICK k \in 1 .. Len(Log("online")) : Log("online")[k].of = d
  BY DEF Calm, LogInv, OnlineLogInv
<1>2. Log("online")[k].round = Last + 1 /\ Log("online")[k].receiver = All
  BY DEF Calm, LogInv, OnlineLogInv
<1>3. Log("online")[k].sender = index[d] /\ round[c] = Last + 1
  BY <1>1 DEF TypeInv, ComputationInv, OnlineInv, StageInv
<1>4. HasIssued(c, "online") /\ HasIssued(d, "online")
  BY <1>1, AuthorIssued DEF HasIssued, Joined, RoomNames
<1>5. index[d] # index[c]
  BY <1>4 DEF Calm, OnlineIndexInv
<1> QED
  BY <1>1, <1>2, <1>3, <1>5 DEF Passes

LEMMA PassesHeard ==
    ASSUME TypeInv, Calm, NEW c \in Callers, Joined(c), NEW n \in 1 .. Len(Log(at[c])),
           Log(at[c])[n].round = round[c], Passes(c, Log(at[c])[n]), NEW l \in Nat, n <= l
    PROVE  Log(at[c])[n] \in Heard(c, l)
<1>1. Fits(c, n)
  BY PassesFits DEF Joined
<1>2. n \in 1 .. l
  OBVIOUS
<1> QED
  BY <1>1, <1>2 DEF Heard, Log

(* Nothing that a party has sent is lost to another: of those that join in *)
(* turn, no room is replaced under a call.                                 *)
THEOREM NothingLost == StaggeredSpec => []NothingMissed
<1>1. StaggeredInv => NothingMissed
  <2> SUFFICES ASSUME StaggeredInv, NEW c \in Callers, NEW d \in Callers,
                      Joined(c), c # d, faults = 0, HasSent(d, c, round[c])
               PROVE  \E n \in 1 .. Len(Log(at[c])) :
                        /\ Log(at[c])[n].of = d /\ Log(at[c])[n].round = round[c]
                        /\ n > cursor[c] \/ Log(at[c])[n] \in Heard(c, cursor[c])
    BY DEF NothingMissed, Log
  <2>1. TypeInv /\ Calm
    BY DEF StaggeredInv
  <2>2. cursor[c] \in Nat /\ Last \in Nat
    BY <2>1, LastIsPositive DEF TypeInv, ComputationInv, ShapeInv
  <2>3. SUFFICES \E n \in 1 .. Len(Log(at[c])) :
                   /\ Log(at[c])[n].of = d /\ Log(at[c])[n].round = round[c]
                   /\ Passes(c, Log(at[c])[n])
    <3>1. \A n \in 1 .. Len(Log(at[c])) : n > cursor[c] \/ n <= cursor[c]
      BY <2>2
    <3> QED
      BY <2>1, <2>2, <2>3, <3>1, PassesHeard
  <2>4. CASE at[c] = "first"
    <3>1. Posted(d, round[c], IF IsP2p(round[c]) THEN c ELSE All)
      BY <2>1, <2>4, HasSentPosted
    <3> QED
      BY <2>1, <2>4, <3>1, PostedPasses
  <2>5. CASE at[c] = "online"
    <3>1. round[c] = Last + 1 /\ round[d] \in 1 .. Last + 1
      BY <2>1, <2>5 DEF TypeInv, ComputationInv, ShapeInv, StageInv
    <3>2. round[d] = Last + 1 /\ sent[d] = 1
      <4>1. ~(round[d] > Last + 1) /\ ~IsP2p(Last + 1)
        BY <2>2, <3>1 DEF IsP2p
      <4> QED
        BY <3>1, <4>1 DEF HasSent
    <3>3. at[d] = "online" /\ sent[d] > 0
      BY <2>1, <3>2 DEF TypeInv, ComputationInv, StageInv
    <3> QED
      BY <2>1, <2>5, <3>3, OnlinePasses
  <2> QED
    BY <2>1, <2>4, <2>5 DEF TypeInv, ComputationInv, ShapeInv, RoomNames
<1> QED
  BY CalmInit, CalmStep, <1>1, PTL DEF StaggeredSpec

(* As long as nothing fails, the rooms are the append-only logs that the   *)
(* manager promises to who watches them: nobody's room is replaced.        *)
THEOREM RoomsOnlyGrow ==
    StaggeredSpec => [][faults' = 0 => \A x \in RoomNames : Grows(x)]_vars
<1>1. ASSUME StaggeredInv, StaggeredInv', [StaggeredNext]_vars
      PROVE  [faults' = 0 => \A x \in RoomNames : Grows(x)]_vars
  <2>1. ASSUME faults' = 0, NEW x \in RoomNames PROVE Grows(x)
    <3>1. TypeInv /\ TypeInv' /\ Calm
      BY <1>1, <2>1, CalmBefore DEF StaggeredInv
    <3> QED
      BY <1>1, <2>1, <3>1, GrowStep
  <2> QED
    BY <2>1
<1> QED
  BY CalmInit, CalmStep, <1>1, PTL DEF StaggeredSpec

-----------------------------------------------------------------------------
(* No deadlock. *)

LEMMA LeastNumber == \A T \in SUBSET Nat : T # {} => \E x \in T : \A y \in T : x <= y
<1> SUFFICES ASSUME NEW T \in SUBSET Nat, T # {}
             PROVE  \E x \in T : \A y \in T : x <= y
  OBVIOUS
<1>1. \E R : IsWellFoundedOn(R, Nat) /\ \A x, y \in Nat : y < x => <<y, x>> \in R
  <2>1. \A x, y \in Nat : y < x => <<y, x>> \in OpToRel(<, Nat)
    BY DEF OpToRel
  <2> QED
    BY <2>1, NatLessThanWellFounded, Zenon
<1>2. PICK R : IsWellFoundedOn(R, Nat) /\ \A x, y \in Nat : y < x => <<y, x>> \in R
  BY <1>1
<1>3. \E x \in T : \A y \in T : ~ (<<y, x>> \in R)
  BY <1>2, WFMin
<1>4. \A x, y \in T : <<y, x>> \in R \/ x <= y
  <2> SUFFICES ASSUME NEW x \in T, NEW y \in T PROVE <<y, x>> \in R \/ x <= y
    OBVIOUS
  <2>1. x \in Nat /\ y \in Nat
    OBVIOUS
  <2>2. y < x \/ x <= y
    BY <2>1
  <2> QED
    BY <1>2, <2>1, <2>2
<1> QED
  BY <1>3, <1>4, Zenon

(* A call that can end its round with what is in its room. *)
CanRead(c) ==
    /\ pc[c] = "read" /\ <<c, at[c]>> \in linked
    /\ \E n \in cursor[c] .. Len(Log(at[c])) : Complete(c, Heard(c, n))

(* In the first room, a round is complete with a message of everybody.     *)
LEMMA AllHeardFirst ==
    ASSUME TypeInv, Calm, NEW c \in Callers, pc[c] = "read", at[c] = "first",
           \A d \in Callers \ {c} : Posted(d, round[c], IF IsP2p(round[c]) THEN c ELSE All)
    PROVE  Complete(c, Heard(c, Len(Log("first"))))
<1> DEFINE H == Heard(c, Len(Log("first")))
<1>1. /\ Log("first") \in Seq(Message) /\ Len(Log("first")) \in Nat
      /\ \A k \in 1 .. Len(Log("first")) : Log("first")[k] \in Message
  <2>1. Log("first") \in Seq(Message)
    BY DEF TypeInv, RoomInv, RoomNames
  <2> QED
    BY <2>1
<1>2. index[c] = c /\ PartyInd(c) = c
  BY DEF Calm, IndexInv, HasIssued, PartyInd
<1>3. ASSUME NEW d \in Callers \ {c} PROVE \E m \in H : m.sender = d
  <2>1. PICK n \in 1 .. Len(Log("first")) :
          LET m == Log("first")[n] IN
          m.of = d /\ m.sender = d /\ m.round = round[c] /\ Passes(c, m)
    BY <1>3, PostedPasses DEF Joined
  <2>2. Log("first")[n] \in H
    BY <1>1, <2>1, PassesHeard DEF Joined
  <2> QED
    BY <2>1, <2>2
<1>4. ASSUME NEW m \in H PROVE m.sender \in Callers \ {c}
  <2>1. \E k \in 1 .. Len(Log("first")) : m = Log("first")[k] /\ Passes(c, m)
    BY <1>1, HeardIsRead DEF TypeInv
  <2> QED
    BY <1>1, <1>2, <2>1 DEF Passes, Message, Callers
<1>5. {m.sender : m \in H} = 1 .. N \ {PartyInd(c)}
  BY <1>2, <1>3, <1>4 DEF Callers
<1> QED
  BY <1>5 DEF Complete

(* In the online room, N - 1 messages are those of N - 1 others.           *)
LEMMA AllHeardOnline ==
    ASSUME TypeInv, Calm, NEW c \in Callers, pc[c] = "read", at[c] = "online",
           \A d \in Callers \ {c} : at[d] = "online" /\ sent[d] > 0
    PROVE  Complete(c, Heard(c, Len(Log("online"))))
<1> DEFINE H == Heard(c, Len(Log("online")))
<1>1. Len(Log("online")) \in Nat
  BY LogType DEF TypeInv, ComputationInv, RoomNames
<1>2. ASSUME NEW d \in Callers \ {c} PROVE \E m \in H : m.of = d
  <2>1. PICK n \in 1 .. Len(Log("online")) :
          LET m == Log("online")[n] IN m.of = d /\ m.round = round[c] /\ Passes(c, m)
    BY <1>2, OnlinePasses DEF Joined
  <2>2. Log("online")[n] \in H
    BY <1>1, <2>1, PassesHeard DEF Joined
  <2> QED
    BY <2>1, <2>2
<1>3. ASSUME NEW m \in H
      PROVE  \E k \in 1 .. Len(Log("online")) : m = Log("online")[k] /\ m.sender # index[c]
  BY <1>1, HeardIsRead DEF TypeInv, Passes
<1>4. ASSUME NEW m \in H PROVE m.of \in Callers \ {c}
  BY <1>3, <1>4, Authors DEF TypeInv, ComputationInv, OnlineInv, RoomNames
<1>5. ASSUME NEW l \in H, NEW m \in H, l.of = m.of PROVE l = m
  BY <1>3, <1>5 DEF TypeInv, ComputationInv, OnlineInv
<1> HIDE DEF H
<1> DEFINE f == [d \in Callers \ {c} |-> CHOOSE m \in H : m.of = d]
<1>6. \A d \in Callers \ {c} : f[d] \in H /\ f[d].of = d
  BY <1>2
<1>7. f \in Bijection(Callers \ {c}, H)
  <2>1. f \in [Callers \ {c} -> H]
    BY <1>6
  <2>2. \A d, e \in Callers \ {c} : f[d] = f[e] => d = e
    BY <1>6
  <2>3. \A m \in H : \E d \in Callers \ {c} : f[d] = m
    BY <1>4, <1>5, <1>6
  <2> HIDE DEF f
  <2> QED
    BY <2>1, <2>2, <2>3 DEF Bijection, Injection, Surjection, IsInjective
<1>8. IsFiniteSet(Callers \ {c}) /\ Cardinality(Callers \ {c}) = N - 1
  BY CallersFinite, FS_RemoveElement
<1>9. Cardinality(H) = N - 1
  BY <1>7, <1>8, FS_Bijection DEF ExistsBijection
<1> QED
  BY <1>9 DEF Complete, H

(* Of calls that all wait for messages, or have returned, one that is      *)
(* furthest behind can go on: everybody has sent it what it waits for.     *)
LEMMA FurthestBehind ==
    ASSUME TypeInv, Calm, CursorInv, \A d \in Callers : pc[d] \in {"read", "done"},
           NEW c \in Callers, pc[c] = "read",
           \A d \in Callers : pc[d] = "read" => round[c] <= round[d]
    PROVE  CanRead(c)
<1>0. SUFFICES Complete(c, Heard(c, Len(Log(at[c]))))
  <2>1. PICK x \in RoomNames : x = at[c]
    BY DEF TypeInv, ComputationInv, ShapeInv
  <2>2. Len(Log(x)) \in Nat /\ cursor[c] \in Nat
    BY LogType DEF TypeInv, ComputationInv, ShapeInv
  <2>3. <<c, at[c]>> \in linked
    BY <2>1 DEF Calm, LinkInv, InRoom, HasIssued, RoomNames
  <2>4. Len(Log(at[c])) \in cursor[c] .. Len(Log(at[c]))
    BY <2>1, <2>2 DEF CursorInv
  <2> QED
    BY <1>0, <2>3, <2>4 DEF CanRead
<1>1. Last \in Nat /\ \A d \in Callers : round[d] \in 1 .. Last + 1
  BY LastIsPositive DEF TypeInv, ComputationInv, ShapeInv
<1>2. \A d \in Callers : sent[d] = Messages(d) /\ sent[d] > 0
  BY PartiesAssumption DEF Calm, StartInv, Messages
<1>3. CASE at[c] = "first"
  <2>1. round[c] \in 1 .. Last
    BY <1>1, <1>3 DEF TypeInv, ComputationInv, StageInv
  <2>2. \A d \in Callers : round[c] <= round[d]
    BY <1>1, <2>1 DEF Calm, StartInv
  <2>3. ASSUME NEW d \in Callers \ {c}
        PROVE  Posted(d, round[c], IF IsP2p(round[c]) THEN c ELSE All)
    <3>1. PICK to : to = IF IsP2p(round[c]) THEN c ELSE All
      OBVIOUS
    <3>2. to \in Addressed(d, round[c])
      BY <3>1 DEF Addressed
    <3>3. Place(d, round[c], to) \in 1 .. IF IsP2p(round[c]) THEN N - 1 ELSE 1
      BY <3>2, PlaceBounds
    <3>4. round[c] < round[d] \/ round[c] = round[d]
      BY <1>1, <2>2
    <3>5. round[c] = round[d] => Place(d, round[c], to) <= sent[d]
      BY <1>2, <3>3, PartiesAssumption DEF Messages
    <3> QED
      BY <2>1, <3>1, <3>2, <3>4, <3>5 DEF Posted
  <2> QED
    BY <1>3, <2>3, AllHeardFirst
<1>4. CASE at[c] = "online"
  <2>1. round[c] = Last + 1 /\ kind = "sign"
    BY <1>4 DEF TypeInv, ComputationInv, StageInv
  <2>2. \A d \in Callers : at[d] = "online"
    <3> SUFFICES ASSUME NEW d \in Callers PROVE at[d] = "online"
      OBVIOUS
    <3>1. CASE pc[d] = "read"
      <4>1. round[d] = Last + 1
        BY <1>1, <2>1, <3>1
      <4> QED
        BY <4>1 DEF TypeInv, ComputationInv, StageInv
    <3>2. CASE pc[d] = "done"
      BY <2>1, <3>2 DEF Calm, StartInv
    <3> QED
      BY <3>1, <3>2
  <2> QED
    BY <1>2, <1>4, <2>2, AllHeardOnline
<1> QED
  BY <1>3, <1>4 DEF TypeInv, ComputationInv, ShapeInv, RoomNames

(* Everyone does not wait for everyone.  While nothing has failed and all  *)
(* parties were called, not every call that has not returned waits for     *)
(* messages that are not there.                                            *)
NobodyStuck ==
    faults = 0 /\ (\A c \in Callers : Called(c)) =>
        \/ \A c \in Callers : pc[c] = "done"
        \/ \E c \in Callers : pc[c] \in {"subscribe", "issue", "send"} \/ CanRead(c)

THEOREM NoDeadlock == StaggeredSpec => []NobodyStuck
<1>1. StaggeredInv => NobodyStuck
  <2> SUFFICES ASSUME StaggeredInv, faults = 0,
                      \A c \in Callers : pc[c] \notin {"subscribe", "issue", "send"},
                      \E c \in Callers : pc[c] # "done"
               PROVE  \E c \in Callers : CanRead(c)
    BY DEF NobodyStuck
  <2>1. TypeInv /\ Calm /\ CursorInv
    BY DEF StaggeredInv
  <2>2. \A c \in Callers : pc[c] \in {"read", "done"}
    BY <2>1 DEF TypeInv, ComputationInv, ShapeInv, Calm, LinkInv
  <2> DEFINE waiting == {c \in Callers : pc[c] = "read"}
             T == {round[c] : c \in waiting}
  <2>3. T # {} /\ T \in SUBSET Nat
    <3>1. \A c \in Callers : round[c] \in Nat
      BY <2>1, LastIsPositive DEF TypeInv, ComputationInv, ShapeInv
    <3>2. waiting # {} /\ waiting \subseteq Callers
      BY <2>2
    <3> QED
      BY <3>1, <3>2
  <2>4. PICK least \in T : \A r \in T : least <= r
    BY <2>3, LeastNumber
  <2>5. PICK c \in waiting : round[c] = least
    BY <2>4
  <2>6. \A d \in Callers : pc[d] = "read" => round[c] <= round[d]
    BY <2>4, <2>5
  <2> QED
    BY <2>1, <2>2, <2>5, <2>6, FurthestBehind
<1> QED
  BY CalmInit, CalmStep, <1>1, PTL DEF StaggeredSpec

=============================================================================
