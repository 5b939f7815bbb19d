------------------------- MODULE PartySignupProofs -------------------------
(***************************************************************************)
(* Proofs about PartySignup, for any callers, rooms, counts and number of  *)
(* attempts.                                                               *)
(***************************************************************************)
EXTENDS PartySignup, TLAPS

(* What the steps of one caller keep, with or without others in between:   *)
(* attempts stay below the limit while there is one to make, and a call    *)
(* between the two locks has a signup to write.                            *)
CallInv(c) ==
    /\ pc[c] = "call" => attempts[c] < MaxAttempts
    /\ pc[c] = "read" => attempts[c] \in 1 .. MaxAttempts
    /\ pc[c] = "write" => candidate[c] \in Signup
    /\ pc[c] \in {"call", "read", "write"} => reply[c] = NoEntry

TypeInv == TypeOK /\ \A c \in Callers : CallInv(c)

LEMMA TypeInit == Init => TypeInv
BY AttemptsAssumption DEF Init, TypeInv, TypeOK, CallInv

LEMMA TypeStep == TypeInv /\ [Next]_vars => TypeInv'
<1> SUFFICES ASSUME TypeInv, [Next]_vars
             PROVE  TypeInv'
  OBVIOUS
<1> USE AttemptsAssumption, MarksAssumption DEF TypeInv, TypeOK, CallInv
<1>1. CASE UNCHANGED vars
  BY <1>1 DEF vars
<1>2. ASSUME NEW c \in Callers, Send(c)
      PROVE  TypeInv'
  BY <1>2 DEF Send
<1>3. ASSUME NEW c \in Callers, Read(c)
      PROVE  TypeInv'
  <2>1. CASE FirstOfRoom(c)
    <3>1. <<c, attempts[c]>> \in Uuids
      BY <2>1 DEF FirstOfRoom, Uuids
    <3>2. [number |-> 1, uuid |-> <<c, attempts[c]>>] \in Signup
      BY <3>1 DEF Signup
    <3> QED
      BY <2>1, <3>2 DEF FirstOfRoom
  <2>2. CASE NextOfRoom(c)
    <3>1. store[room[c]] \in Signup
      BY <2>2 DEF NextOfRoom
    <3>2. [store[room[c]] EXCEPT !.number = @ + 1] \in Signup
      BY <3>1 DEF Signup
    <3> QED
      BY <2>2, <3>2 DEF NextOfRoom
  <2>3. CASE RoomFull(c)
    BY <2>3 DEF RoomFull
  <2> QED
    BY <1>3, <2>1, <2>2, <2>3 DEF Read
<1>4. ASSUME NEW c \in Callers, Write(c)
      PROVE  TypeInv'
  BY <1>4 DEF Write
<1>5. ASSUME NEW c \in Callers, Receive(c)
      PROVE  TypeInv'
  BY <1>5 DEF Receive
<1>6. ASSUME NEW c \in Callers, LoseReply(c)
      PROVE  TypeInv'
  <2>1. lost' \in SUBSET (Rooms \X Signup)
    BY <1>6 DEF LoseReply, Numbered
  <2> QED
    BY <1>6, <2>1 DEF LoseReply
<1> QED
  BY <1>1, <1>2, <1>3, <1>4, <1>5, <1>6 DEF Next

(* Every step of callers that stay out of each other's way is one of       *)
(* callers that may not.                                                   *)
LEMMA SequentialIsNext == [SequentialNext]_vars => [Next]_vars
BY DEF SequentialNext, Next

(* The state of the signups is well typed.                                 *)
THEOREM TypeCorrect == Spec => []TypeOK
<1>1. TypeInv => TypeOK
  BY DEF TypeInv
<1> QED
  BY <1>1, TypeInit, TypeStep, PTL DEF Spec

-----------------------------------------------------------------------------
(* A candidate is within the count of its caller too. *)
CountInv ==
    /\ WithinCount
    /\ \A c \in Callers :
         pc[c] = "write" => candidate[c].number = 1 \/ candidate[c].number <= num[c]

LEMMA CountStep == TypeInv /\ CountInv /\ [Next]_vars => CountInv'
<1> SUFFICES ASSUME TypeInv, CountInv, [Next]_vars
             PROVE  CountInv'
  OBVIOUS
<1> USE CountsAssumption, MarksAssumption
    DEF TypeInv, TypeOK, CallInv, CountInv, WithinCount, Numbered
<1>1. CASE UNCHANGED vars
  BY <1>1 DEF vars
<1>2. ASSUME NEW c \in Callers, Send(c)
      PROVE  CountInv'
  BY <1>2 DEF Send
<1>3. ASSUME NEW c \in Callers, Read(c)
      PROVE  CountInv'
  <2>1. CASE FirstOfRoom(c)
    BY <2>1 DEF FirstOfRoom
  <2>2. CASE NextOfRoom(c)
    <3>1. store[room[c]] \in Signup /\ num[c] \in Nat
      BY <2>2 DEF NextOfRoom
    <3>2. [store[room[c]] EXCEPT !.number = @ + 1].number <= num[c]
      BY <2>2, <3>1 DEF NextOfRoom, Signup
    <3> QED
      BY <2>2, <3>2 DEF NextOfRoom
  <2>3. CASE RoomFull(c)
    BY <2>3 DEF RoomFull
  <2> QED
    BY <1>3, <2>1, <2>2, <2>3 DEF Read
<1>4. ASSUME NEW c \in Callers, Write(c)
      PROVE  CountInv'
  BY <1>4 DEF Write
<1>5. ASSUME NEW c \in Callers, Receive(c)
      PROVE  CountInv'
  BY <1>5 DEF Receive
<1>6. ASSUME NEW c \in Callers, LoseReply(c)
      PROVE  CountInv'
  BY <1>6 DEF LoseReply
<1> QED
  BY <1>1, <1>2, <1>3, <1>4, <1>5, <1>6 DEF Next

(* No caller is numbered beyond the count it asked for, not even when two  *)
(* signups meet between the locks.                                         *)
THEOREM NumbersWithinCount == Spec => []WithinCount
<1>1. Init => CountInv
  BY DEF Init, CountInv, WithinCount, Numbered
<1>2. CountInv => WithinCount
  BY DEF CountInv
<1> QED
  BY <1>1, <1>2, TypeInit, TypeStep, CountStep, PTL DEF Spec

-----------------------------------------------------------------------------
(* Callers that do not meet between the locks: the only candidate there is *)
(* is the successor of the entry it will replace, and every number given   *)
(* out is counted by the entry of its room, under one uuid.                *)
CandidateFollows(c) ==
    LET e == store[room[c]] IN
    IF e = NoEntry THEN candidate[c].number = 1
    ELSE candidate[c].number = e.number + 1 /\ candidate[c].uuid = e.uuid

EntryCounts(c) ==
    LET e == store[room[c]] IN
    e # NoEntry /\ reply[c].number <= e.number /\ reply[c].uuid = e.uuid

SequentialInv ==
    /\ \A c, d \in Callers : pc[c] = "write" /\ pc[d] = "write" => c = d
    /\ \A c \in Callers : pc[c] = "write" => CandidateFollows(c)
    /\ \A c \in Callers : Numbered(c) => EntryCounts(c)
    /\ DistinctParties

LEMMA SequentialInit == Init => SequentialInv
BY DEF Init, SequentialInv, DistinctParties, Numbered

LEMMA SequentialStep ==
    TypeInv /\ SequentialInv /\ [SequentialNext]_vars => SequentialInv'
<1> SUFFICES ASSUME TypeInv, SequentialInv, [SequentialNext]_vars
             PROVE  SequentialInv'
  OBVIOUS
<1> USE MarksAssumption DEF TypeInv, TypeOK, CallInv, SequentialInv, DistinctParties,
                            Numbered, CandidateFollows, EntryCounts
<1>1. CASE UNCHANGED vars
  BY <1>1 DEF vars
<1>2. ASSUME NEW c \in Callers, Send(c)
      PROVE  SequentialInv'
  BY <1>2 DEF Send
<1>3. ASSUME NEW c \in Callers, Alone(c), Read(c)
      PROVE  SequentialInv'
  <2>1. CASE FirstOfRoom(c)
    BY <1>3, <2>1 DEF FirstOfRoom, Alone
  <2>2. CASE NextOfRoom(c)
    <3>1. store[room[c]] \in Signup
      BY <2>2 DEF NextOfRoom
    <3>2. /\ [store[room[c]] EXCEPT !.number = @ + 1].number = store[room[c]].number + 1
          /\ [store[room[c]] EXCEPT !.number = @ + 1].uuid = store[room[c]].uuid
      BY <3>1 DEF Signup
    <3> QED
      BY <1>3, <2>2, <3>2 DEF NextOfRoom, Alone
  <2>3. CASE RoomFull(c)
    BY <2>3 DEF RoomFull
  <2> QED
    BY <1>3, <2>1, <2>2, <2>3 DEF Read
<1>4. ASSUME NEW c \in Callers, Write(c)
      PROVE  SequentialInv'
  <2>1. candidate[c] \in Signup /\ candidate[c].number \in Nat
    BY <1>4 DEF Write, Signup
  <2>2. CandidateFollows(c)
    BY <1>4 DEF Write
  <2>3. \A d \in Callers : Numbered(d) => reply[d].number \in Nat
    BY DEF Signup
  <2>4. \A x \in Rooms : store[x] # NoEntry => store[x].number \in Nat
    BY DEF Signup
  <2>5. store' = [store EXCEPT ![room[c]] = candidate[c]]
        /\ reply' = [reply EXCEPT ![c] = candidate[c]]
        /\ pc' = [pc EXCEPT ![c] = "replied"] /\ UNCHANGED <<room, candidate>>
    BY <1>4 DEF Write
  <2>6. \A d \in Callers : pc'[d] # "write"
    BY <1>4, <2>5 DEF Write
  <2>7. \A d \in Callers \ {c} : Numbered(d) /\ room[d] = room[c]
           => reply[d].number < candidate[c].number /\ reply[d].uuid = candidate[c].uuid
    BY <2>1, <2>2, <2>3, <2>4
  <2>8. \A d \in Callers : Numbered(d)' => EntryCounts(d)'
    BY <2>1, <2>3, <2>5, <2>7
  <2>9. DistinctParties'
    BY <2>1, <2>3, <2>5, <2>7
  <2> QED
    BY <2>6, <2>8, <2>9
<1>5. ASSUME NEW c \in Callers, Receive(c)
      PROVE  SequentialInv'
  BY <1>5 DEF Receive
<1>6. ASSUME NEW c \in Callers, LoseReply(c)
      PROVE  SequentialInv'
  BY <1>6 DEF LoseReply
<1> QED
  BY <1>1, <1>2, <1>3, <1>4, <1>5, <1>6 DEF SequentialNext

(* Parties that sign up one after another have numbers of their own and    *)
(* one uuid in each room, whatever answers are lost and repeated.          *)
THEOREM PartiesDistinct == SequentialSpec => []DistinctParties
<1>1. SequentialInv => DistinctParties
  BY DEF SequentialInv
<1>2. TypeInv /\ [SequentialNext]_vars => TypeInv'
  BY TypeStep, SequentialIsNext
<1> QED
  BY <1>1, <1>2, TypeInit, SequentialInit, SequentialStep, PTL DEF SequentialSpec

-----------------------------------------------------------------------------
(* A step that leaves the answers of a room as they are, but for one that  *)
(* is not a number and does not become one, leaves its numbers too.        *)
LEMMA GivenUnchanged ==
    ASSUME NEW x \in Rooms, UNCHANGED room,
           \A c \in Callers : room[c] = x =>
               \/ reply'[c] = reply[c]
               \/ ~Numbered(c) /\ ~Numbered(c)'
    PROVE  NumbersGiven(x)' = NumbersGiven(x)
BY DEF NumbersGiven, Numbered

LEMMA AccountedStep ==
    TypeInv /\ SequentialInv /\ NumbersAccounted /\ [SequentialNext]_vars
        => NumbersAccounted'
<1> SUFFICES ASSUME TypeInv, SequentialInv, NumbersAccounted, [SequentialNext]_vars,
                    NEW x \in Rooms
             PROVE  /\ NumbersGiven(x)' \cap NumbersLost(x)' = {}
                    /\ NumbersGiven(x)' \cup NumbersLost(x)'
                         = IF store'[x] = NoEntry THEN {} ELSE 1 .. store'[x].number
  BY DEF NumbersAccounted
<1> DEFINE Accounted == /\ NumbersGiven(x) \cap NumbersLost(x) = {}
                        /\ NumbersGiven(x) \cup NumbersLost(x)
                             = IF store[x] = NoEntry THEN {} ELSE 1 .. store[x].number
<1>0. Accounted
  BY DEF NumbersAccounted
<1>k. ASSUME NumbersGiven(x)' = NumbersGiven(x), UNCHANGED <<store, lost>>
      PROVE  Accounted'
  BY <1>0, <1>k DEF NumbersLost
<1> HIDE DEF Accounted
<1>1. CASE UNCHANGED vars
  <2>1. NumbersGiven(x)' = NumbersGiven(x)
    BY <1>1 DEF vars, NumbersGiven, Numbered
  <2>2. UNCHANGED <<store, lost>>
    BY <1>1 DEF vars
  <2> QED
    BY <1>k, <2>1, <2>2 DEF Accounted
<1>2. ASSUME NEW c \in Callers, Send(c)
      PROVE  Accounted'
  BY <1>2, <1>k, GivenUnchanged DEF Send
<1>3. ASSUME NEW c \in Callers, Read(c)
      PROVE  Accounted'
  <2>1. CASE FirstOfRoom(c) \/ NextOfRoom(c)
    BY <2>1, <1>k, GivenUnchanged DEF FirstOfRoom, NextOfRoom
  <2>2. CASE RoomFull(c)
    <3>1. ~Numbered(c) /\ ~Numbered(c)'
      BY <2>2 DEF RoomFull, Numbered, TypeInv, TypeOK, CallInv
    <3>2. NumbersGiven(x)' = NumbersGiven(x)
      BY <2>2, <3>1, GivenUnchanged DEF RoomFull, TypeInv, TypeOK
    <3> QED
      BY <2>2, <3>2, <1>k DEF RoomFull
  <2> QED
    BY <1>3, <2>1, <2>2 DEF Read
<1>4. ASSUME NEW c \in Callers, Write(c)
      PROVE  Accounted'
  <2>1. /\ store' = [store EXCEPT ![room[c]] = candidate[c]]
        /\ reply' = [reply EXCEPT ![c] = candidate[c]]
        /\ UNCHANGED <<room, lost>>
        /\ candidate[c] \in Signup /\ CandidateFollows(c)
        /\ reply[c] = NoEntry
    BY <1>4 DEF Write, TypeInv, CallInv, SequentialInv
  <2> USE DEF TypeInv, TypeOK
  <2>2. CASE room[c] # x
    <3>1. NumbersGiven(x)' = NumbersGiven(x)
      BY <2>1, <2>2, GivenUnchanged
    <3>2. store'[x] = store[x]
      BY <2>1, <2>2
    <3> QED
      BY <1>0, <2>1, <3>1, <3>2 DEF Accounted, NumbersLost
  <2>3. CASE room[c] = x
    <3> DEFINE n == candidate[c].number
    <3>1. Numbered(c)' /\ reply'[c].number = n /\ ~Numbered(c) /\ n \in Nat
      BY <2>1, MarksAssumption DEF Numbered, Signup
    <3>2. NumbersGiven(x)' = NumbersGiven(x) \cup {n}
      BY <2>1, <2>3, <3>1 DEF NumbersGiven, Numbered
    <3>3. store'[x].number = n /\ store'[x] # NoEntry
      BY <2>1, <2>3, MarksAssumption
    <3>4. NumbersLost(x)' = NumbersLost(x)
      BY <2>1 DEF NumbersLost
    <3>5. (IF store[x] = NoEntry THEN {} ELSE 1 .. store[x].number) = 1 .. n - 1
      BY <2>1, <2>3, <3>1 DEF CandidateFollows, Signup
    <3>6. n >= 1
      BY <2>1, <2>3, <3>1 DEF CandidateFollows, Signup
    <3>7. 1 .. n = (1 .. n - 1) \cup {n} /\ n \notin 1 .. n - 1
      BY <3>1, <3>6
    <3>8. NumbersGiven(x)' \cap NumbersLost(x)' = {}
      <4>1. n \notin NumbersLost(x)
        BY <1>0, <3>5, <3>7 DEF Accounted
      <4> QED
        BY <1>0, <3>2, <3>4, <4>1 DEF Accounted
    <3>9. NumbersGiven(x)' \cup NumbersLost(x)' = 1 .. n
      <4>1. NumbersGiven(x) \cup NumbersLost(x) = 1 .. n - 1
        BY <1>0, <3>5 DEF Accounted
      <4> HIDE DEF n
      <4> QED
        BY <3>2, <3>4, <3>7, <4>1
    <3> QED
      BY <3>3, <3>8, <3>9 DEF Accounted
  <2> QED
    BY <2>2, <2>3
<1>5. ASSUME NEW c \in Callers, Receive(c)
      PROVE  Accounted'
  BY <1>5, <1>k, GivenUnchanged DEF Receive
<1>6. ASSUME NEW c \in Callers, LoseReply(c)
      PROVE  Accounted'
  <2>1. /\ reply' = [reply EXCEPT ![c] = NoEntry]
        /\ lost' = IF Numbered(c) THEN lost \cup {<<room[c], reply[c]>>} ELSE lost
        /\ UNCHANGED <<room, store>>
    BY <1>6 DEF LoseReply
  <2> USE DEF TypeInv, TypeOK
  <2>2. CASE room[c] # x \/ ~Numbered(c)
    <3>1. NumbersGiven(x)' = NumbersGiven(x)
      BY <2>1, <2>2, GivenUnchanged DEF Numbered
    <3>2. NumbersLost(x)' = NumbersLost(x)
      BY <2>1, <2>2 DEF NumbersLost
    <3> QED
      BY <1>0, <2>1, <3>1, <3>2 DEF Accounted
  <2>3. CASE room[c] = x /\ Numbered(c)
    <3> DEFINE n == reply[c].number
    <3>1. \A d \in Callers : d # c /\ room[d] = x /\ Numbered(d) => reply[d].number # n
      BY <2>3 DEF SequentialInv, DistinctParties
    <3>2. NumbersGiven(x)' = NumbersGiven(x) \ {n}
      BY <2>1, <2>3, <3>1 DEF NumbersGiven, Numbered
    <3>3. NumbersLost(x)' = NumbersLost(x) \cup {n}
      <4> DEFINE l == <<room[c], reply[c]>>
      <4>1. lost' = lost \cup {l} /\ l[1] = x /\ l[2].number = n
        BY <2>1, <2>3
      <4> HIDE DEF l, n
      <4>2. {m \in lost' : m[1] = x} = {m \in lost : m[1] = x} \cup {l}
        BY <4>1
      <4> QED
        BY <4>1, <4>2 DEF NumbersLost
    <3>4. n \in NumbersGiven(x)
      BY <2>3 DEF NumbersGiven
    <3> HIDE DEF n
    <3>5. NumbersGiven(x)' \cap NumbersLost(x)' = {}
      BY <1>0, <3>2, <3>3 DEF Accounted
    <3>6. NumbersGiven(x)' \cup NumbersLost(x)' = NumbersGiven(x) \cup NumbersLost(x)
      BY <3>2, <3>3, <3>4
    <3>7. store' = store
      BY <2>1
    <3> QED
      BY <1>0, <3>5, <3>6, <3>7 DEF Accounted
  <2> QED
    BY <2>2, <2>3
<1> QED
  BY <1>1, <1>2, <1>3, <1>4, <1>5, <1>6 DEF SequentialNext, Accounted

(* Every number up to the entry of a room is held by a caller or lost with *)
(* its answer, and a lost one is never given out again.                    *)
THEOREM AllNumbersAccounted == SequentialSpec => []NumbersAccounted
<1>1. Init => NumbersAccounted
  BY MarksAssumption DEF Init, NumbersAccounted, NumbersGiven, NumbersLost, Numbered
<1>2. TypeInv /\ [SequentialNext]_vars => TypeInv'
  BY TypeStep, SequentialIsNext
<1> QED
  BY <1>1, <1>2, TypeInit, SequentialInit, SequentialStep, AccountedStep, PTL
     DEF SequentialSpec

=============================================================================
