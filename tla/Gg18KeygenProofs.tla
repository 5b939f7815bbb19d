--------------------------- MODULE Gg18KeygenProofs ---------------------------
(***************************************************************************)
(* Proofs about the key generation of GG18, for any callers, counts and    *)
(* restarts of the manager: nothing is written twice, nobody is ahead of   *)
(* those it counts, what is read verifies, the parties that return a key   *)
(* return the same one, and they do not all wait for one another.  Two     *)
(* callers that meet in the signup may get one number; what holds only     *)
(* unless they do has DistinctNumbers as its condition.                    *)
(*                                                                         *)
(* ExchangeInv is the inductive invariant behind all of this.  It traces   *)
(* what a caller has read (AnswersInv) and collected (VectorsInv) back to  *)
(* who wrote it (StoreInv), by the numbers of the callers (SignupInv).     *)
(* That keys agree needs no condition.  Number 1 goes to the caller that   *)
(* made the uuid alone (FirstInv), what is encrypted can be decrypted by   *)
(* one caller only (SealedInv), and each party sends its share to one of   *)
(* the callers with a number: so one of them gets past round 3, and it is  *)
(* the one that all the others count (VerifiedInv, OnePasses).             *)
(***************************************************************************)
EXTENDS Gg18Keygen, TLAPS

(* Party n of the computation of c is d. *)
PartyAt(c, n, d) == SameRun(c, d) /\ number[d] = n

(* Caller d has written what it writes for party `to` in round r.          *)
Wrote(d, to, r) ==
    /\ uuid[d] # NoUuid
    /\ \/ r < round[d]
       \/ r = round[d] /\ (pc[d] \notin {"send", "stopped"} \/ (r = 3 /\ to < peer[d]))

(* What that is. *)
Written(d, to, r, v) ==
    IF r = 3
    THEN /\ to \in 1 .. parties[d] \ {number[d]}
         /\ \E e \in Callers :
              PartyAt(d, to, e) /\ v = [key |-> {d, e}, plain |-> [of |-> d, at |-> to]]
    ELSE v = Own(d, Kind[r])

TypeInv ==
    /\ parties \in [Callers -> Counts]
    /\ pc \in [Callers -> {"signup", "write", "send", "poll", "done", "panicked",
                            "stopped", "left"}]
    /\ number \in [Callers -> Nat]
    /\ uuid \in [Callers -> Callers \cup {NoUuid}]
    /\ round \in [Callers -> 1 .. 5]
    /\ peer \in [Callers -> Nat]
    /\ entry \in [number : Nat, uuid : Callers \cup {NoUuid}]
    /\ candidate \in [Callers -> [number : Nat, uuid : Callers \cup {NoUuid}]]
    /\ live \subseteq Callers
    /\ restarts \in 0 .. MaxRestarts

VectorTypeInv ==
    /\ ans_vec \in [Callers -> Seq(Value)]
    /\ bc1_vec \in [Callers -> Seq(Made({"bc"}))]
    /\ decom_vec \in [Callers -> Seq(Made({"decom"}))]
    /\ party_shares \in [Callers -> Seq(Share)]
    /\ vss_scheme_vec \in [Callers -> Seq(Made({"vss"}))]
    /\ dlog_proof_vec \in [Callers -> Seq(Made({"dlog_proof"}))]

(* The uuid that a caller generates is its own, and the entry of the room  *)
(* and what is about to be written there have one that is live.            *)
SignupInv ==
    /\ entry # NoEntry => entry.uuid \in live
    /\ \A c \in Callers : pc[c] \in {"send", "poll"} => uuid[c] # NoUuid
    /\ \A c \in Callers : pc[c] = "signup" =>
         /\ uuid[c] = NoUuid /\ c \notin live
         /\ \A d \in Callers : uuid[d] # c
    /\ \A c \in Callers : pc[c] = "write" =>
         /\ uuid[c] = NoUuid /\ candidate[c].uuid \in live
         /\ candidate[c].number \in 1 .. parties[c]

(* A caller that has a number has one of those it counts, and turns to     *)
(* parties other than itself.                                              *)
MemberInv ==
    \A c \in Callers :
        /\ uuid[c] # NoUuid => number[c] \in 1 .. parties[c]
        /\ uuid[c] = NoUuid => number[c] = 0 /\ round[c] = 1
        /\ pc[c] \in {"send", "poll"} => peer[c] >= 1 /\ peer[c] # number[c]

(* What the map holds was written by a caller under its own number. *)
Stored(k, v) ==
    \E d \in Callers, to \in Nat, r \in 1 .. 5 :
        /\ k = <<uuid[d], number[d], to, r>>
        /\ Wrote(d, to, r) /\ Written(d, to, r, v)

StoreInv == \A k \in DOMAIN store : Stored(k, store[k])

Heard(c, n, r) == \E d \in Callers : SameRun(c, d) /\ number[d] = n /\ HasSent(d, c, r)

(* What a poll has passed was sent. *)
PollInv ==
    \A c \in Callers : pc[c] = "poll" =>
        \A n \in 1 .. parties[c] : n < peer[c] /\ n # number[c] => Heard(c, n, round[c])

DoneInv ==
    \A c \in Callers : pc[c] = "done" =>
        round[c] = 5 /\ \A n \in 1 .. parties[c] : Heard(c, n, 5)

(* The number of the j-th of the parties other than party `me`. *)
Place(me, j) == IF j < me THEN j ELSE j + 1

Nth(c, j) == Place(number[c], j)

(* v is what party n writes for c in the round of c. *)
Answer(c, n, v) ==
    \E d \in Callers :
        PartyAt(c, n, d) /\ Written(d, IF round[c] = 3 THEN number[c] ELSE All, round[c], v)

(* The answers are those of the other parties, in order. *)
AnswersInv ==
    \A c \in Callers :
        /\ pc[c] \in {"signup", "write", "send"} => ans_vec[c] = <<>>
        /\ pc[c] = "poll" =>
             /\ peer[c] = Nth(c, Len(ans_vec[c]) + 1)
             /\ Len(ans_vec[c]) < parties[c]
             /\ \A j \in 1 .. Len(ans_vec[c]) : Answer(c, Nth(c, j), ans_vec[c][j])

(* The vectors of the rounds that are over have the value of party n at n. *)
Aligned(c, v, kind) ==
    /\ v \in Seq(Made({kind})) /\ Len(v) = parties[c]
    /\ \A n \in 1 .. parties[c] : \E d \in Callers : PartyAt(c, n, d) /\ v[n] = Own(d, kind)

SharesAligned(c, v) ==
    /\ v \in Seq(Share) /\ Len(v) = parties[c]
    /\ \A n \in 1 .. parties[c] : \E d \in Callers :
         PartyAt(c, n, d) /\ number[c] <= parties[d] /\ v[n] = [of |-> d, at |-> number[c]]

VectorsInv ==
    \A c \in Callers :
        /\ round[c] > 1 => Aligned(c, bc1_vec[c], "bc")
        /\ round[c] > 2 => Aligned(c, decom_vec[c], "decom")
        /\ round[c] > 3 => SharesAligned(c, party_shares[c])
        /\ round[c] > 4 => Aligned(c, vss_scheme_vec[c], "vss")

ExchangeInv ==
    /\ TypeInv /\ VectorTypeInv /\ SignupInv /\ MemberInv /\ StoreInv
    /\ PollInv /\ DoneInv /\ CommitFirst /\ AnswersInv /\ VectorsInv /\ ReadsVerify

(***************************************************************************)
(* Vectors: what inserting and removing the caller's own value does.       *)
(***************************************************************************)
LEMMA SeqOf ==
    ASSUME NEW S, NEW T, NEW s \in Seq(S), \A i \in 1 .. Len(s) : s[i] \in T
    PROVE  s \in Seq(T)
<1>1. Len(s) \in Nat /\ s \in [1 .. Len(s) -> S]
  OBVIOUS
<1>2. s = [i \in 1 .. Len(s) |-> s[i]]
  BY <1>1
<1>3. s \in [1 .. Len(s) -> T]
  BY <1>2
<1> QED
  BY <1>1, <1>3

LEMMA Places ==
    ASSUME NEW l \in Nat, NEW me \in 1 .. l + 1, NEW i \in 1 .. l + 1, i # me
    PROVE  \E j \in 1 .. l : i = Place(me, j)
<1>1. (IF i < me THEN i ELSE i - 1) \in 1 .. l
  OBVIOUS
<1>2. i = Place(me, IF i < me THEN i ELSE i - 1)
  BY DEF Place
<1> QED
  BY <1>1, <1>2

(* w is the sequence ans over S with `own` put at place `me`. *)
Inserted(S, ans, me, own, w) ==
    /\ w \in Seq(S) /\ Len(w) = Len(ans) + 1 /\ w[me] = own
    /\ \A j \in 1 .. Len(ans) : w[Place(me, j)] = ans[j]

LEMMA FormatVecIs ==
    ASSUME NEW S, NEW ans, NEW me, NEW own, NEW w,
           ans \in Seq(S), me \in 1 .. Len(ans) + 1, own \in S, w = FormatVec(ans, me, own)
    PROVE  Inserted(S, ans, me, own, w)
<1>1. Len(ans) \in Nat /\ \A j \in 1 .. Len(ans) : ans[j] \in S
  OBVIOUS
<1>2. \A i \in 1 .. Len(ans) + 1 : i # me => (IF i < me THEN i ELSE i - 1) \in 1 .. Len(ans)
  BY <1>1
<1>3. w[me] = own /\ \A j \in 1 .. Len(ans) : w[Place(me, j)] = ans[j]
  BY <1>1 DEF FormatVec, Place
<1>4. w \in [1 .. Len(ans) + 1 -> S]
  BY <1>1, <1>2 DEF FormatVec
<1>5. w \in Seq(S) /\ Len(w) = Len(ans) + 1
  BY <1>1, <1>4
<1> QED
  BY <1>3, <1>5 DEF Inserted

LEMMA WithoutIs ==
    ASSUME NEW S, NEW v \in Seq(S), NEW me \in 1 .. Len(v)
    PROVE  /\ Without(v, me) \in Seq(S) /\ Len(Without(v, me)) = Len(v) - 1
           /\ \A j \in 1 .. Len(v) - 1 : Without(v, me)[j] = v[IF j < me THEN j ELSE j + 1]
<1>1. Len(v) \in Nat /\ Len(v) - 1 \in Nat /\ \A j \in 1 .. Len(v) : v[j] \in S
  OBVIOUS
<1>2. \A j \in 1 .. Len(v) - 1 : (IF j < me THEN j ELSE j + 1) \in 1 .. Len(v)
  BY <1>1
<1>3. Without(v, me) \in [1 .. Len(v) - 1 -> S]
  BY <1>1, <1>2 DEF Without
<1> QED
  BY <1>1, <1>3 DEF Without

LEMMA InitInv == Init => ExchangeInv
<1> SUFFICES ASSUME Init PROVE ExchangeInv
  OBVIOUS
<1> USE CallersAssumption DEF Init, ExchangeInit
<1>1. TypeInv
  BY RestartsAssumption DEF TypeInv, NoEntry
<1>2. VectorTypeInv
  BY DEF VectorTypeInv
<1>3. SignupInv /\ MemberInv /\ ReadsVerify
  BY DEF SignupInv, MemberInv, NoEntry, ReadsVerify
<1>4. StoreInv
  BY DEF StoreInv
<1>5. PollInv /\ DoneInv /\ CommitFirst /\ AnswersInv /\ VectorsInv
  BY DEF PollInv, DoneInv, CommitFirst, AnswersInv, VectorsInv
<1> QED
  BY <1>1, <1>2, <1>3, <1>4, <1>5 DEF ExchangeInv

-----------------------------------------------------------------------------
(* The ways in which a call moves on: it writes one value, or has none to  *)
(* write, it reads one, or it ends the round.                              *)
Adds(k) ==
    /\ DOMAIN store' = DOMAIN store \cup {k}
    /\ \A x \in DOMAIN store \ {k} : store'[x] = store[x]

ValueOf(c, to) == IF round[c] = 3 THEN AeadPacks(c)[to] ELSE Own(c, Kind[round[c]])

Writes(c) ==
    \E to \in Nat :
        /\ pc[c] = "send"
        /\ Adds(<<uuid[c], number[c], to, round[c]>>)
        /\ store'[<<uuid[c], number[c], to, round[c]>>] = ValueOf(c, to)
        /\ IF round[c] = 3 THEN to = peer[c] /\ to <= parties[c] ELSE to = All
        /\ \/ /\ pc'[c] = "poll" /\ peer'[c] = Other(c, 1)
              /\ round[c] = 3 => Other(c, peer[c] + 1) > parties[c]
           \/ /\ round[c] = 3 /\ pc'[c] = "send"
              /\ peer'[c] = Other(c, peer[c] + 1) /\ peer'[c] > peer[c]
        /\ ans_vec'[c] = ans_vec[c]
        /\ UNCHANGED <<round, vecs>>

Skips(c) ==
    /\ pc[c] = "send" /\ round[c] = 3 /\ ~(peer[c] <= parties[c])
    /\ pc'[c] = "poll" /\ peer'[c] = Other(c, 1)
    /\ ans_vec'[c] = ans_vec[c]
    /\ UNCHANGED <<round, store, vecs>>

Reads(c) ==
    LET k == <<uuid[c], peer[c], IF round[c] = 3 THEN number[c] ELSE All, round[c]>> IN
    /\ pc[c] = "poll" /\ pc'[c] = "poll" /\ peer[c] <= parties[c]
    /\ k \in DOMAIN store
    /\ ans_vec'[c] = Append(ans_vec[c], store[k])
    /\ peer'[c] = Other(c, peer[c] + 1)
    /\ UNCHANGED <<round, store, vecs>>

Ends(c) ==
    /\ pc[c] = "poll" /\ peer[c] > parties[c]
    /\ peer'[c] = Other(c, 1)
    /\ ans_vec'[c] = <<>>
    /\ pc'[c] \in {"send", "done", "panicked"}
    /\ round'[c] \in 1 .. 5
    /\ \/ round'[c] = round[c] + 1 /\ pc'[c] = "send"
       \/ round'[c] = round[c] /\ round[c] = 5 /\ pc'[c] = "done"
       \/ round'[c] = round[c] /\ pc'[c] = "panicked"
    /\ UNCHANGED store
    /\ EndRound1(c) \/ EndRound2(c) \/ EndRound3(c) \/ EndRound4(c) \/ EndRound5(c)

OthersStay(c) ==
    /\ pc' = [pc EXCEPT ![c] = pc'[c]]
    /\ peer' = [peer EXCEPT ![c] = peer'[c]]
    /\ round' = [round EXCEPT ![c] = round'[c]]
    /\ ans_vec' = [ans_vec EXCEPT ![c] = ans_vec'[c]]
    /\ UNCHANGED <<parties, number, uuid, entry, candidate, restarts, live>>

LEMMA Moves ==
    ASSUME TypeInv, VectorTypeInv, NEW c \in Callers, Proceed(c)
    PROVE  OthersStay(c) /\ (Writes(c) \/ Skips(c) \/ Reads(c) \/ Ends(c))
<1> USE DEF TypeInv
<1>1. ASSUME BroadcastRound(c) PROVE OthersStay(c) /\ Writes(c)
  <2>1. round[c] # 3 /\ Broadcast(c, Own(c, Kind[round[c]])) /\ UNCHANGED vecs
    BY <1>1 DEF BroadcastRound
  <2>2. OthersStay(c)
    BY <2>1 DEF Broadcast, OthersStay, VectorTypeInv
  <2>3. /\ Adds(<<uuid[c], number[c], All, round[c]>>) /\ All \in Nat
        /\ store'[<<uuid[c], number[c], All, round[c]>>] = ValueOf(c, All)
    BY <2>1 DEF Broadcast, Key, All, Put, Adds, ValueOf
  <2>4. /\ pc[c] = "send" /\ pc'[c] = "poll" /\ peer'[c] = Other(c, 1)
        /\ round' = round /\ ans_vec' = ans_vec
    BY <2>1 DEF Broadcast
  <2> QED
    BY <2>1, <2>2, <2>3, <2>4 DEF Writes
<1>2. ASSUME SendShare(c) PROVE OthersStay(c) /\ (Writes(c) \/ Skips(c))
  <2>1. round[c] = 3 /\ SendP2p(c, parties[c], AeadPacks(c)) /\ UNCHANGED vecs
    BY <1>2 DEF SendShare
  <2>2. OthersStay(c)
    BY <2>1 DEF SendP2p, OthersStay, VectorTypeInv
  <2>3. Other(c, peer[c] + 1) \in Nat /\ Other(c, peer[c] + 1) > peer[c]
    BY DEF Other
  <2>4. /\ pc[c] = "send" /\ round' = round /\ ans_vec' = ans_vec
        /\ \/ /\ pc'[c] = "poll" /\ peer'[c] = Other(c, 1)
              /\ Other(c, peer[c] + 1) > parties[c]
           \/ /\ pc'[c] = "send" /\ peer'[c] = Other(c, peer[c] + 1)
              /\ Other(c, peer[c] + 1) <= parties[c]
    <3>1. parties[c] \in Nat
      BY CountsAssumption
    <3> QED
      BY <2>1, <2>3, <3>1 DEF SendP2p
  <2>5. CASE peer[c] <= parties[c]
    <3>1. /\ Adds(<<uuid[c], number[c], peer[c], round[c]>>)
          /\ store'[<<uuid[c], number[c], peer[c], round[c]>>] = ValueOf(c, peer[c])
      BY <2>1, <2>5 DEF SendP2p, Key, Put, Adds, ValueOf
    <3> QED
      BY <2>1, <2>2, <2>3, <2>4, <2>5, <3>1 DEF Writes
  <2>6. CASE ~(peer[c] <= parties[c])
    <3>1. store' = store
      BY <2>1, <2>6 DEF SendP2p
    <3>2. ~(Other(c, peer[c] + 1) <= parties[c])
      <4>1. parties[c] \in Nat /\ peer[c] \in Nat
        BY CountsAssumption
      <4> QED
        BY <2>3, <2>6, <4>1
    <3> QED
      BY <2>1, <2>2, <2>4, <2>6, <3>1, <3>2 DEF Skips
  <2> QED
    BY <2>5, <2>6
<1>3. ASSUME Read(c) PROVE OthersStay(c) /\ Reads(c)
  <2> DEFINE k == <<uuid[c], peer[c], IF round[c] = 3 THEN number[c] ELSE All, round[c]>>
  <2>1. /\ pc[c] = "poll" /\ peer[c] <= parties[c] /\ k \in DOMAIN store
        /\ ans_vec' = [ans_vec EXCEPT ![c] = Append(@, store[k])]
        /\ peer' = [peer EXCEPT ![c] = Other(c, @ + 1)]
        /\ UNCHANGED <<parties, pc, number, uuid, round, entry, candidate, store, restarts,
                       live, vecs>>
    BY <1>3 DEF Read, Poll, Key
  <2>2. OthersStay(c)
    BY <2>1 DEF OthersStay, VectorTypeInv
  <2>3. ans_vec'[c] = Append(ans_vec[c], store[k]) /\ peer'[c] = Other(c, peer[c] + 1)
    BY <2>1 DEF VectorTypeInv
  <2> QED
    BY <2>1, <2>2, <2>3 DEF Reads
<1>4. ASSUME NEW verified, EndRound(c, parties[c], 5, verified),
             EndRound1(c) \/ EndRound2(c) \/ EndRound3(c) \/ EndRound4(c) \/ EndRound5(c)
      PROVE  OthersStay(c) /\ Ends(c)
  <2>1. OthersStay(c)
    BY <1>4 DEF EndRound, OthersStay, VectorTypeInv
  <2>2. /\ pc[c] = "poll" /\ peer[c] > parties[c] /\ peer'[c] = Other(c, 1)
        /\ UNCHANGED store /\ ans_vec'[c] = <<>>
    BY <1>4 DEF EndRound, VectorTypeInv
  <2>3. pc'[c] = IF ~verified THEN "panicked" ELSE IF round[c] = 5 THEN "done" ELSE "send"
    BY <1>4 DEF EndRound
  <2>4. round'[c] = IF verified /\ round[c] # 5 THEN round[c] + 1 ELSE round[c]
    BY <1>4 DEF EndRound
  <2>5. round[c] \in 1 .. 5
    OBVIOUS
  <2> QED
    BY <1>4, <2>1, <2>2, <2>3, <2>4, <2>5 DEF Ends
<1> QED
  BY <1>1, <1>2, <1>3, <1>4 DEF Proceed, EndRound1, EndRound2, EndRound3, EndRound4, EndRound5

(* What a step is to one caller. *)
Same(x) ==
    /\ pc'[x] = pc[x] /\ peer'[x] = peer[x] /\ round'[x] = round[x]
    /\ number'[x] = number[x] /\ uuid'[x] = uuid[x] /\ ans_vec'[x] = ans_vec[x]
    /\ bc1_vec'[x] = bc1_vec[x] /\ decom_vec'[x] = decom_vec[x]
    /\ party_shares'[x] = party_shares[x] /\ vss_scheme_vec'[x] = vss_scheme_vec[x]

(* Its signup has no answer: the manager restarts. *)
Abandoned(x) == Restart /\ pc[x] = "write" /\ pc'[x] = "panicked"

LEMMA Frame ==
    ASSUME TypeInv, VectorTypeInv, [Next]_vars, NEW x \in Callers
    PROVE  \/ Proceed(x) /\ OthersStay(x) /\ (Writes(x) \/ Skips(x) \/ Reads(x) \/ Ends(x))
           \/ (SignUp(x) \/ Stop(x) \/ Abandoned(x)) /\ UNCHANGED vecs
           \/ Same(x)
<1> USE DEF TypeInv
<1>1. ASSUME NEW c \in Callers, Proceed(c), c # x PROVE Same(x)
  <2>1. OthersStay(c) /\ (Writes(c) \/ Skips(c) \/ Reads(c) \/ Ends(c))
    BY <1>1, Moves
  <2>2. /\ pc'[x] = pc[x] /\ peer'[x] = peer[x] /\ round'[x] = round[x]
        /\ number'[x] = number[x] /\ uuid'[x] = uuid[x] /\ ans_vec'[x] = ans_vec[x]
    BY <1>1, <2>1 DEF OthersStay, VectorTypeInv
  <2>3. CASE UNCHANGED vecs
    BY <2>2, <2>3 DEF Same, vecs
  <2>4. CASE Ends(c)
    BY <1>1, <2>2, <2>4
       DEF Ends, Same, EndRound1, EndRound2, EndRound3, EndRound4, EndRound5, VectorTypeInv
  <2> QED
    BY <2>1, <2>3, <2>4 DEF Writes, Skips, Reads
<1>2. ASSUME NEW c \in Callers, SignUp(c) \/ Stop(c), UNCHANGED vecs, c # x PROVE Same(x)
  <2>1. /\ pc'[x] = pc[x] /\ peer'[x] = peer[x] /\ round'[x] = round[x]
        /\ number'[x] = number[x] /\ uuid'[x] = uuid[x] /\ ans_vec'[x] = ans_vec[x]
    <3>1. CASE ReadSignup(c)
      BY <1>2, <3>1 DEF ReadSignup
    <3>2. CASE WriteSignup(c)
      BY <1>2, <3>2 DEF WriteSignup
    <3>3. CASE Stop(c)
      BY <1>2, <3>3 DEF Stop
    <3> QED
      BY <1>2, <3>1, <3>2, <3>3 DEF SignUp
  <2> QED
    BY <1>2, <2>1 DEF Same, vecs
<1>3. ASSUME Restart, UNCHANGED vecs PROVE Same(x) \/ (Abandoned(x) /\ UNCHANGED vecs)
  BY <1>3 DEF Restart, Abandoned, Same, vecs
<1>4. CASE UNCHANGED vars
  BY <1>4 DEF vars, exchangeVars, Same, vecs
<1>5. Proceed(x) => OthersStay(x) /\ (Writes(x) \/ Skips(x) \/ Reads(x) \/ Ends(x))
  BY Moves
<1> QED
  BY <1>1, <1>2, <1>3, <1>4, <1>5 DEF Next

LEMMA PartiesStay == ASSUME TypeInv, VectorTypeInv, [Next]_vars PROVE parties' = parties
<1>1. ASSUME NEW c \in Callers, Proceed(c) PROVE parties' = parties
  BY <1>1, Moves DEF OthersStay
<1> QED
  BY <1>1 DEF Next, SignUp, ReadSignup, WriteSignup, Stop, Restart, vars, exchangeVars

LEMMA TypeStep ==
    ASSUME TypeInv, VectorTypeInv, [Next]_vars
    PROVE  TypeInv'
<1> USE DEF TypeInv
<1>1. ASSUME NEW c \in Callers, Proceed(c) PROVE TypeInv'
  <2>1. OthersStay(c) /\ (Writes(c) \/ Skips(c) \/ Reads(c) \/ Ends(c))
    BY <1>1, Moves
  <2>2. \A i \in Nat : Other(c, i) \in Nat
    BY DEF Other
  <2>3. pc'[c] \in {"send", "poll", "done", "panicked"} /\ peer'[c] \in Nat /\ round'[c] \in 1 .. 5
    <3>1. CASE Writes(c)
      BY <2>2, <3>1 DEF Writes
    <3>2. CASE Reads(c)
      <4>1. pc'[c] = "poll" /\ peer'[c] = Other(c, peer[c] + 1) /\ round'[c] = round[c]
        BY <3>2 DEF Reads
      <4> QED
        BY <2>2, <4>1
    <3>3. CASE Ends(c)
      BY <2>2, <3>3 DEF Ends
    <3>4. CASE Skips(c)
      BY <2>2, <3>4 DEF Skips
    <3> QED
      BY <2>1, <3>1, <3>2, <3>3, <3>4
  <2> QED
    BY <2>1, <2>3 DEF OthersStay
<1>2. ASSUME NEW c \in Callers, SignUp(c) PROVE TypeInv'
  <2>1. CASE ReadSignup(c)
    <3>1. \E o \in {"write", "panicked"} : pc' = [pc EXCEPT ![c] = o]
      BY <2>1 DEF ReadSignup
    <3>2. \/ candidate' = candidate
          \/ \E p \in [number : Nat, uuid : Callers \cup {NoUuid}] :
                candidate' = [candidate EXCEPT ![c] = p]
      <4>1. [number |-> 1, uuid |-> c] \in [number : Nat, uuid : Callers \cup {NoUuid}]
        OBVIOUS
      <4>2. [entry EXCEPT !.number = @ + 1] \in [number : Nat, uuid : Callers \cup {NoUuid}]
        OBVIOUS
      <4> HIDE DEF TypeInv
      <4> QED
        BY <2>1, <4>1, <4>2 DEF ReadSignup
    <3>3. candidate' \in [Callers -> [number : Nat, uuid : Callers \cup {NoUuid}]]
      BY <3>2
    <3>4. live' \subseteq Callers
      BY <2>1 DEF ReadSignup
    <3> QED
      BY <2>1, <3>1, <3>3, <3>4 DEF ReadSignup
  <2>2. CASE WriteSignup(c)
    <3>1. candidate[c].number \in Nat /\ candidate[c].uuid \in Callers \cup {NoUuid}
      OBVIOUS
    <3> QED
      BY <2>2, <3>1 DEF WriteSignup
  <2> QED
    BY <1>2, <2>1, <2>2 DEF SignUp
<1>3. ASSUME NEW c \in Callers, Stop(c) PROVE TypeInv'
  BY <1>3 DEF Stop
<1>4. CASE Restart
  BY <1>4, RestartsAssumption DEF Restart, NoEntry
<1>5. CASE UNCHANGED vars
  BY <1>5 DEF vars, exchangeVars
<1> QED
  BY <1>1, <1>2, <1>3, <1>4, <1>5 DEF Next

LEMMA SignupStep ==
    ASSUME TypeInv, VectorTypeInv, SignupInv, [Next]_vars
    PROVE  SignupInv'
<1> USE CallersAssumption DEF TypeInv, SignupInv
<1>1. ASSUME NEW c \in Callers, Proceed(c) PROVE SignupInv'
  <2>1. OthersStay(c) /\ pc[c] \in {"send", "poll"} /\ pc'[c] \notin {"signup", "write"}
    BY <1>1, Moves DEF Writes, Skips, Reads, Ends
  <2>2. /\ UNCHANGED <<parties, number, uuid, entry, candidate, live>>
        /\ \A d \in Callers : d # c => pc'[d] = pc[d]
    BY <2>1 DEF OthersStay
  <2> QED
    BY <2>1, <2>2
<1>2. ASSUME NEW c \in Callers, ReadSignup(c) PROVE SignupInv'
  <2>1. /\ pc[c] = "signup" /\ UNCHANGED <<parties, uuid, entry>>
        /\ \A d \in Callers : d # c => pc'[d] = pc[d] /\ candidate'[d] = candidate[d]
        /\ live \subseteq live' /\ live' \subseteq live \cup {c}
    BY <1>2 DEF ReadSignup
  <2>2. \/ pc'[c] = "panicked"
        \/ /\ pc'[c] = "write" /\ candidate'[c].uuid \in live'
           /\ candidate'[c].number \in 1 .. parties[c]
    <3>1. parties[c] \in Nat \ {0}
      BY CountsAssumption
    <3>2. CASE entry = NoEntry
      BY <1>2, <3>1, <3>2 DEF ReadSignup
    <3>3. CASE entry # NoEntry /\ entry.number < parties[c]
      <4>1. /\ candidate'[c] = [entry EXCEPT !.number = @ + 1] /\ pc'[c] = "write"
            /\ live' = live
        BY <1>2, <3>3, <3>1 DEF ReadSignup
      <4>2. candidate'[c].number = entry.number + 1 /\ candidate'[c].uuid = entry.uuid
        BY <4>1
      <4> QED
        BY <3>1, <3>3, <4>1, <4>2
    <3>4. CASE entry # NoEntry /\ ~(entry.number < parties[c])
      BY <1>2, <3>1, <3>4 DEF ReadSignup
    <3> QED
      BY <3>2, <3>3, <3>4
  <2>3. \A d \in Callers : d # c /\ pc[d] = "signup" => d \notin live'
    BY <2>1
  <2> HIDE DEF TypeInv
  <2>4. entry' # NoEntry => entry'.uuid \in live'
    BY <2>1
  <2>5. \A d \in Callers : pc'[d] \in {"send", "poll"} => uuid'[d] # NoUuid
    BY <2>1, <2>2
  <2>6. ASSUME NEW d \in Callers, pc'[d] = "signup"
        PROVE  uuid'[d] = NoUuid /\ d \notin live' /\ \A e \in Callers : uuid'[e] # d
    <3>1. d # c /\ pc[d] = "signup"
      BY <2>1, <2>2, <2>6
    <3> QED
      BY <2>1, <2>3, <3>1
  <2>7. ASSUME NEW d \in Callers, pc'[d] = "write"
        PROVE  /\ uuid'[d] = NoUuid /\ candidate'[d].uuid \in live'
               /\ candidate'[d].number \in 1 .. parties'[d]
    <3>1. CASE d = c
      BY <2>1, <2>2, <2>7, <3>1
    <3>2. CASE d # c
      BY <2>1, <2>7, <3>2
    <3> QED
      BY <3>1, <3>2
  <2> QED
    BY <2>4, <2>5, <2>6, <2>7
<1>3. ASSUME NEW c \in Callers, WriteSignup(c) PROVE SignupInv'
  <2>1. /\ pc[c] = "write" /\ pc'[c] = "send" /\ uuid'[c] = candidate[c].uuid
        /\ candidate[c].uuid \in live /\ entry' = candidate[c]
        /\ UNCHANGED <<parties, candidate, live>>
        /\ \A d \in Callers : d # c => pc'[d] = pc[d] /\ uuid'[d] = uuid[d]
    BY <1>3 DEF WriteSignup
  <2>2. uuid'[c] # NoUuid
    BY <2>1
  <2>3. \A d \in Callers : pc[d] = "signup" => uuid'[c] # d
    BY <2>1
  <2> HIDE DEF TypeInv
  <2>4. entry' # NoEntry => entry'.uuid \in live'
    BY <2>1
  <2>5. \A d \in Callers : pc'[d] \in {"send", "poll"} => uuid'[d] # NoUuid
    BY <2>1, <2>2
  <2>6. ASSUME NEW d \in Callers, pc'[d] = "signup"
        PROVE  uuid'[d] = NoUuid /\ d \notin live' /\ \A e \in Callers : uuid'[e] # d
    <3>1. d # c /\ pc[d] = "signup"
      BY <2>1, <2>6
    <3> QED
      BY <2>1, <2>3, <3>1
  <2>7. ASSUME NEW d \in Callers, pc'[d] = "write"
        PROVE  /\ uuid'[d] = NoUuid /\ candidate'[d].uuid \in live'
               /\ candidate'[d].number \in 1 .. parties'[d]
    <3>1. d # c /\ pc[d] = "write"
      BY <2>1, <2>7
    <3> QED
      BY <2>1, <3>1
  <2> QED
    BY <2>4, <2>5, <2>6, <2>7
<1>4. ASSUME NEW c \in Callers, Stop(c) PROVE SignupInv'
  <2>1. pc[c] \in {"send", "poll"} /\ \E o \in {"stopped", "left"} : pc' = [pc EXCEPT ![c] = o]
    BY <1>4 DEF Stop
  <2>2. UNCHANGED <<parties, number, uuid, entry, candidate, live>>
    BY <1>4 DEF Stop
  <2> QED
    BY <2>1, <2>2
<1>5. CASE Restart
  BY <1>5 DEF Restart, NoEntry
<1>6. CASE UNCHANGED vars
  BY <1>6 DEF vars, exchangeVars
<1> QED
  BY <1>1, <1>2, <1>3, <1>4, <1>5, <1>6 DEF Next, SignUp

-----------------------------------------------------------------------------
(* A caller keeps its number and its computation. *)
LEMMA MembersStay ==
    ASSUME TypeInv, VectorTypeInv, SignupInv, [Next]_vars, NEW e \in Callers, uuid[e] # NoUuid
    PROVE  uuid'[e] = uuid[e] /\ number'[e] = number[e] /\ parties' = parties
<1> USE DEF TypeInv
<1>1. ASSUME NEW x \in Callers, Proceed(x) PROVE uuid'[e] = uuid[e] /\ number'[e] = number[e] /\ parties' = parties
  BY <1>1, Moves DEF OthersStay
<1>2. ASSUME NEW x \in Callers, SignUp(x) PROVE uuid'[e] = uuid[e] /\ number'[e] = number[e] /\ parties' = parties
  <2>1. x # e
    BY <1>2 DEF SignUp, ReadSignup, WriteSignup, SignupInv
  <2> QED
    BY <1>2, <2>1 DEF SignUp, ReadSignup, WriteSignup
<1>3. ASSUME NEW x \in Callers, Stop(x) PROVE uuid'[e] = uuid[e] /\ number'[e] = number[e] /\ parties' = parties
  BY <1>3 DEF Stop
<1>4. CASE Restart
  BY <1>4 DEF Restart
<1>5. CASE UNCHANGED vars
  BY <1>5 DEF vars, exchangeVars
<1> QED
  BY <1>1, <1>2, <1>3, <1>4, <1>5 DEF Next

LEMMA PartyStays ==
    ASSUME TypeInv, VectorTypeInv, SignupInv, [Next]_vars,
           NEW c \in Callers, NEW d \in Callers, NEW n, PartyAt(c, n, d)
    PROVE  PartyAt(c, n, d)'
BY MembersStay DEF PartyAt, SameRun

LEMMA WrittenStays ==
    ASSUME TypeInv, VectorTypeInv, SignupInv, [Next]_vars,
           NEW d \in Callers, uuid[d] # NoUuid, NEW to, NEW r \in 1 .. 5, NEW v, Written(d, to, r, v)
    PROVE  Written(d, to, r, v)'
<1>1. parties' = parties /\ number'[d] = number[d]
  BY MembersStay
<1> QED
  BY <1>1, PartyStays DEF Written

(* Two that have one number keep it. *)
LEMMA DistinctBefore ==
    ASSUME TypeInv, VectorTypeInv, SignupInv, [Next]_vars, DistinctNumbers'
    PROVE  DistinctNumbers
BY MembersStay DEF DistinctNumbers, SameRun

LEMMA OneParty ==
    ASSUME DistinctNumbers, NEW c \in Callers, NEW d \in Callers, NEW e \in Callers, NEW n,
           PartyAt(c, n, d), PartyAt(c, n, e)
    PROVE  d = e
BY DEF DistinctNumbers, PartyAt, SameRun

(* What a caller has written, it has written; what one has sent, it has    *)
(* sent.                                                                   *)
LEMMA WroteStays ==
    ASSUME TypeInv, VectorTypeInv, SignupInv, [Next]_vars,
           NEW d \in Callers, NEW to \in Nat, NEW r \in 1 .. 5, Wrote(d, to, r)
    PROVE  Wrote(d, to, r)' /\ uuid'[d] = uuid[d] /\ number'[d] = number[d]
<1> USE DEF TypeInv
<1>1. ASSUME NEW c \in Callers, Proceed(c)
      PROVE  Wrote(d, to, r)' /\ uuid'[d] = uuid[d] /\ number'[d] = number[d]
  <2>1. OthersStay(c) /\ (Writes(c) \/ Skips(c) \/ Reads(c) \/ Ends(c))
    BY <1>1, Moves
  <2>2. uuid' = uuid /\ number' = number
    BY <2>1 DEF OthersStay
  <2>3. CASE c # d
    <3>1. pc'[d] = pc[d] /\ peer'[d] = peer[d] /\ round'[d] = round[d]
      BY <2>1, <2>3 DEF OthersStay
    <3> QED
      BY <2>2, <3>1 DEF Wrote
  <2>4. CASE c = d /\ Writes(c)
    <3>1. /\ pc[d] = "send" /\ round'[d] = round[d]
          /\ pc'[d] = "poll" \/ (pc'[d] = "send" /\ peer'[d] \in Nat /\ peer'[d] > peer[d])
      BY <2>4 DEF Writes, Other
    <3> QED
      BY <2>2, <3>1 DEF Wrote
  <2>5. CASE c = d /\ Reads(c)
    BY <2>2, <2>5 DEF Reads, Wrote
  <2>6. CASE c = d /\ Ends(c)
    <3>1. /\ round[d] \in 1 .. 5 /\ round'[d] \in 1 .. 5
          /\ \/ round'[d] = round[d] + 1
             \/ round'[d] = round[d] /\ pc'[d] \notin {"send", "stopped"}
      BY <2>6 DEF Ends
    <3> QED
      BY <2>2, <3>1 DEF Wrote
  <2>7. CASE c = d /\ Skips(c)
    BY <2>2, <2>7 DEF Skips, Wrote
  <2> QED
    BY <2>1, <2>3, <2>4, <2>5, <2>6, <2>7
<1>2. ASSUME NEW c \in Callers, SignUp(c)
      PROVE  Wrote(d, to, r)' /\ uuid'[d] = uuid[d] /\ number'[d] = number[d]
  <2>1. c # d
    BY <1>2 DEF SignUp, ReadSignup, WriteSignup, SignupInv, Wrote
  <2>2. /\ pc'[d] = pc[d] /\ peer'[d] = peer[d] /\ round'[d] = round[d]
        /\ uuid'[d] = uuid[d] /\ number'[d] = number[d]
    BY <1>2, <2>1 DEF SignUp, ReadSignup, WriteSignup
  <2> QED
    BY <2>2 DEF Wrote
<1>3. ASSUME NEW c \in Callers, Stop(c)
      PROVE  Wrote(d, to, r)' /\ uuid'[d] = uuid[d] /\ number'[d] = number[d]
  BY <1>3 DEF Stop, Wrote
<1>4. CASE Restart
  BY <1>4 DEF Restart, Wrote, SignupInv
<1>5. CASE UNCHANGED vars
  BY <1>5 DEF vars, exchangeVars, Wrote
<1> QED
  BY <1>1, <1>2, <1>3, <1>4, <1>5 DEF Next

LEMMA MemberStep ==
    ASSUME TypeInv, VectorTypeInv, SignupInv, MemberInv, [Next]_vars
    PROVE  MemberInv'
<1> SUFFICES ASSUME NEW c \in Callers
             PROVE  /\ uuid'[c] # NoUuid => number'[c] \in 1 .. parties[c]
                    /\ uuid'[c] = NoUuid => number'[c] = 0 /\ round'[c] = 1
                    /\ pc'[c] \in {"send", "poll"} => peer'[c] >= 1 /\ peer'[c] # number'[c]
  BY PartiesStay DEF MemberInv
<1> USE DEF TypeInv, MemberInv
<1>1. CASE Same(c)
  BY <1>1 DEF Same
<1>2. CASE OthersStay(c) /\ (Writes(c) \/ Skips(c) \/ Reads(c) \/ Ends(c))
  <2>1. uuid'[c] = uuid[c] /\ number'[c] = number[c] /\ uuid[c] # NoUuid
    BY <1>2 DEF OthersStay, Writes, Skips, Reads, Ends, SignupInv
  <2>2. \A i \in Nat : i >= 1 => Other(c, i) >= 1 /\ Other(c, i) # number[c]
    BY DEF Other
  <2>3. peer'[c] = Other(c, 1) \/ peer'[c] = Other(c, peer[c] + 1)
    BY <1>2 DEF Writes, Skips, Reads, Ends
  <2> QED
    BY <2>1, <2>2, <2>3
<1>3. CASE ReadSignup(c)
  <2>1. UNCHANGED <<number, uuid, round>> /\ pc'[c] \in {"write", "panicked"}
    BY <1>3 DEF ReadSignup
  <2> QED
    BY <2>1
<1>4. CASE WriteSignup(c)
  <2>1. /\ candidate[c].number \in 1 .. parties[c] /\ candidate[c].uuid # NoUuid
        /\ number'[c] = candidate[c].number /\ uuid'[c] = candidate[c].uuid
        /\ peer'[c] = IF number'[c] = 1 THEN 2 ELSE 1
    BY <1>4, CallersAssumption DEF WriteSignup, SignupInv
  <2> QED
    BY <2>1
<1>5. CASE Stop(c) \/ Abandoned(c)
  BY <1>5 DEF Stop, Abandoned, Restart
<1> QED
  BY <1>1, <1>2, <1>3, <1>4, <1>5, Frame DEF SignUp

-----------------------------------------------------------------------------
(* What is written. *)

LEMMA OwnType == ASSUME NEW c \in Callers, NEW kind PROVE Own(c, kind) \in Made({kind})
BY DEF Own, Made

(* The key for party i is made with the caller that has this number. *)
LEMMA EncKeysAre ==
    ASSUME TypeInv, MemberInv, VectorsInv, NEW c \in Callers, uuid[c] # NoUuid, round[c] > 2,
           NEW i \in 1 .. parties[c] \ {number[c]}
    PROVE  /\ \E e \in Callers :
                PartyAt(c, i, e) /\ EncKeys(c)[IF i < number[c] THEN i ELSE i - 1] = {c, e}
           /\ EncKeys(c)[IF i < number[c] THEN i ELSE i - 1] = {c, decom_vec[c][i].of}
<1>1. Aligned(c, decom_vec[c], "decom") /\ number[c] \in 1 .. parties[c] /\ parties[c] \in Nat
  BY CountsAssumption DEF VectorsInv, MemberInv, TypeInv
<1>2. PICK v : v = decom_vec[c]
  OBVIOUS
<1>3. PICK e \in Callers : PartyAt(c, i, e) /\ v[i] = Own(e, "decom")
  BY <1>1, <1>2 DEF Aligned
<1>4. PICK j \in 1 .. parties[c] - 1 :
         /\ j = IF i < number[c] THEN i ELSE i - 1
         /\ i = IF j < number[c] THEN j ELSE j + 1
  BY <1>1
<1>5. /\ v \in Seq(Made({"decom"})) /\ Len(v) = parties[c]
  BY <1>1, <1>2 DEF Aligned
<1>6. Len(Without(v, number[c])) = parties[c] - 1 /\ Without(v, number[c])[j] = v[i]
  <2>1. \A x \in 1 .. Len(v) - 1 :
          Without(v, number[c])[x] = v[IF x < number[c] THEN x ELSE x + 1]
    <3>1. v \in Seq(Made({"decom"})) /\ number[c] \in 1 .. Len(v)
      BY <1>1, <1>5
    <3> QED
      BY <3>1, WithoutIs, Zenon
  <2>2. Len(Without(v, number[c])) = Len(v) - 1
    BY <1>1, <1>5, WithoutIs
  <2> QED
    BY <1>4, <1>5, <2>1, <2>2
<1>7. EncKeys(c)[j] = {c, v[i].of}
  BY <1>2, <1>4, <1>6 DEF EncKeys
<1> QED
  BY <1>2, <1>3, <1>4, <1>7 DEF Own

LEMMA ValueWritten ==
    ASSUME TypeInv, MemberInv, VectorsInv, NEW c \in Callers, uuid[c] # NoUuid, pc[c] = "send",
           NEW to \in Nat, round[c] = 3 => to = peer[c] /\ to <= parties[c]
    PROVE  Written(c, to, round[c], ValueOf(c, to))
<1>1. CASE round[c] # 3
  BY <1>1 DEF Written, ValueOf
<1>2. CASE round[c] = 3
  <2>1. to \in 1 .. parties[c] \ {number[c]}
    BY <1>2, CountsAssumption DEF MemberInv, TypeInv
  <2>2. PICK e \in Callers :
           PartyAt(c, to, e) /\ EncKeys(c)[IF to < number[c] THEN to ELSE to - 1] = {c, e}
    <3>1. round[c] > 2
      BY <1>2
    <3> QED
      BY <2>1, <3>1, EncKeysAre, Zenon
  <2>3. ValueOf(c, to) = [key |-> {c, e}, plain |-> [of |-> c, at |-> to]]
    BY <1>2, <2>1, <2>2 DEF ValueOf, AeadPacks
  <2> QED
    BY <1>2, <2>1, <2>2, <2>3 DEF Written
<1> QED
  BY <1>1, <1>2

LEMMA WrittenType ==
    ASSUME TypeInv, NEW d \in Callers, NEW to, NEW r \in 1 .. 5, NEW v, Written(d, to, r, v)
    PROVE  v \in Value
<1>1. CASE r = 3
  <2>1. PICK e \in Callers : v = [key |-> {d, e}, plain |-> [of |-> d, at |-> to]]
    BY <1>1 DEF Written
  <2>2. to \in Nat
    BY <1>1, CountsAssumption DEF Written, TypeInv
  <2>3. [of |-> d, at |-> to] \in Share /\ {d, e} \in SUBSET Callers
    BY <2>2 DEF Share
  <2> QED
    BY <2>1, <2>3 DEF Value, AeadPack
<1>2. CASE r # 3
  <2>1. Kind[r] \in {"bc", "decom", "vss", "dlog_proof"}
    BY <1>2 DEF Kind
  <2> QED
    BY <1>2, <2>1 DEF Written, Own, Value, Made
<1> QED
  BY <1>1, <1>2

LEMMA StoreStep ==
    ASSUME TypeInv, VectorTypeInv, SignupInv, MemberInv, VectorsInv, StoreInv, [Next]_vars
    PROVE  StoreInv'
<1>1. \A k, v : Stored(k, v) => Stored(k, v)'
  <2> SUFFICES ASSUME NEW k, NEW v, NEW d \in Callers, NEW to \in Nat, NEW r \in 1 .. 5,
                      k = <<uuid[d], number[d], to, r>>, Wrote(d, to, r), Written(d, to, r, v)
               PROVE  k = <<uuid'[d], number'[d], to, r>> /\ Wrote(d, to, r)' /\ Written(d, to, r, v)'
    BY DEF Stored
  <2>1. uuid[d] # NoUuid
    BY DEF Wrote
  <2> QED
    BY <2>1, WroteStays, WrittenStays
<1>2. ASSUME NEW k \in DOMAIN store, k \in DOMAIN store', store'[k] = store[k]
      PROVE  Stored(k, store[k])'
  <2>1. PICK v : v = store[k]
    OBVIOUS
  <2>2. Stored(k, v)'
    BY <1>1, <2>1 DEF StoreInv
  <2> QED
    BY <1>2, <2>1, <2>2
<1>3. ASSUME UNCHANGED store PROVE StoreInv'
  BY <1>2, <1>3 DEF StoreInv
<1>4. ASSUME NEW c \in Callers, Proceed(c), Writes(c), OthersStay(c) PROVE StoreInv'
  <2>1. PICK to \in Nat :
          /\ pc[c] = "send"
          /\ Adds(<<uuid[c], number[c], to, round[c]>>)
          /\ store'[<<uuid[c], number[c], to, round[c]>>] = ValueOf(c, to)
          /\ round[c] = 3 => to = peer[c] /\ to <= parties[c]
          /\ \/ pc'[c] = "poll" /\ peer'[c] = Other(c, 1)
             \/ /\ round[c] = 3 /\ pc'[c] = "send"
                /\ peer'[c] = Other(c, peer[c] + 1) /\ peer'[c] > peer[c]
          /\ round' = round
    BY <1>4 DEF Writes
  <2>2. PICK k : k = <<uuid[c], number[c], to, round[c]>>
    OBVIOUS
  <2>3. PICK r \in 1 .. 5 : r = round[c]
    BY DEF TypeInv
  <2>10. PICK v : v = ValueOf(c, to)
    OBVIOUS
  <2>4. uuid'[c] = uuid[c] /\ number'[c] = number[c] /\ uuid[c] # NoUuid
    BY <1>4, <2>1 DEF OthersStay, SignupInv
  <2>5. Wrote(c, to, r)'
    BY <2>1, <2>3, <2>4 DEF Wrote, TypeInv
  <2>6. Written(c, to, r, v)'
    BY <2>1, <2>3, <2>4, <2>10, ValueWritten, WrittenStays
  <2>7. Stored(k, v)'
    BY <2>2, <2>3, <2>4, <2>5, <2>6 DEF Stored
  <2>8. store'[k] = v /\ DOMAIN store' = DOMAIN store \cup {k}
        /\ \A x \in DOMAIN store \ {k} : store'[x] = store[x]
    BY <2>1, <2>2, <2>10 DEF Adds
  <2>9. ASSUME NEW x \in DOMAIN store' PROVE Stored(x, store[x])'
    <3>1. CASE x = k
      BY <2>7, <2>8, <3>1
    <3>2. CASE x # k
      BY <1>2, <2>8, <3>2
    <3> QED
      BY <3>1, <3>2
  <2> QED
    BY <2>9 DEF StoreInv
<1>5. ASSUME NEW c \in Callers, Proceed(c) PROVE StoreInv'
  BY <1>3, <1>4, <1>5, Moves DEF Skips, Reads, Ends
<1>6. ASSUME NEW c \in Callers, SignUp(c) \/ Stop(c) PROVE StoreInv'
  BY <1>3, <1>6 DEF SignUp, ReadSignup, WriteSignup, Stop
<1>7. CASE Restart
  BY <1>7 DEF Restart, StoreInv
<1>8. CASE UNCHANGED vars
  BY <1>3, <1>8 DEF vars, exchangeVars
<1> QED
  BY <1>5, <1>6, <1>7, <1>8 DEF Next

LEMMA SentStays ==
    ASSUME TypeInv, VectorTypeInv, SignupInv, [Next]_vars,
           NEW c \in Callers, NEW d \in Callers, SameRun(c, d), NEW r \in 1 .. 5, HasSent(d, c, r)
    PROVE  HasSent(d, c, r)' /\ SameRun(c, d)' /\ number'[d] = number[d]
<1> USE DEF TypeInv
<1>1. uuid[c] # NoUuid /\ uuid[d] # NoUuid
  BY DEF SameRun
<1>2. number[c] \in Nat
  OBVIOUS
<1>3. ASSUME NEW e \in Callers, uuid[e] # NoUuid PROVE uuid'[e] = uuid[e] /\ number'[e] = number[e]
  BY <1>3, MembersStay
<1>4. SameRun(c, d)' /\ number'[c] = number[c] /\ number'[d] = number[d]
  BY <1>1, <1>3 DEF SameRun
<1>5. ASSUME NEW x \in Callers, Proceed(x) PROVE HasSent(d, c, r)'
  <2>1. OthersStay(x) /\ (Writes(x) \/ Skips(x) \/ Reads(x) \/ Ends(x))
    BY <1>5, Moves
  <2>2. CASE x # d
    <3>1. pc'[d] = pc[d] /\ peer'[d] = peer[d] /\ round'[d] = round[d]
      BY <2>1, <2>2 DEF OthersStay
    <3> QED
      BY <1>4, <3>1 DEF HasSent
  <2>3. CASE x = d /\ Writes(x)
    <3>1. /\ pc[d] = "send" /\ round'[d] = round[d]
          /\ pc'[d] = "poll" \/ (pc'[d] = "send" /\ peer'[d] \in Nat /\ peer'[d] > peer[d])
      BY <2>3 DEF Writes, Other
    <3> QED
      BY <1>2, <1>4, <3>1 DEF HasSent
  <2>4. CASE x = d /\ Reads(x)
    BY <1>4, <2>4 DEF Reads, HasSent
  <2>5. CASE x = d /\ Ends(x)
    <3>1. /\ round[d] \in 1 .. 5 /\ round'[d] \in 1 .. 5
          /\ \/ round'[d] = round[d] + 1
             \/ round'[d] = round[d] /\ pc'[d] \notin {"send", "stopped"}
      BY <2>5 DEF Ends
    <3> QED
      BY <1>4, <3>1 DEF HasSent
  <2>6. CASE x = d /\ Skips(x)
    BY <1>4, <2>6 DEF Skips, HasSent
  <2> QED
    BY <2>1, <2>2, <2>3, <2>4, <2>5, <2>6
<1>6. ASSUME NEW x \in Callers, SignUp(x) PROVE HasSent(d, c, r)'
  <2>1. x # d
    BY <1>1, <1>6 DEF SignUp, ReadSignup, WriteSignup, SignupInv
  <2>2. pc'[d] = pc[d] /\ peer'[d] = peer[d] /\ round'[d] = round[d]
    BY <1>6, <2>1 DEF SignUp, ReadSignup, WriteSignup
  <2> QED
    BY <1>4, <2>2 DEF HasSent
<1>7. ASSUME NEW x \in Callers, Stop(x) PROVE HasSent(d, c, r)'
  BY <1>4, <1>7 DEF Stop, HasSent
<1>8. CASE Restart
  BY <1>1, <1>4, <1>8 DEF Restart, HasSent, SignupInv
<1>9. CASE UNCHANGED vars
  BY <1>4, <1>9 DEF vars, exchangeVars, HasSent
<1> QED
  BY <1>4, <1>5, <1>6, <1>7, <1>8, <1>9 DEF Next

LEMMA HeardStays ==
    ASSUME TypeInv, VectorTypeInv, SignupInv, [Next]_vars,
           NEW c \in Callers, NEW n, NEW r \in 1 .. 5, Heard(c, n, r)
    PROVE  Heard(c, n, r)'
BY SentStays DEF Heard

(* A caller hears of a party in the value it reads from it. *)
LEMMA ReadIsHeard ==
    ASSUME TypeInv, VectorTypeInv, SignupInv, StoreInv, NEW c \in Callers, Reads(c)
    PROVE  Heard(c, peer[c], round[c])
<1> DEFINE to == IF round[c] = 3 THEN number[c] ELSE All
<1>1. uuid[c] # NoUuid
  BY DEF Reads, SignupInv
<1>2. PICK d \in Callers, t \in Nat, r \in 1 .. 5 :
        <<uuid[c], peer[c], to, round[c]>> = <<uuid[d], number[d], t, r>> /\ Wrote(d, t, r)
  BY DEF Reads, StoreInv, Stored
<1>3. SameRun(c, d) /\ number[d] = peer[c] /\ t = to /\ r = round[c]
  BY <1>1, <1>2 DEF SameRun
<1>4. HasSent(d, c, round[c])
  BY <1>2, <1>3 DEF Wrote, HasSent
<1> QED
  BY <1>3, <1>4 DEF Heard

LEMMA PollStep ==
    ASSUME TypeInv, VectorTypeInv, SignupInv, StoreInv, PollInv, [Next]_vars
    PROVE  PollInv'
<1> USE DEF TypeInv
<1> DEFINE Passed(c) == \A n \in 1 .. parties[c] : n < peer[c] /\ n # number[c] => Heard(c, n, round[c])
<1>1. ASSUME NEW c \in Callers, pc[c] = "poll",
             UNCHANGED <<parties, number[c], peer[c], round[c]>>
      PROVE  Passed(c)'
  <2>1. Passed(c)
    BY <1>1 DEF PollInv
  <2>2. \A n \in 1 .. parties[c] : Heard(c, n, round[c]) => Heard(c, n, round[c])'
    <3>1. PICK r \in 1 .. 5 : r = round[c]
      OBVIOUS
    <3>2. r = round'[c]
      BY <1>1, <3>1
    <3>3. \A n \in 1 .. parties[c] : Heard(c, n, r) => Heard(c, n, r)'
      BY HeardStays
    <3> QED
      BY <3>1, <3>2, <3>3 DEF Heard, HasSent
  <2> QED
    BY <1>1, <2>1, <2>2
<1>2. ASSUME NEW c \in Callers, Proceed(c), NEW d \in Callers, pc'[d] = "poll" PROVE Passed(d)'
  <2>1. OthersStay(c) /\ (Writes(c) \/ Skips(c) \/ Reads(c) \/ Ends(c))
    BY <1>2, Moves
  <2>2. CASE d # c
    BY <1>1, <1>2, <2>1, <2>2 DEF OthersStay
  <2>3. CASE d = c /\ Writes(c)
    <3>1. peer'[c] = Other(c, 1) /\ number' = number /\ parties' = parties
      BY <1>2, <2>1, <2>3 DEF Writes, OthersStay
    <3>2. \A n \in 1 .. parties[c] : ~(n < peer'[c] /\ n # number[c])
      BY <3>1 DEF Other
    <3> QED
      BY <2>3, <3>1, <3>2
  <2>4. CASE d = c /\ Reads(c)
    <3>1. PICK r \in 1 .. 5 : r = round[c]
      OBVIOUS
    <3>2. /\ peer'[c] = Other(c, peer[c] + 1) /\ number' = number /\ parties' = parties
          /\ round'[c] = r /\ pc[c] = "poll"
      BY <2>1, <2>4, <3>1 DEF Reads, OthersStay
    <3>3. \A n \in 1 .. parties[c] : n < peer'[c] /\ n # number[c] => n < peer[c] \/ n = peer[c]
      <4>1. parties[c] \in Nat /\ peer[c] \in Nat /\ number[c] \in Nat
        BY CountsAssumption
      <4> HIDE DEF TypeInv
      <4> QED
        BY <3>2, <4>1 DEF Other
    <3>4. \A n \in 1 .. parties[c] : n < peer'[c] /\ n # number[c] => Heard(c, n, r)
      BY <2>4, <3>1, <3>2, <3>3, ReadIsHeard DEF PollInv
    <3>5. \A n \in 1 .. parties[c] : n < peer'[c] /\ n # number[c] => Heard(c, n, r)'
      BY <3>4, HeardStays
    <3> QED
      BY <2>4, <3>2, <3>5 DEF Heard, HasSent
  <2>5. CASE d = c /\ Ends(c)
    BY <1>2, <2>5 DEF Ends
  <2>6. CASE d = c /\ Skips(c)
    <3>1. peer'[c] = Other(c, 1) /\ number' = number /\ parties' = parties
      BY <2>1, <2>6 DEF Skips, OthersStay
    <3>2. \A n \in 1 .. parties[c] : ~(n < peer'[c] /\ n # number[c])
      BY <3>1 DEF Other
    <3> QED
      BY <2>6, <3>1, <3>2
  <2> QED
    BY <2>1, <2>2, <2>3, <2>4, <2>5, <2>6
<1>3. ASSUME NEW c \in Callers, SignUp(c) \/ Stop(c), NEW d \in Callers, pc'[d] = "poll" PROVE Passed(d)'
  <2>1. d # c
    BY <1>3 DEF SignUp, ReadSignup, WriteSignup, Stop
  <2> QED
    BY <1>1, <1>3, <2>1 DEF SignUp, ReadSignup, WriteSignup, Stop
<1>4. ASSUME Restart, NEW d \in Callers, pc'[d] = "poll" PROVE Passed(d)'
  BY <1>1, <1>4 DEF Restart
<1>5. ASSUME UNCHANGED vars, NEW d \in Callers, pc'[d] = "poll" PROVE Passed(d)'
  BY <1>1, <1>5 DEF vars, exchangeVars
<1> QED
  BY <1>2, <1>3, <1>4, <1>5 DEF PollInv, Next

LEMMA CommitStep ==
    ASSUME TypeInv, VectorTypeInv, SignupInv, StoreInv, PollInv, CommitFirst, [Next]_vars
    PROVE  CommitFirst'
<1> USE DEF TypeInv
<1> DEFINE Behind(c) == \A n \in 1 .. parties[c] : Heard(c, n, round[c] - 1)
<1>1. CommitFirst <=> \A c \in Callers : round[c] > 1 => Behind(c)
  BY DEF CommitFirst, Heard
<1>2. ASSUME NEW c \in Callers, round[c] > 1, UNCHANGED <<parties, round[c]>> PROVE Behind(c)'
  <2>1. PICK r \in 1 .. 5 : r = round[c] - 1
    BY <1>2
  <2>2. \A n \in 1 .. parties[c] : Heard(c, n, r)
    BY <1>1, <1>2, <2>1
  <2>3. \A n \in 1 .. parties[c] : Heard(c, n, r)'
    BY <2>2, HeardStays
  <2> QED
    BY <1>2, <2>1, <2>3 DEF Heard, HasSent
<1>3. ASSUME NEW c \in Callers, Ends(c), OthersStay(c), round'[c] = round[c] + 1 PROVE Behind(c)'
  <2>1. PICK r \in 1 .. 5 : r = round[c] /\ round'[c] - 1 = r
    BY <1>3
  <2>2. pc[c] = "poll" /\ peer[c] > parties[c] /\ parties' = parties
    BY <1>3 DEF Ends, OthersStay
  <2>3. SameRun(c, c) /\ HasSent(c, c, r)
    BY <2>1, <2>2 DEF SignupInv, SameRun, HasSent
  <2>4. \A n \in 1 .. parties[c] : Heard(c, n, r)
    <3>1. parties[c] \in Nat
      BY CountsAssumption
    <3>2. \A n \in 1 .. parties[c] : n < peer[c]
      BY <2>2, <3>1
    <3> QED
      BY <2>1, <2>2, <2>3, <3>2 DEF PollInv, Heard
  <2>5. \A n \in 1 .. parties[c] : Heard(c, n, r)'
    BY <2>4, HeardStays
  <2>6. ASSUME NEW n \in 1 .. parties[c] PROVE Heard(c, n, round[c] - 1)'
    <3>1. PICK d \in Callers : SameRun(c, d)' /\ number'[d] = n /\ HasSent(d, c, r)'
      BY <2>5 DEF Heard
    <3>2. HasSent(d, c, round[c] - 1)'
      BY <2>1, <3>1 DEF HasSent
    <3> QED
      BY <3>1, <3>2 DEF Heard
  <2> QED
    BY <2>2, <2>6
<1>4. ASSUME NEW c \in Callers, Proceed(c), NEW d \in Callers, round'[d] > 1 PROVE Behind(d)'
  <2>1. OthersStay(c) /\ (Writes(c) \/ Skips(c) \/ Reads(c) \/ Ends(c))
    BY <1>4, Moves
  <2>2. parties' = parties
    BY <2>1 DEF OthersStay
  <2>3. CASE round'[d] = round[d]
    BY <1>2, <1>4, <2>2, <2>3
  <2>4. CASE round'[d] # round[d]
    <3>1. d = c
      BY <2>1, <2>4 DEF OthersStay
    <3>2. Ends(c) /\ round'[c] = round[c] + 1
      BY <2>1, <2>4, <3>1 DEF Writes, Skips, Reads, Ends
    <3> QED
      BY <1>3, <2>1, <3>1, <3>2
  <2> QED
    BY <2>3, <2>4
<1>5. ASSUME NEW c \in Callers, SignUp(c) \/ Stop(c), NEW d \in Callers, round'[d] > 1 PROVE Behind(d)'
  BY <1>2, <1>5 DEF SignUp, ReadSignup, WriteSignup, Stop
<1>6. ASSUME Restart \/ UNCHANGED vars, NEW d \in Callers, round'[d] > 1 PROVE Behind(d)'
  BY <1>2, <1>6 DEF Restart, vars, exchangeVars
<1>7. \A c \in Callers : round'[c] > 1 => Behind(c)'
  BY <1>4, <1>5, <1>6 DEF Next
<1> QED
  BY <1>7 DEF CommitFirst, Heard

-----------------------------------------------------------------------------
(* What is read. *)

LEMMA AnswerStays ==
    ASSUME TypeInv, VectorTypeInv, SignupInv, [Next]_vars,
           NEW c \in Callers, round'[c] = round[c], NEW n, NEW v, Answer(c, n, v)
    PROVE  Answer(c, n, v)'
<1>1. PICK r \in 1 .. 5 : r = round[c]
  BY DEF TypeInv
<1>2. PICK to : to = IF r = 3 THEN number[c] ELSE All
  OBVIOUS
<1>3. PICK d \in Callers : PartyAt(c, n, d) /\ Written(d, to, r, v)
  BY <1>1, <1>2 DEF Answer
<1>4. uuid[c] # NoUuid /\ uuid[d] # NoUuid
  BY <1>3 DEF PartyAt, SameRun
<1>5. PartyAt(c, n, d)' /\ Written(d, to, r, v)' /\ number'[c] = number[c]
  BY <1>3, <1>4, PartyStays, WrittenStays, MembersStay
<1> QED
  BY <1>1, <1>2, <1>5 DEF Answer

LEMMA ReadIsAnswer ==
    ASSUME TypeInv, SignupInv, StoreInv, NEW c \in Callers, Reads(c), NEW v,
           v = store[<<uuid[c], peer[c], IF round[c] = 3 THEN number[c] ELSE All, round[c]>>]
    PROVE  Answer(c, peer[c], v)
<1>1. PICK k : k = <<uuid[c], peer[c], IF round[c] = 3 THEN number[c] ELSE All, round[c]>>
  OBVIOUS
<1>2. k \in DOMAIN store /\ v = store[k] /\ uuid[c] # NoUuid
  BY <1>1 DEF Reads, SignupInv
<1>3. PICK d \in Callers, to \in Nat, r \in 1 .. 5 :
         k = <<uuid[d], number[d], to, r>> /\ Written(d, to, r, v)
  BY <1>2 DEF StoreInv, Stored
<1>4. /\ uuid[d] = uuid[c] /\ number[d] = peer[c] /\ r = round[c]
      /\ to = IF round[c] = 3 THEN number[c] ELSE All
  BY <1>1, <1>3
<1> QED
  BY <1>2, <1>3, <1>4 DEF Answer, PartyAt, SameRun

LEMMA AnswersStep ==
    ASSUME TypeInv, VectorTypeInv, SignupInv, MemberInv, StoreInv, AnswersInv, [Next]_vars
    PROVE  AnswersInv'
<1> SUFFICES ASSUME NEW c \in Callers
             PROVE  (/\ pc[c] \in {"signup", "write", "send"} => ans_vec[c] = <<>>
                     /\ pc[c] = "poll" =>
                          /\ peer[c] = Nth(c, Len(ans_vec[c]) + 1)
                          /\ Len(ans_vec[c]) < parties[c]
                          /\ \A j \in 1 .. Len(ans_vec[c]) : Answer(c, Nth(c, j), ans_vec[c][j]))'
  BY DEF AnswersInv
<1>1. /\ parties' = parties /\ parties[c] \in Nat /\ parties[c] >= 1
      /\ number[c] \in Nat /\ peer[c] \in Nat
  <2>1. parties[c] \in Nat \ {0}
    BY CountsAssumption DEF TypeInv
  <2> QED
    BY <2>1, PartiesStay DEF TypeInv
<1>2. CASE Same(c)
  <2>1. CASE pc[c] = "poll"
    <3>1. uuid[c] # NoUuid /\ number'[c] = number[c] /\ ans_vec'[c] = ans_vec[c]
      BY <1>2, <2>1 DEF Same, SignupInv
    <3>2. ASSUME NEW j \in 1 .. Len(ans_vec[c]) PROVE Answer(c, Nth(c, j), ans_vec[c][j])'
      <4>1. PICK n, v : n = Nth(c, j) /\ v = ans_vec[c][j]
        OBVIOUS
      <4>2. Answer(c, n, v)'
        BY <1>2, <2>1, <4>1, AnswerStays DEF Same, AnswersInv
      <4> QED
        BY <3>1, <4>1, <4>2 DEF Nth, Place
    <3> QED
      BY <1>1, <1>2, <2>1, <3>1, <3>2 DEF Same, AnswersInv, Nth
  <2> QED
    BY <1>2, <2>1 DEF Same, AnswersInv
<1>3. CASE OthersStay(c) /\ (Writes(c) \/ Skips(c))
  <2>1. /\ pc[c] = "send" /\ ans_vec'[c] = ans_vec[c] /\ number'[c] = number[c]
        /\ pc'[c] = "send" \/ (pc'[c] = "poll" /\ peer'[c] = Other(c, 1))
    BY <1>3 DEF OthersStay, Writes, Skips
  <2>2. ans_vec'[c] = <<>>
    BY <2>1 DEF AnswersInv
  <2>3. number[c] >= 1
    BY <2>1 DEF SignupInv, MemberInv
  <2>4. Other(c, 1) = Nth(c, 1)
    BY <1>1, <2>3 DEF Nth, Place, Other
  <2>5. Len(ans_vec'[c]) = 0 /\ Nth(c, 1)' = Nth(c, 1)
    BY <2>1, <2>2 DEF Nth, Place
  <2> QED
    BY <1>1, <2>1, <2>2, <2>4, <2>5
<1>4. CASE OthersStay(c) /\ Reads(c)
  <2> DEFINE l == Len(ans_vec[c])
  <2>1. PICK v : v = store[<<uuid[c], peer[c], IF round[c] = 3 THEN number[c] ELSE All, round[c]>>]
    OBVIOUS
  <2>2. /\ pc[c] = "poll" /\ pc'[c] = "poll" /\ peer[c] <= parties[c]
        /\ ans_vec'[c] = Append(ans_vec[c], v) /\ peer'[c] = Other(c, peer[c] + 1)
        /\ number'[c] = number[c] /\ round'[c] = round[c]
    BY <1>4, <2>1 DEF OthersStay, Reads
  <2>3. /\ peer[c] = Nth(c, l + 1) /\ l \in Nat /\ l < parties[c]
        /\ \A j \in 1 .. l : Answer(c, Nth(c, j), ans_vec[c][j])
    BY <2>2 DEF AnswersInv, VectorTypeInv
  <2>4. number[c] \in 1 .. parties[c]
    BY <2>2 DEF SignupInv, MemberInv
  <2>5. l + 1 < parties[c]
    BY <1>1, <2>2, <2>3, <2>4 DEF Nth, Place
  <2>6. peer'[c] = Nth(c, l + 2)
    BY <1>1, <2>2, <2>3 DEF Nth, Place, Other
  <2>7. /\ Len(ans_vec'[c]) = l + 1 /\ ans_vec'[c][l + 1] = v
        /\ \A j \in 1 .. l : ans_vec'[c][j] = ans_vec[c][j]
    BY <2>2 DEF VectorTypeInv
  <2>8. ASSUME NEW j \in 1 .. l + 1 PROVE Answer(c, Nth(c, j), ans_vec[c][j])'
    <3>1. PICK n, w : n = Nth(c, j) /\ w = ans_vec'[c][j]
      OBVIOUS
    <3>2. Answer(c, n, w)
      <4>1. CASE j = l + 1
        BY <1>4, <2>1, <2>3, <2>7, <3>1, <4>1, ReadIsAnswer
      <4>2. CASE j \in 1 .. l
        BY <2>3, <2>7, <3>1, <4>2
      <4> QED
        BY <2>3, <4>1, <4>2
    <3>3. Answer(c, n, w)'
      BY <2>2, <3>2, AnswerStays
    <3> QED
      BY <2>2, <3>1, <3>3 DEF Nth, Place
  <2> QED
    BY <1>1, <2>2, <2>3, <2>5, <2>6, <2>7, <2>8 DEF Nth, Place
<1>5. CASE OthersStay(c) /\ Ends(c)
  BY <1>5 DEF Ends
<1>6. CASE SignUp(c)
  <2>1. /\ pc[c] \in {"signup", "write"} /\ pc'[c] \in {"write", "send", "panicked"}
        /\ ans_vec' = ans_vec
    BY <1>6 DEF SignUp, ReadSignup, WriteSignup, TypeInv
  <2> QED
    BY <2>1 DEF AnswersInv
<1>7. CASE Stop(c) \/ Abandoned(c)
  BY <1>7 DEF Stop, Abandoned, TypeInv
<1> QED
  BY <1>2, <1>3, <1>4, <1>5, <1>6, <1>7, Frame

(* When all have answered, the caller's own value completes the vector. *)
LEMMA AllAnswered ==
    ASSUME TypeInv, VectorTypeInv, SignupInv, MemberInv, AnswersInv,
           NEW c \in Callers, pc[c] = "poll", peer[c] > parties[c]
    PROVE  /\ Len(ans_vec[c]) + 1 = parties[c] /\ Len(ans_vec[c]) \in Nat
           /\ number[c] \in 1 .. parties[c] /\ PartyAt(c, number[c], c)
           /\ \A j \in 1 .. Len(ans_vec[c]) : Answer(c, Nth(c, j), ans_vec[c][j])
<1>1. /\ number[c] \in 1 .. parties[c] /\ parties[c] \in Nat /\ PartyAt(c, number[c], c)
  BY CountsAssumption DEF SignupInv, MemberInv, TypeInv, PartyAt, SameRun
<1>2. /\ peer[c] = Nth(c, Len(ans_vec[c]) + 1) /\ Len(ans_vec[c]) < parties[c]
      /\ \A j \in 1 .. Len(ans_vec[c]) : Answer(c, Nth(c, j), ans_vec[c][j])
      /\ Len(ans_vec[c]) \in Nat
  BY DEF AnswersInv, VectorTypeInv
<1> QED
  BY <1>1, <1>2 DEF Nth, Place

LEMMA WithOwnAligned ==
    ASSUME TypeInv, VectorTypeInv, SignupInv, MemberInv, AnswersInv,
           NEW c \in Callers, pc[c] = "poll", peer[c] > parties[c], round[c] # 3,
           NEW kind, kind = Kind[round[c]], NEW w, w = WithOwn(c, Own(c, kind))
    PROVE  Aligned(c, w, kind)
<1>1. PICK ans, me, own : ans = ans_vec[c] /\ me = number[c] /\ own = Own(c, kind)
  OBVIOUS
<1>2. /\ Len(ans) + 1 = parties[c] /\ Len(ans) \in Nat
      /\ me \in 1 .. parties[c] /\ PartyAt(c, me, c)
      /\ \A j \in 1 .. Len(ans) : Answer(c, Nth(c, j), ans[j])
  BY <1>1, AllAnswered
<1>3. \A j \in 1 .. Len(ans) : \E d \in Callers : PartyAt(c, Nth(c, j), d) /\ ans[j] = Own(d, kind)
  BY <1>2 DEF Answer, Written
<1>4. ans \in Seq(Made({kind}))
  <2>1. \A j \in 1 .. Len(ans) : ans[j] \in Made({kind})
    BY <1>3, OwnType
  <2>2. ans \in Seq(Value)
    BY <1>1 DEF VectorTypeInv
  <2> QED
    BY <2>1, <2>2, SeqOf
<1>5. PICK S : S = Made({kind})
  OBVIOUS
<1>6. ans \in Seq(S) /\ me \in 1 .. Len(ans) + 1 /\ own \in S /\ w = FormatVec(ans, me, own)
  BY <1>1, <1>2, <1>4, <1>5, OwnType DEF WithOwn
<1>7. Inserted(S, ans, me, own, w)
  BY <1>6, FormatVecIs, Zenon
<1>8. ASSUME NEW n \in 1 .. parties[c]
      PROVE  \E d \in Callers : PartyAt(c, n, d) /\ w[n] = Own(d, kind)
  <2>1. CASE n = me
    BY <1>1, <1>2, <1>7, <2>1 DEF Inserted
  <2>2. CASE n # me
    <3>1. PICK j \in 1 .. Len(ans) : n = Place(me, j)
      <4>1. me \in 1 .. Len(ans) + 1 /\ n \in 1 .. Len(ans) + 1
        BY <1>2
      <4> QED
        BY <1>2, <2>2, <4>1, Places
    <3> QED
      BY <1>1, <1>3, <1>7, <3>1 DEF Inserted, Nth
  <2> QED
    BY <2>1, <2>2
<1> QED
  BY <1>2, <1>5, <1>7, <1>8 DEF Aligned, Inserted

LEMMA WithOwnShares ==
    ASSUME TypeInv, VectorTypeInv, SignupInv, MemberInv, AnswersInv,
           NEW c \in Callers, pc[c] = "poll", peer[c] > parties[c], round[c] = 3,
           NEW w, w = FormatVec([j \in 1 .. Len(ans_vec[c]) |-> ans_vec[c][j].plain],
                                number[c], [of |-> c, at |-> number[c]])
    PROVE  SharesAligned(c, w)
<1>1. PICK ans, me, own : ans = ans_vec[c] /\ me = number[c] /\ own = [of |-> c, at |-> me]
  OBVIOUS
<1>2. /\ Len(ans) + 1 = parties[c] /\ Len(ans) \in Nat /\ me \in Nat
      /\ me \in 1 .. parties[c] /\ PartyAt(c, me, c)
      /\ \A j \in 1 .. Len(ans) : Answer(c, Nth(c, j), ans[j])
  BY <1>1, AllAnswered
<1>3. PICK plains : plains = [j \in 1 .. Len(ans) |-> ans[j].plain]
  OBVIOUS
<1>4. ASSUME NEW j \in 1 .. Len(ans)
      PROVE  \E d \in Callers : /\ PartyAt(c, Nth(c, j), d) /\ me <= parties[d]
                                /\ plains[j] = [of |-> d, at |-> me]
  <2>1. PICK d \in Callers :
          PartyAt(c, Nth(c, j), d) /\ Written(d, me, 3, ans[j])
    BY <1>1, <1>2 DEF Answer
  <2>2. PICK e \in Callers : ans[j] = [key |-> {d, e}, plain |-> [of |-> d, at |-> me]]
    BY <2>1 DEF Written
  <2>3. ans[j].plain = [of |-> d, at |-> me] /\ me <= parties[d]
    BY <2>1, <2>2, CountsAssumption DEF Written, TypeInv
  <2> QED
    BY <1>3, <2>1, <2>3
<1>5. plains \in Seq(Share) /\ Len(plains) = Len(ans)
  <2>1. \A d \in Callers : [of |-> d, at |-> me] \in Share
    BY <1>2 DEF Share
  <2>3. \A j \in 1 .. Len(ans) : plains[j] \in Share
    BY <1>4, <2>1
  <2>2. plains \in [1 .. Len(ans) -> Share]
    BY <1>3, <2>3
  <2> QED
    BY <1>2, <2>2
<1>6. PICK S : S = Share
  OBVIOUS
<1>7. plains \in Seq(S) /\ me \in 1 .. Len(plains) + 1 /\ own \in S /\ w = FormatVec(plains, me, own)
  BY <1>1, <1>2, <1>3, <1>5, <1>6 DEF Share
<1>8. Inserted(S, plains, me, own, w)
  BY <1>7, FormatVecIs, Zenon
<1>9. ASSUME NEW n \in 1 .. parties[c]
      PROVE  \E d \in Callers :
               PartyAt(c, n, d) /\ me <= parties[d] /\ w[n] = [of |-> d, at |-> me]
  <2>1. CASE n = me
    <3>1. me <= parties[c] /\ w[n] = own
      BY <1>2, <1>8, <2>1, CountsAssumption DEF Inserted, TypeInv
    <3> QED
      BY <1>1, <1>2, <2>1, <3>1
  <2>2. CASE n # me
    <3>1. PICK j \in 1 .. Len(ans) : n = Place(me, j)
      <4>1. me \in 1 .. Len(ans) + 1 /\ n \in 1 .. Len(ans) + 1
        BY <1>2
      <4> QED
        BY <1>2, <2>2, <4>1, Places
    <3> QED
      BY <1>1, <1>4, <1>5, <1>8, <3>1 DEF Inserted, Nth
  <2> QED
    BY <2>1, <2>2
<1> QED
  BY <1>1, <1>2, <1>5, <1>6, <1>8, <1>9 DEF SharesAligned, Inserted

LEMMA SameOf ==
    ASSUME DistinctNumbers, NEW c \in Callers, NEW v, NEW w, NEW kind, NEW other,
           Aligned(c, v, kind), Aligned(c, w, other), NEW n \in 1 .. parties[c]
    PROVE  v[n].of = w[n].of
<1>1. PICK d \in Callers : PartyAt(c, n, d) /\ v[n] = Own(d, kind)
  BY DEF Aligned
<1>2. PICK e \in Callers : PartyAt(c, n, e) /\ w[n] = Own(e, other)
  BY DEF Aligned
<1>3. d = e
  BY <1>1, <1>2, OneParty
<1> QED
  BY <1>1, <1>2, <1>3 DEF Own

(* What the j-th other party encrypted for c opens with the key that c     *)
(* derived for this party.                                                 *)
LEMMA AllDecrypt ==
    ASSUME DistinctNumbers, TypeInv, VectorTypeInv, SignupInv, MemberInv, AnswersInv, VectorsInv,
           NEW c \in Callers, pc[c] = "poll", peer[c] > parties[c], round[c] = 3
    PROVE  Decrypts(c)
<1>1. PICK ans, me : ans = ans_vec[c] /\ me = number[c]
  OBVIOUS
<1>2. /\ Len(ans) + 1 = parties[c] /\ Len(ans) \in Nat /\ uuid[c] # NoUuid
      /\ me \in 1 .. parties[c] /\ PartyAt(c, me, c)
      /\ \A j \in 1 .. Len(ans) : Answer(c, Nth(c, j), ans[j])
  BY <1>1, AllAnswered DEF PartyAt, SameRun
<1>3. ASSUME NEW j \in 1 .. Len(ans) PROVE ans[j].key = EncKeys(c)[j]
  <2>1. PICK i : i = Nth(c, j)
    OBVIOUS
  <2>2. i \in 1 .. parties[c] \ {me} /\ j = IF i < me THEN i ELSE i - 1
    BY <1>1, <1>2, <2>1 DEF Nth, Place
  <2>3. PICK d \in Callers : PartyAt(c, i, d) /\ Written(d, me, 3, ans[j])
    BY <1>1, <1>2, <2>1 DEF Answer
  <2>4. PICK e \in Callers :
          PartyAt(d, me, e) /\ ans[j] = [key |-> {d, e}, plain |-> [of |-> d, at |-> me]]
    BY <2>3 DEF Written
  <2>5. e = c
    <3>1. PartyAt(d, me, c)
      BY <1>1, <2>3 DEF PartyAt, SameRun
    <3> QED
      BY <2>4, <3>1, OneParty
  <2>6. PICK f \in Callers : PartyAt(c, i, f) /\ EncKeys(c)[j] = {c, f}
    <3>1. uuid[c] # NoUuid /\ round[c] > 2 /\ i \in 1 .. parties[c] \ {number[c]}
      BY <1>1, <1>2, <2>2
    <3>2. \E f \in Callers :
             PartyAt(c, i, f) /\ EncKeys(c)[IF i < number[c] THEN i ELSE i - 1] = {c, f}
      BY <3>1, EncKeysAre, Zenon
    <3> QED
      BY <1>1, <2>2, <3>2
  <2>7. f = d
    BY <2>3, <2>6, OneParty
  <2> QED
    BY <2>4, <2>5, <2>6, <2>7
<1> QED
  BY <1>1, <1>3 DEF Decrypts

(* At the end of a round everything verifies, unless two have one number,  *)
(* and the vector that the round fills is complete.                        *)
LEMMA EndsWell ==
    ASSUME TypeInv, VectorTypeInv, SignupInv, MemberInv, AnswersInv, VectorsInv,
           NEW c \in Callers, Ends(c)
    PROVE  /\ DistinctNumbers => pc'[c] # "panicked"
           /\ \/ /\ round[c] = 1 /\ Aligned(c, bc1_vec'[c], "bc")
                 /\ bc1_vec' = [bc1_vec EXCEPT ![c] = bc1_vec'[c]]
                 /\ UNCHANGED <<decom_vec, party_shares, vss_scheme_vec, dlog_proof_vec>>
              \/ /\ round[c] = 2 /\ Aligned(c, decom_vec'[c], "decom")
                 /\ decom_vec' = [decom_vec EXCEPT ![c] = decom_vec'[c]]
                 /\ UNCHANGED <<bc1_vec, party_shares, vss_scheme_vec, dlog_proof_vec>>
              \/ /\ round[c] = 3 /\ SharesAligned(c, party_shares'[c])
                 /\ party_shares' = [party_shares EXCEPT ![c] = party_shares'[c]]
                 /\ UNCHANGED <<bc1_vec, decom_vec, vss_scheme_vec, dlog_proof_vec>>
              \/ /\ round[c] = 4 /\ Aligned(c, vss_scheme_vec'[c], "vss")
                 /\ vss_scheme_vec' = [vss_scheme_vec EXCEPT ![c] = vss_scheme_vec'[c]]
                 /\ UNCHANGED <<bc1_vec, decom_vec, party_shares, dlog_proof_vec>>
              \/ /\ round[c] = 5 /\ Aligned(c, dlog_proof_vec'[c], "dlog_proof")
                 /\ dlog_proof_vec' = [dlog_proof_vec EXCEPT ![c] = dlog_proof_vec'[c]]
                 /\ UNCHANGED <<bc1_vec, decom_vec, party_shares, vss_scheme_vec>>
<1>1. /\ pc[c] = "poll" /\ peer[c] > parties[c]
      /\ EndRound1(c) \/ EndRound2(c) \/ EndRound3(c) \/ EndRound4(c) \/ EndRound5(c)
  BY DEF Ends
<1>2. ASSUME EndRound(c, parties[c], 5, TRUE) PROVE pc'[c] # "panicked"
  BY <1>2 DEF EndRound, TypeInv
<1>3. ASSUME EndRound1(c)
      PROVE  /\ DistinctNumbers => pc'[c] # "panicked"
             /\ round[c] = 1 /\ Aligned(c, bc1_vec'[c], "bc")
             /\ bc1_vec' = [bc1_vec EXCEPT ![c] = bc1_vec'[c]]
             /\ UNCHANGED <<decom_vec, party_shares, vss_scheme_vec, dlog_proof_vec>>
  <2>1. PICK w : w = WithOwn(c, Own(c, "bc"))
    OBVIOUS
  <2>2. /\ round[c] = 1 /\ EndRound(c, parties[c], 5, TRUE)
        /\ bc1_vec' = [bc1_vec EXCEPT ![c] = w] /\ bc1_vec'[c] = w
        /\ UNCHANGED <<decom_vec, party_shares, vss_scheme_vec, dlog_proof_vec>>
    BY <1>3, <2>1 DEF EndRound1, VectorTypeInv
  <2>3. Aligned(c, w, "bc")
    <3>1. round[c] # 3 /\ "bc" = Kind[round[c]]
      BY <2>2 DEF Kind
    <3> QED
      BY <1>1, <2>1, <3>1, WithOwnAligned
  <2> QED
    BY <1>2, <2>2, <2>3
<1>4. ASSUME EndRound2(c)
      PROVE  /\ DistinctNumbers => pc'[c] # "panicked"
             /\ round[c] = 2 /\ Aligned(c, decom_vec'[c], "decom")
             /\ decom_vec' = [decom_vec EXCEPT ![c] = decom_vec'[c]]
             /\ UNCHANGED <<bc1_vec, party_shares, vss_scheme_vec, dlog_proof_vec>>
  <2>1. PICK w : w = WithOwn(c, Own(c, "decom"))
    OBVIOUS
  <2>2. PICK verified : verified = \A i \in 1 .. parties[c] : w[i].of = bc1_vec[c][i].of
    OBVIOUS
  <2>3. /\ round[c] = 2 /\ EndRound(c, parties[c], 5, verified)
        /\ decom_vec' = [decom_vec EXCEPT ![c] = w] /\ decom_vec'[c] = w
        /\ UNCHANGED <<bc1_vec, party_shares, vss_scheme_vec, dlog_proof_vec>>
    BY <1>4, <2>1, <2>2 DEF EndRound2, VectorTypeInv
  <2>4. Aligned(c, w, "decom") /\ Aligned(c, bc1_vec[c], "bc")
    <3>1. round[c] # 3 /\ "decom" = Kind[round[c]]
      BY <2>3 DEF Kind
    <3>2. Aligned(c, w, "decom")
      BY <1>1, <2>1, <3>1, WithOwnAligned
    <3> QED
      BY <2>3, <3>2 DEF VectorsInv
  <2>5. DistinctNumbers => verified
    BY <2>2, <2>4, SameOf
  <2> QED
    BY <1>2, <2>3, <2>4, <2>5
<1>5. ASSUME EndRound3(c)
      PROVE  /\ DistinctNumbers => pc'[c] # "panicked"
             /\ round[c] = 3 /\ SharesAligned(c, party_shares'[c])
             /\ party_shares' = [party_shares EXCEPT ![c] = party_shares'[c]]
             /\ UNCHANGED <<bc1_vec, decom_vec, vss_scheme_vec, dlog_proof_vec>>
  <2>1. PICK w : w = FormatVec([j \in 1 .. Len(ans_vec[c]) |-> ans_vec[c][j].plain],
                               number[c], [of |-> c, at |-> number[c]])
    OBVIOUS
  <2>2. /\ round[c] = 3 /\ EndRound(c, parties[c], 5, Decrypts(c))
        /\ party_shares' = [party_shares EXCEPT ![c] = w] /\ party_shares'[c] = w
        /\ UNCHANGED <<bc1_vec, decom_vec, vss_scheme_vec, dlog_proof_vec>>
    BY <1>5, <2>1 DEF EndRound3, VectorTypeInv
  <2>3. SharesAligned(c, w)
    BY <1>1, <2>1, <2>2, WithOwnShares
  <2>4. DistinctNumbers => Decrypts(c) = TRUE
    BY <1>1, <2>2, AllDecrypt DEF Decrypts
  <2> QED
    BY <1>2, <2>2, <2>3, <2>4
<1>6. ASSUME EndRound4(c)
      PROVE  /\ DistinctNumbers => pc'[c] # "panicked"
             /\ round[c] = 4 /\ Aligned(c, vss_scheme_vec'[c], "vss")
             /\ vss_scheme_vec' = [vss_scheme_vec EXCEPT ![c] = vss_scheme_vec'[c]]
             /\ UNCHANGED <<bc1_vec, decom_vec, party_shares, dlog_proof_vec>>
  <2>1. PICK w : w = WithOwn(c, Own(c, "vss"))
    OBVIOUS
  <2>2. PICK verified :
          verified = \A i \in 1 .. parties[c] :
                       /\ party_shares[c][i] = [of |-> decom_vec[c][i].of, at |-> number[c]]
                       /\ w[i].of = decom_vec[c][i].of
    OBVIOUS
  <2>3. /\ round[c] = 4 /\ EndRound(c, parties[c], 5, verified)
        /\ vss_scheme_vec' = [vss_scheme_vec EXCEPT ![c] = w] /\ vss_scheme_vec'[c] = w
        /\ UNCHANGED <<bc1_vec, decom_vec, party_shares, dlog_proof_vec>>
    BY <1>6, <2>1, <2>2 DEF EndRound4, VectorTypeInv
  <2>4. /\ Aligned(c, w, "vss") /\ Aligned(c, decom_vec[c], "decom")
        /\ SharesAligned(c, party_shares[c])
    <3>1. round[c] # 3 /\ "vss" = Kind[round[c]]
      BY <2>3 DEF Kind
    <3>2. Aligned(c, w, "vss")
      BY <1>1, <2>1, <3>1, WithOwnAligned
    <3> QED
      BY <2>3, <3>2 DEF VectorsInv
  <2>5. ASSUME DistinctNumbers, NEW i \in 1 .. parties[c]
        PROVE  party_shares[c][i] = [of |-> decom_vec[c][i].of, at |-> number[c]]
    <3>1. PICK d \in Callers : PartyAt(c, i, d) /\ party_shares[c][i] = [of |-> d, at |-> number[c]]
      BY <2>4 DEF SharesAligned
    <3>2. PICK e \in Callers : PartyAt(c, i, e) /\ decom_vec[c][i] = Own(e, "decom")
      BY <2>4 DEF Aligned
    <3>3. d = e /\ decom_vec[c][i].of = e
      BY <2>5, <3>1, <3>2, OneParty DEF Own
    <3> QED
      BY <3>1, <3>3
  <2>6. DistinctNumbers => verified
    BY <2>2, <2>4, <2>5, SameOf
  <2> QED
    BY <1>2, <2>3, <2>4, <2>6
<1>7. ASSUME EndRound5(c)
      PROVE  /\ DistinctNumbers => pc'[c] # "panicked"
             /\ round[c] = 5 /\ Aligned(c, dlog_proof_vec'[c], "dlog_proof")
             /\ dlog_proof_vec' = [dlog_proof_vec EXCEPT ![c] = dlog_proof_vec'[c]]
             /\ UNCHANGED <<bc1_vec, decom_vec, party_shares, vss_scheme_vec>>
  <2>1. PICK w : w = WithOwn(c, Own(c, "dlog_proof"))
    OBVIOUS
  <2>2. PICK verified : verified = \A i \in 1 .. parties[c] : w[i].of = decom_vec[c][i].of
    OBVIOUS
  <2>3. /\ round[c] = 5 /\ EndRound(c, parties[c], 5, verified)
        /\ dlog_proof_vec' = [dlog_proof_vec EXCEPT ![c] = w] /\ dlog_proof_vec'[c] = w
        /\ UNCHANGED <<bc1_vec, decom_vec, party_shares, vss_scheme_vec>>
    BY <1>7, <2>1, <2>2 DEF EndRound5, VectorTypeInv
  <2>4. Aligned(c, w, "dlog_proof") /\ Aligned(c, decom_vec[c], "decom")
    <3>1. round[c] # 3 /\ "dlog_proof" = Kind[round[c]]
      BY <2>3 DEF Kind
    <3>2. Aligned(c, w, "dlog_proof")
      BY <1>1, <2>1, <3>1, WithOwnAligned
    <3> QED
      BY <2>3, <3>2 DEF VectorsInv
  <2>5. DistinctNumbers => verified
    BY <2>2, <2>4, SameOf
  <2> QED
    BY <1>2, <2>3, <2>4, <2>5
<1> QED
  BY <1>1, <1>3, <1>4, <1>5, <1>6, <1>7

LEMMA AlignedStays ==
    ASSUME TypeInv, VectorTypeInv, SignupInv, [Next]_vars, NEW c \in Callers, NEW v
    PROVE  /\ \A kind : Aligned(c, v, kind) => Aligned(c, v, kind)'
           /\ SharesAligned(c, v) => SharesAligned(c, v)'
<1>1. parties' = parties
  BY PartiesStay
<1>2. ASSUME NEW n, NEW d \in Callers, PartyAt(c, n, d)
      PROVE  PartyAt(c, n, d)' /\ number'[c] = number[c]
  <2>1. uuid[c] # NoUuid
    BY <1>2 DEF PartyAt, SameRun
  <2> QED
    BY <1>2, <2>1, PartyStays, MembersStay
<1>3. ASSUME NEW kind, Aligned(c, v, kind) PROVE Aligned(c, v, kind)'
  BY <1>1, <1>2, <1>3 DEF Aligned
<1>4. ASSUME SharesAligned(c, v) PROVE SharesAligned(c, v)'
  <2>1. \A n \in 1 .. parties[c] : \E d \in Callers :
          PartyAt(c, n, d)' /\ number'[c] <= parties'[d] /\ v[n] = [of |-> d, at |-> number'[c]]
    BY <1>1, <1>2, <1>4 DEF SharesAligned
  <2> QED
    BY <1>1, <1>4, <2>1 DEF SharesAligned
<1> QED
  BY <1>3, <1>4

LEMMA VectorsStep ==
    ASSUME TypeInv, VectorTypeInv, SignupInv, MemberInv, AnswersInv, VectorsInv, [Next]_vars
    PROVE  VectorsInv'
<1> SUFFICES ASSUME NEW c \in Callers
             PROVE  /\ round'[c] > 1 => Aligned(c, bc1_vec[c], "bc")'
                    /\ round'[c] > 2 => Aligned(c, decom_vec[c], "decom")'
                    /\ round'[c] > 3 => SharesAligned(c, party_shares[c])'
                    /\ round'[c] > 4 => Aligned(c, vss_scheme_vec[c], "vss")'
  BY DEF VectorsInv
<1>1. PICK bc, decom, shares, vss :
         /\ bc = bc1_vec'[c] /\ decom = decom_vec'[c] /\ shares = party_shares'[c]
         /\ vss = vss_scheme_vec'[c]
  OBVIOUS
<1>2. SUFFICES /\ round'[c] > 1 => Aligned(c, bc, "bc")
               /\ round'[c] > 2 => Aligned(c, decom, "decom")
               /\ round'[c] > 3 => SharesAligned(c, shares)
               /\ round'[c] > 4 => Aligned(c, vss, "vss")
  <2> DEFINE Goal == /\ round'[c] > 1 => Aligned(c, bc, "bc")
                     /\ round'[c] > 2 => Aligned(c, decom, "decom")
                     /\ round'[c] > 3 => SharesAligned(c, shares)
                     /\ round'[c] > 4 => Aligned(c, vss, "vss")
  <2>1. /\ Aligned(c, bc, "bc") => Aligned(c, bc, "bc")'
        /\ Aligned(c, decom, "decom") => Aligned(c, decom, "decom")'
        /\ SharesAligned(c, shares) => SharesAligned(c, shares)'
        /\ Aligned(c, vss, "vss") => Aligned(c, vss, "vss")'
    BY AlignedStays
  <2>2. ASSUME Goal
        PROVE  /\ round'[c] > 1 => Aligned(c, bc, "bc")'
               /\ round'[c] > 2 => Aligned(c, decom, "decom")'
               /\ round'[c] > 3 => SharesAligned(c, shares)'
               /\ round'[c] > 4 => Aligned(c, vss, "vss")'
    BY <2>1, <2>2
  <2> QED
    BY <1>1, <2>2 DEF Aligned, SharesAligned
<1>3. ASSUME round'[c] = round[c], bc1_vec'[c] = bc1_vec[c], decom_vec'[c] = decom_vec[c],
             party_shares'[c] = party_shares[c], vss_scheme_vec'[c] = vss_scheme_vec[c]
      PROVE  /\ round'[c] > 1 => Aligned(c, bc, "bc")
             /\ round'[c] > 2 => Aligned(c, decom, "decom")
             /\ round'[c] > 3 => SharesAligned(c, shares)
             /\ round'[c] > 4 => Aligned(c, vss, "vss")
  BY <1>1, <1>3 DEF VectorsInv
<1>4. CASE Same(c)
  BY <1>3, <1>4 DEF Same
<1>5. CASE Writes(c) \/ Skips(c) \/ Reads(c)
  BY <1>3, <1>5 DEF Writes, Skips, Reads, vecs
<1>6. CASE (SignUp(c) \/ Stop(c) \/ Abandoned(c)) /\ UNCHANGED vecs
  BY <1>3, <1>6 DEF SignUp, ReadSignup, WriteSignup, Stop, Abandoned, Restart, vecs
<1>7. CASE Ends(c)
  <2>1. round'[c] \in {round[c], round[c] + 1} /\ round'[c] \in 1 .. 5 /\ round[c] \in 1 .. 5
    BY <1>7 DEF Ends, TypeInv
  <2>2. \/ round[c] = 1 /\ Aligned(c, bc, "bc")
        \/ round[c] = 2 /\ Aligned(c, decom, "decom") /\ bc = bc1_vec[c]
        \/ /\ round[c] = 3 /\ SharesAligned(c, shares)
           /\ bc = bc1_vec[c] /\ decom = decom_vec[c]
        \/ /\ round[c] = 4 /\ Aligned(c, vss, "vss")
           /\ bc = bc1_vec[c] /\ decom = decom_vec[c] /\ shares = party_shares[c]
        \/ /\ round[c] = 5 /\ bc = bc1_vec[c] /\ decom = decom_vec[c]
           /\ shares = party_shares[c] /\ vss = vss_scheme_vec[c]
    BY <1>1, <1>7, EndsWell
  <2> QED
    BY <2>1, <2>2 DEF VectorsInv
<1> QED
  BY <1>4, <1>5, <1>6, <1>7, Frame

LEMMA VectorTypeStep ==
    ASSUME TypeInv, VectorTypeInv, SignupInv, MemberInv, StoreInv, AnswersInv, VectorsInv,
           [Next]_vars
    PROVE  VectorTypeInv'
<1>1. ASSUME UNCHANGED <<ans_vec, vecs>> PROVE VectorTypeInv'
  BY <1>1 DEF VectorTypeInv, vecs
<1>2. ASSUME NEW c \in Callers, Proceed(c) PROVE VectorTypeInv'
  <2>1. OthersStay(c) /\ (Writes(c) \/ Skips(c) \/ Reads(c) \/ Ends(c))
    BY <1>2, Moves
  <2>2. ans_vec' = [ans_vec EXCEPT ![c] = ans_vec'[c]]
    BY <2>1 DEF OthersStay
  <2>3. ans_vec[c] \in Seq(Value)
    BY DEF VectorTypeInv
  <2>4. CASE Writes(c) \/ Skips(c)
    <3>1. ans_vec'[c] \in Seq(Value) /\ UNCHANGED vecs
      BY <2>3, <2>4 DEF Writes, Skips
    <3> QED
      BY <2>2, <3>1 DEF VectorTypeInv, vecs
  <2>5. CASE Reads(c)
    <3>1. PICK k \in DOMAIN store : ans_vec'[c] = Append(ans_vec[c], store[k]) /\ UNCHANGED vecs
      BY <2>5 DEF Reads
    <3>2. PICK v : v = store[k]
      OBVIOUS
    <3>3. v \in Value
      BY <3>2, WrittenType DEF StoreInv, Stored
    <3>4. ans_vec'[c] \in Seq(Value)
      BY <2>3, <3>1, <3>2, <3>3
    <3> QED
      BY <2>2, <3>1, <3>4 DEF VectorTypeInv, vecs
  <2>6. CASE Ends(c)
    <3>1. ans_vec' \in [Callers -> Seq(Value)]
      <4>1. ans_vec'[c] \in Seq(Value)
        BY <2>6 DEF Ends
      <4> QED
        BY <2>2, <4>1 DEF VectorTypeInv
    <3> QED
      BY <2>6, <3>1, EndsWell DEF VectorTypeInv, Aligned, SharesAligned
  <2> QED
    BY <2>1, <2>4, <2>5, <2>6
<1>3. ASSUME NEW c \in Callers, SignUp(c) \/ Stop(c), UNCHANGED vecs PROVE VectorTypeInv'
  BY <1>1, <1>3 DEF SignUp, ReadSignup, WriteSignup, Stop
<1>4. ASSUME Restart, UNCHANGED vecs PROVE VectorTypeInv'
  BY <1>1, <1>4 DEF Restart
<1>5. CASE UNCHANGED vars
  BY <1>1, <1>5 DEF vars, exchangeVars
<1> QED
  BY <1>2, <1>3, <1>4, <1>5 DEF Next

LEMMA VerifyStep ==
    ASSUME TypeInv, VectorTypeInv, SignupInv, MemberInv, AnswersInv, VectorsInv, ReadsVerify,
           [Next]_vars
    PROVE  ReadsVerify'
<1> SUFFICES ASSUME DistinctNumbers', NEW c \in Callers, pc'[c] = "panicked"
             PROVE  number'[c] = 0
  BY DEF ReadsVerify
<1> USE DistinctBefore
<1>1. CASE Same(c)
  BY <1>1 DEF Same, ReadsVerify
<1>2. CASE Writes(c) \/ Skips(c) \/ Reads(c)
  BY <1>2 DEF Writes, Skips, Reads
<1>3. CASE Ends(c)
  BY <1>3, EndsWell
<1>4. CASE SignUp(c) \/ Abandoned(c)
  <2>1. pc[c] \in {"signup", "write"} /\ number'[c] = number[c]
    BY <1>4 DEF SignUp, ReadSignup, WriteSignup, Abandoned, Restart, TypeInv
  <2> QED
    BY <2>1 DEF SignupInv, MemberInv
<1>5. CASE Stop(c)
  BY <1>5 DEF Stop, TypeInv
<1> QED
  BY <1>1, <1>2, <1>3, <1>4, <1>5, Frame

LEMMA DoneStep ==
    ASSUME TypeInv, VectorTypeInv, SignupInv, PollInv, DoneInv, [Next]_vars
    PROVE  DoneInv'
<1> SUFFICES ASSUME NEW c \in Callers, pc'[c] = "done"
             PROVE  round'[c] = 5 /\ \A n \in 1 .. parties[c] : Heard(c, n, 5)'
  BY PartiesStay DEF DoneInv
<1>1. SUFFICES round'[c] = 5 /\ \A n \in 1 .. parties[c] : Heard(c, n, 5)
  BY HeardStays
<1>2. CASE Same(c)
  BY <1>2 DEF Same, DoneInv
<1>3. CASE Writes(c) \/ Skips(c) \/ Reads(c)
  BY <1>3 DEF Writes, Skips, Reads
<1>4. CASE Ends(c)
  <2>1. pc[c] = "poll" /\ peer[c] > parties[c] /\ round'[c] = 5 /\ round[c] = 5
    BY <1>4 DEF Ends
  <2>2. SameRun(c, c) /\ HasSent(c, c, 5)
    BY <2>1 DEF SignupInv, SameRun, HasSent
  <2>3. \A n \in 1 .. parties[c] : n < peer[c]
    <3>1. parties[c] \in Nat /\ peer[c] \in Nat
      BY CountsAssumption DEF TypeInv
    <3> QED
      BY <2>1, <3>1
  <2> QED
    BY <2>1, <2>2, <2>3 DEF PollInv, Heard
<1>5. CASE SignUp(c) \/ Stop(c) \/ Abandoned(c)
  BY <1>5 DEF SignUp, ReadSignup, WriteSignup, Stop, Abandoned, TypeInv
<1> QED
  BY <1>2, <1>3, <1>4, <1>5, Frame

-----------------------------------------------------------------------------
LEMMA ExchangeInvariant == Spec => []ExchangeInv
<1>1. ExchangeInv /\ [Next]_vars => ExchangeInv'
  <2> SUFFICES ASSUME ExchangeInv, [Next]_vars PROVE ExchangeInv'
    OBVIOUS
  <2> USE DEF ExchangeInv
  <2>1. TypeInv' /\ VectorTypeInv' /\ SignupInv' /\ MemberInv' /\ StoreInv'
    BY TypeStep, VectorTypeStep, SignupStep, MemberStep, StoreStep
  <2>2. PollInv' /\ DoneInv' /\ CommitFirst' /\ AnswersInv' /\ VectorsInv' /\ ReadsVerify'
    BY PollStep, DoneStep, CommitStep, AnswersStep, VectorsStep, VerifyStep
  <2> QED
    BY <2>1, <2>2
<1> QED
  BY <1>1, InitInv, PTL DEF Spec

LEMMA Counted ==
    ASSUME TypeInv, MemberInv, NEW c \in Callers
    PROVE  /\ parties[c] \in Nat /\ parties[c] >= 1
           /\ number[c] \in Nat /\ number[c] <= parties[c]
<1>1. parties[c] \in Nat \ {0} /\ number[c] \in Nat
  BY CountsAssumption DEF TypeInv
<1>2. number[c] = 0 \/ number[c] \in 1 .. parties[c]
  BY DEF MemberInv
<1> QED
  BY <1>1, <1>2

(* All values and keys have their type, those that the map holds and those *)
(* that were read from it among them.                                      *)
THEOREM TypeCorrect == Spec => []TypeOK
<1>1. ExchangeInv => TypeOK
  <2> SUFFICES ASSUME ExchangeInv PROVE TypeOK
    OBVIOUS
  <2> USE DEF ExchangeInv
  <2>1. ASSUME NEW c \in Callers PROVE number[c] <= parties[c]
    BY Counted
  <2>2. ASSUME NEW k \in DOMAIN store
        PROVE  k \in Callers \X Nat \X Nat \X (1 .. 5) /\ store[k] \in Value
    <3>1. PICK v : v = store[k]
      OBVIOUS
    <3>2. PICK d \in Callers, to \in Nat, r \in 1 .. 5 :
            /\ k = <<uuid[d], number[d], to, r>>
            /\ Wrote(d, to, r) /\ Written(d, to, r, v)
      BY <3>1 DEF StoreInv, Stored
    <3>3. uuid[d] \in Callers /\ number[d] \in Nat
      BY <3>2 DEF Wrote, TypeInv
    <3>4. v \in Value
      BY <3>2, WrittenType
    <3> QED
      BY <3>1, <3>2, <3>3, <3>4
  <2> QED
    BY <2>1, <2>2 DEF TypeOK, ExchangeTypeOK, TypeInv, VectorTypeInv
<1> QED
  BY <1>1, ExchangeInvariant, PTL

(* No call panics on what it read: every opening, decryption, share and    *)
(* proof that it verifies is the one of the party at that place, unless    *)
(* two have one number.                                                    *)
THEOREM ReadsVerified == Spec => []ReadsVerify
BY ExchangeInvariant, PTL DEF ExchangeInv

(* Who has the shares of the others counts as many parties as they do: the *)
(* others have sent a share to each number up to their own count.          *)
LEMMA ShareFor ==
    ASSUME DistinctNumbers, TypeInv, SignupInv, MemberInv, VectorsInv,
           NEW e \in Callers, NEW f \in Callers, SameRun(e, f), round[e] > 3,
           number[f] <= parties[e]
    PROVE  number[e] <= parties[f]
<1>1. number[f] \in 1 .. parties[e] /\ PartyAt(e, number[f], f)
  BY CountsAssumption DEF MemberInv, TypeInv, SameRun, PartyAt
<1>2. PICK d \in Callers : PartyAt(e, number[f], d) /\ number[e] <= parties[d]
  BY <1>1 DEF VectorsInv, SharesAligned
<1> QED
  BY <1>1, <1>2, OneParty

LEMMA SameCount ==
    ASSUME DistinctNumbers, TypeInv, SignupInv, MemberInv, VectorsInv, CommitFirst, DoneInv,
           NEW c \in Callers, NEW d \in Callers, SameRun(c, d), pc[c] = "done", round[d] = 5
    PROVE  parties[d] = parties[c]
<1>1. /\ parties[c] \in Nat /\ parties[c] >= 1 /\ parties[d] \in Nat /\ parties[d] >= 1
      /\ number[c] \in 1 .. parties[c] /\ number[d] \in 1 .. parties[d]
  <2>1. parties[c] \in Nat \ {0} /\ parties[d] \in Nat \ {0}
    BY CountsAssumption DEF TypeInv
  <2> QED
    BY <2>1 DEF MemberInv, SameRun
<1>2. CASE parties[d] > parties[c]
  <2>1. PICK e \in Callers : SameRun(d, e) /\ number[e] = parties[d] /\ HasSent(e, d, 4)
    BY <1>1 DEF CommitFirst
  <2>2. SameRun(e, c) /\ round[e] > 3 /\ number[e] <= parties[e] /\ parties[e] \in Nat
    BY <2>1, Counted DEF HasSent, SameRun, TypeInv
  <2>3. number[c] <= parties[e]
    BY <1>1, <1>2, <2>1, <2>2
  <2>4. number[e] <= parties[c]
    BY <2>2, <2>3, ShareFor
  <2> QED
    BY <1>1, <1>2, <2>1, <2>4
<1>3. CASE parties[d] < parties[c]
  <2>1. PICK e \in Callers : SameRun(c, e) /\ number[e] = parties[c] /\ HasSent(e, c, 5)
    BY <1>1 DEF DoneInv, Heard
  <2>2. SameRun(e, d) /\ round[e] > 3 /\ number[e] <= parties[e] /\ parties[e] \in Nat
    BY <2>1, Counted DEF HasSent, SameRun, TypeInv
  <2>3. number[d] <= parties[e]
    BY <1>1, <1>3, <2>1, <2>2
  <2>4. number[e] <= parties[d]
    BY <2>2, <2>3, ShareFor
  <2> QED
    BY <1>1, <1>3, <2>1, <2>4
<1> QED
  BY <1>1, <1>2, <1>3

-----------------------------------------------------------------------------
(***************************************************************************)
(* Agreement, even of callers that got one number.  The caller that has    *)
(* number 1 has made the uuid, so there is one.  Who gets past round 3 has *)
(* decrypted what this caller encrypted for the party it counts at that    *)
(* number, so there is one of each number there.                           *)
(***************************************************************************)

(* Who has number 1 made the uuid. *)
FirstInv ==
    /\ entry # NoEntry => entry.number >= 1
    /\ \A c \in Callers :
         /\ pc[c] = "write" => candidate[c].number >= 1
         /\ pc[c] = "write" /\ candidate[c].number = 1 => candidate[c].uuid = c
         /\ number[c] = 1 => uuid[c] = c

LEMMA FirstStep ==
    ASSUME ExchangeInv, FirstInv, [Next]_vars
    PROVE  FirstInv'
<1> USE DEF ExchangeInv, TypeInv, FirstInv
<1>1. ASSUME NEW c \in Callers, Proceed(c) PROVE FirstInv'
  <2>1. OthersStay(c) /\ pc'[c] # "write"
    BY <1>1, Moves DEF Writes, Skips, Reads, Ends
  <2>2. /\ UNCHANGED <<number, uuid, entry, candidate>>
        /\ \A d \in Callers : d # c => pc'[d] = pc[d]
    BY <2>1 DEF OthersStay
  <2> QED
    BY <2>1, <2>2
<1>2. ASSUME NEW c \in Callers, ReadSignup(c) PROVE FirstInv'
  <2>1. UNCHANGED <<number, uuid, entry>>
    BY <1>2 DEF ReadSignup
  <2>2. \A d \in Callers : d # c => pc'[d] = pc[d] /\ candidate'[d] = candidate[d]
    BY <1>2 DEF ReadSignup
  <2>3. pc'[c] = "write" => /\ candidate'[c].number >= 1
                            /\ candidate'[c].number = 1 => candidate'[c].uuid = c
    <3>1. CASE candidate'[c] = [number |-> 1, uuid |-> c]
      BY <3>1
    <3>2. CASE entry # NoEntry /\ candidate'[c] = [entry EXCEPT !.number = @ + 1]
      <4>1. candidate'[c].number = entry.number + 1 /\ entry.number >= 1 /\ entry.number \in Nat
        BY <3>2
      <4> QED
        BY <4>1
    <3>3. pc'[c] = "write" => \/ candidate'[c] = [number |-> 1, uuid |-> c]
                              \/ entry # NoEntry /\ candidate'[c] = [entry EXCEPT !.number = @ + 1]
      BY <1>2 DEF ReadSignup
    <3> QED
      BY <3>1, <3>2, <3>3
  <2> HIDE DEF TypeInv, ExchangeInv
  <2> QED
    BY <2>1, <2>2, <2>3
<1>3. ASSUME NEW c \in Callers, WriteSignup(c) PROVE FirstInv'
  <2>1. /\ pc[c] = "write" /\ pc'[c] = "send" /\ entry' = candidate[c] /\ candidate' = candidate
        /\ number'[c] = candidate[c].number /\ uuid'[c] = candidate[c].uuid
        /\ \A d \in Callers : d # c => /\ pc'[d] = pc[d]
                                       /\ number'[d] = number[d] /\ uuid'[d] = uuid[d]
    BY <1>3 DEF WriteSignup
  <2> HIDE DEF TypeInv, ExchangeInv
  <2> QED
    BY <2>1
<1>4. ASSUME NEW c \in Callers, Stop(c) PROVE FirstInv'
  <2>1. /\ UNCHANGED <<number, uuid, entry, candidate>>
        /\ \A d \in Callers : pc'[d] = "write" => pc[d] = "write"
    BY <1>4 DEF Stop
  <2> QED
    BY <2>1
<1>5. CASE Restart
  <2>1. /\ UNCHANGED <<number, uuid, candidate>> /\ entry' = NoEntry
        /\ \A d \in Callers : pc'[d] = "write" => pc[d] = "write"
    BY <1>5 DEF Restart
  <2> QED
    BY <2>1
<1>6. CASE UNCHANGED vars
  BY <1>6 DEF vars, exchangeVars
<1> QED
  BY <1>1, <1>2, <1>3, <1>4, <1>5, <1>6 DEF Next, SignUp

(* What a caller has encrypted for a number is for the party that it       *)
(* counts there; what it writes in rounds 4 and 5 it writes when it has    *)
(* come so far.                                                            *)
Sealed(r, v) ==
    \E d \in Callers :
        /\ r = 3 => /\ round[d] >= 3 /\ v.plain.of = d /\ v.plain.at \in 1 .. parties[d]
                    /\ v.key = {d, decom_vec[d][v.plain.at].of}
        /\ r \in {4, 5} => v.of = d /\ round[d] >= r

SealedInv ==
    /\ \A k \in DOMAIN store : \A u, n, to, r : k = <<u, n, to, r>> => Sealed(r, store[k])
    /\ \A c \in Callers : pc[c] = "poll" =>
         \A j \in 1 .. Len(ans_vec[c]) : Sealed(round[c], ans_vec[c][j])

(* What is kept of a round stays when the round is over. *)
LEMMA KeptStays ==
    ASSUME ExchangeInv, [Next]_vars, NEW c \in Callers
    PROVE  /\ round'[c] >= round[c] /\ parties' = parties
           /\ round[c] > 1 => bc1_vec'[c] = bc1_vec[c] /\ number'[c] = number[c]
           /\ round[c] > 2 => decom_vec'[c] = decom_vec[c]
           /\ round[c] > 3 => party_shares'[c] = party_shares[c]
           /\ round[c] > 4 => vss_scheme_vec'[c] = vss_scheme_vec[c]
<1> USE DEF ExchangeInv
<1>1. parties' = parties /\ round[c] \in 1 .. 5
  BY PartiesStay DEF TypeInv
<1>2. round[c] > 1 => number'[c] = number[c]
  BY <1>1, MembersStay DEF MemberInv
<1>3. CASE Same(c)
  BY <1>1, <1>2, <1>3 DEF Same
<1>4. CASE (SignUp(c) \/ Stop(c) \/ Abandoned(c)) /\ UNCHANGED vecs
  <2>1. round' = round
    BY <1>4 DEF SignUp, ReadSignup, WriteSignup, Stop, Abandoned, Restart
  <2> QED
    BY <1>1, <1>2, <1>4, <2>1 DEF vecs
<1>5. CASE Writes(c) \/ Skips(c) \/ Reads(c)
  <2>1. round' = round /\ UNCHANGED vecs
    BY <1>5 DEF Writes, Skips, Reads
  <2> QED
    BY <1>1, <1>2, <2>1 DEF vecs
<1>6. CASE Ends(c)
  <2>1. round'[c] >= round[c]
    BY <1>1, <1>6 DEF Ends
  <2>2. \/ round[c] = 1
        \/ round[c] = 2 /\ UNCHANGED bc1_vec
        \/ round[c] = 3 /\ UNCHANGED <<bc1_vec, decom_vec>>
        \/ round[c] = 4 /\ UNCHANGED <<bc1_vec, decom_vec, party_shares>>
        \/ round[c] = 5 /\ UNCHANGED <<bc1_vec, decom_vec, party_shares, vss_scheme_vec>>
    BY <1>6, EndsWell
  <2> QED
    BY <1>1, <1>2, <2>1, <2>2
<1> QED
  BY <1>3, <1>4, <1>5, <1>6, Frame

LEMMA SealedStays ==
    ASSUME ExchangeInv, [Next]_vars, NEW r, NEW v, Sealed(r, v)
    PROVE  Sealed(r, v)'
<1>1. PICK d \in Callers :
        /\ r = 3 => /\ round[d] >= 3 /\ v.plain.of = d /\ v.plain.at \in 1 .. parties[d]
                    /\ v.key = {d, decom_vec[d][v.plain.at].of}
        /\ r \in {4, 5} => v.of = d /\ round[d] >= r
  BY DEF Sealed
<1>2. round[d] \in 1 .. 5 /\ round'[d] \in 1 .. 5
  BY TypeStep DEF TypeInv, ExchangeInv
<1>3. round'[d] >= round[d] /\ parties' = parties
  BY KeptStays
<1>4. ASSUME r = 3 PROVE round'[d] >= 3 /\ decom_vec'[d] = decom_vec[d]
  BY <1>1, <1>2, <1>3, <1>4, KeptStays
<1>5. ASSUME r \in {4, 5} PROVE round'[d] >= r
  BY <1>1, <1>2, <1>3, <1>5
<1> QED
  BY <1>1, <1>3, <1>4, <1>5 DEF Sealed

LEMMA SealedStep ==
    ASSUME ExchangeInv, SealedInv, [Next]_vars
    PROVE  SealedInv'
<1> USE DEF ExchangeInv
<1>1. ASSUME NEW k \in DOMAIN store', NEW u, NEW n, NEW to, NEW r, k = <<u, n, to, r>>
      PROVE  Sealed(r, store[k])'
  <2>1. ASSUME k \in DOMAIN store, store'[k] = store[k] PROVE Sealed(r, store[k])'
    <3>1. PICK v : v = store[k]
      OBVIOUS
    <3>2. Sealed(r, v)
      BY <1>1, <2>1, <3>1 DEF SealedInv
    <3>3. Sealed(r, v)'
      BY <3>2, SealedStays
    <3> QED
      BY <2>1, <3>1, <3>3 DEF Sealed
  <2>2. ASSUME NEW c \in Callers, Proceed(c) PROVE Sealed(r, store[k])'
    <3>1. OthersStay(c) /\ (Writes(c) \/ Skips(c) \/ Reads(c) \/ Ends(c))
      BY <2>2, Moves
    <3>2. CASE Writes(c)
      <4>1. PICK i \in Nat :
              /\ pc[c] = "send"
              /\ Adds(<<uuid[c], number[c], i, round[c]>>)
              /\ store'[<<uuid[c], number[c], i, round[c]>>] = ValueOf(c, i)
              /\ round[c] = 3 => i = peer[c] /\ i <= parties[c]
              /\ UNCHANGED <<round, vecs>>
        BY <3>2 DEF Writes
      <4>2. CASE k = <<uuid[c], number[c], i, round[c]>>
        <5>1. r = round[c] /\ store'[k] = ValueOf(c, i) /\ round' = round
          BY <1>1, <4>1, <4>2
        <5>2. CASE r = 3
          <6>1. i \in 1 .. parties[c] \ {number[c]} /\ uuid[c] # NoUuid
            BY <4>1, <5>1, <5>2, CountsAssumption DEF MemberInv, SignupInv, TypeInv
          <6>2. store'[k] = AeadPacks(c)[i]
            BY <5>1, <5>2 DEF ValueOf
          <6>3. EncKeys(c)[IF i < number[c] THEN i ELSE i - 1] = {c, decom_vec[c][i].of}
            <7>1. round[c] > 2
              BY <5>1, <5>2
            <7> QED
              BY <6>1, <7>1, EncKeysAre, Zenon
          <6>4. /\ store'[k].plain.of = c /\ store'[k].plain.at = i
                /\ store'[k].key = {c, decom_vec[c][i].of}
            BY <6>1, <6>2, <6>3 DEF AeadPacks
          <6>5. i \in 1 .. parties'[c] /\ decom_vec' = decom_vec /\ round'[c] >= 3
            BY <4>1, <5>1, <5>2, <6>1, PartiesStay DEF vecs
          <6>6. /\ round'[c] >= 3 /\ store'[k].plain.of = c
                /\ store'[k].plain.at \in 1 .. parties'[c]
                /\ store'[k].key = {c, decom_vec'[c][store'[k].plain.at].of}
            BY <6>4, <6>5
          <6> QED
            BY <5>2, <6>6 DEF Sealed
        <5>3. CASE r # 3
          <6>1. store'[k].of = c
            BY <5>1, <5>3 DEF ValueOf, Own
          <6>2. round'[c] \in 1 .. 5
            BY <5>1 DEF TypeInv
          <6> QED
            BY <5>1, <5>3, <6>1, <6>2 DEF Sealed
        <5> QED
          BY <5>2, <5>3
      <4>3. CASE k # <<uuid[c], number[c], i, round[c]>>
        BY <2>1, <4>1, <4>3 DEF Adds
      <4> QED
        BY <4>2, <4>3
    <3> QED
      BY <2>1, <3>1, <3>2 DEF Skips, Reads, Ends
  <2>3. CASE UNCHANGED store
    BY <2>1, <2>3
  <2>4. CASE Restart
    BY <2>4 DEF Restart
  <2> QED
    BY <2>2, <2>3, <2>4 DEF Next, SignUp, ReadSignup, WriteSignup, Stop, vars, exchangeVars
<1>2. ASSUME NEW c \in Callers, pc'[c] = "poll", NEW j \in 1 .. Len(ans_vec'[c])
      PROVE  Sealed(round[c], ans_vec[c][j])'
  <2>1. ASSUME NEW r, NEW v, r = round'[c], v = ans_vec'[c][j], Sealed(r, v)
        PROVE  Sealed(round[c], ans_vec[c][j])'
    <3>1. Sealed(r, v)'
      BY <2>1, SealedStays
    <3> QED
      BY <2>1, <3>1 DEF Sealed
  <2>2. PICK r, v : r = round'[c] /\ v = ans_vec'[c][j]
    OBVIOUS
  <2>3. CASE Same(c)
    <3>1. Sealed(r, v)
      BY <1>2, <2>2, <2>3 DEF SealedInv, Same
    <3> QED
      BY <2>1, <2>2, <3>1
  <2>4. CASE Writes(c) \/ Skips(c)
    <3>1. ans_vec'[c] = <<>>
      BY <2>4 DEF AnswersInv, Writes, Skips
    <3> QED
      BY <1>2, <3>1
  <2>5. CASE Reads(c)
    <3>1. PICK k, w : /\ k = <<uuid[c], peer[c], IF r = 3 THEN number[c] ELSE All, r>>
                      /\ w = store[k]
      OBVIOUS
    <3>2. /\ pc[c] = "poll" /\ r = round[c] /\ k \in DOMAIN store
          /\ ans_vec'[c] = Append(ans_vec[c], w)
      BY <2>2, <2>5, <3>1 DEF Reads
    <3>3. Sealed(r, w)
      BY <3>1, <3>2 DEF SealedInv
    <3>4. ans_vec[c] \in Seq(Value)
      BY DEF VectorTypeInv
    <3>5. v = w \/ (j \in 1 .. Len(ans_vec[c]) /\ v = ans_vec[c][j])
      BY <1>2, <2>2, <3>2, <3>4
    <3>6. Sealed(r, v)
      BY <3>2, <3>3, <3>5 DEF SealedInv
    <3> QED
      BY <2>1, <2>2, <3>6
  <2>6. CASE Ends(c)
    BY <1>2, <2>6 DEF Ends
  <2>7. CASE SignUp(c) \/ Stop(c) \/ Abandoned(c)
    BY <1>2, <2>7 DEF SignUp, ReadSignup, WriteSignup, Stop, Abandoned, Restart, TypeInv
  <2> QED
    BY <2>3, <2>4, <2>5, <2>6, <2>7, Frame
<1> QED
  BY <1>1, <1>2 DEF SealedInv

(* The party with number 1 counts c at the number of c.                    *)
FirstCounts(c) ==
    \E h \in Callers :
        /\ PartyAt(c, 1, h) /\ round[h] >= 3
        /\ number[c] \in 1 .. parties[h] /\ decom_vec[h][number[c]].of = c

(* What a caller has verified at the end of the rounds 2 to 5: its vectors *)
(* have, at each number, values of one party, which has come as far.       *)
VerifiedInv ==
    \A c \in Callers :
        /\ round[c] > 3 /\ number[c] # 1 => FirstCounts(c)
        /\ \A n \in 1 .. parties[c] :
             /\ round[c] > 2 => decom_vec[c][n].of = bc1_vec[c][n].of
             /\ round[c] > 4 => \E d \in Callers :
                  /\ decom_vec[c][n].of = d /\ round[d] >= 4
                  /\ party_shares[c][n].of = d /\ vss_scheme_vec[c][n].of = d
             /\ pc[c] = "done" => \E d \in Callers : decom_vec[c][n].of = d /\ round[d] >= 5

(* What a caller puts together in round 4 or 5 is of parties that have     *)
(* come as far.                                                            *)
LEMMA WithOwnSealed ==
    ASSUME ExchangeInv, SealedInv, NEW c \in Callers, pc[c] = "poll", peer[c] > parties[c],
           round[c] \in {4, 5}, NEW kind, NEW w, w = WithOwn(c, Own(c, kind)),
           NEW n \in 1 .. parties[c]
    PROVE  \E d \in Callers : w[n].of = d /\ round[d] >= round[c]
<1> USE DEF ExchangeInv
<1>1. PICK ans, me, own, S :
        ans = ans_vec[c] /\ me = number[c] /\ own = Own(c, kind) /\ S = Value \cup {own}
  OBVIOUS
<1>2. /\ Len(ans) + 1 = parties[c] /\ Len(ans) \in Nat /\ me \in 1 .. parties[c]
      /\ ans \in Seq(Value)
  BY <1>1, AllAnswered DEF VectorTypeInv
<1>3. ans \in Seq(S) /\ me \in 1 .. Len(ans) + 1 /\ own \in S /\ w = FormatVec(ans, me, own)
  BY <1>1, <1>2 DEF WithOwn
<1>4. Inserted(S, ans, me, own, w)
  BY <1>3, FormatVecIs, Zenon
<1>5. CASE n = me
  BY <1>1, <1>4, <1>5 DEF Inserted, Own, TypeInv
<1>6. CASE n # me
  <2>1. PICK j \in 1 .. Len(ans) : n = Place(me, j)
    <3>1. me \in 1 .. Len(ans) + 1 /\ n \in 1 .. Len(ans) + 1
      BY <1>2
    <3> QED
      BY <1>2, <1>6, <3>1, Places
  <2>2. w[n] = ans[j]
    BY <1>4, <2>1 DEF Inserted
  <2>3. Sealed(round[c], ans[j])
    BY <1>1 DEF SealedInv
  <2> QED
    BY <2>2, <2>3 DEF Sealed
<1> QED
  BY <1>5, <1>6

(* Who decrypts what the party with number 1 has encrypted for it is       *)
(* counted by this party.                                                  *)
LEMMA DecryptsFirst ==
    ASSUME ExchangeInv, SealedInv, FirstInv, NEW c \in Callers, pc[c] = "poll",
           peer[c] > parties[c], round[c] = 3, number[c] # 1, Decrypts(c)
    PROVE  FirstCounts(c)
<1> USE DEF ExchangeInv
<1>1. PICK ans, me : ans = ans_vec[c] /\ me = number[c]
  OBVIOUS
<1>2. /\ Len(ans) + 1 = parties[c] /\ Len(ans) \in Nat /\ uuid[c] # NoUuid
      /\ me \in 1 .. parties[c] /\ PartyAt(c, me, c)
      /\ \A j \in 1 .. Len(ans) : Answer(c, Nth(c, j), ans[j])
  BY <1>1, AllAnswered DEF PartyAt, SameRun
<1>3. 1 \in 1 .. Len(ans) /\ Nth(c, 1) = 1 /\ 1 < me /\ 1 \in 1 .. parties[c] \ {number[c]}
  BY <1>1, <1>2 DEF Nth, Place
<1>4. PICK v : v = ans[1]
  OBVIOUS
<1>5. PICK h \in Callers : PartyAt(c, 1, h) /\ Written(h, me, 3, v)
  BY <1>1, <1>2, <1>3, <1>4 DEF Answer
<1>6. v.plain.of = h /\ v.plain.at = me
  BY <1>5 DEF Written
<1>7. PICK d \in Callers :
        /\ round[d] >= 3 /\ v.plain.of = d /\ v.plain.at \in 1 .. parties[d]
        /\ v.key = {d, decom_vec[d][v.plain.at].of}
  BY <1>1, <1>3, <1>4 DEF SealedInv, Sealed
<1>8. round[h] >= 3 /\ me \in 1 .. parties[h] /\ v.key = {h, decom_vec[h][me].of}
  BY <1>6, <1>7
<1>9. PICK f \in Callers : PartyAt(c, 1, f) /\ EncKeys(c)[1] = {c, f}
  <2>1. round[c] > 2
    OBVIOUS
  <2>2. \E f \in Callers :
           PartyAt(c, 1, f) /\ EncKeys(c)[IF 1 < number[c] THEN 1 ELSE 1 - 1] = {c, f}
    BY <1>2, <1>3, <2>1, EncKeysAre, Zenon
  <2> QED
    BY <1>1, <1>3, <2>2
<1>10. f = h
  BY <1>5, <1>9 DEF PartyAt, SameRun, FirstInv
<1>11. v.key = {c, h}
  BY <1>1, <1>3, <1>4, <1>9, <1>10 DEF Decrypts
<1>12. c # h
  BY <1>5 DEF PartyAt
<1>13. decom_vec[h][me].of = c
  BY <1>8, <1>11, <1>12
<1> QED
  BY <1>1, <1>5, <1>8, <1>13 DEF FirstCounts

(* What has been verified when a caller goes on from a round. *)
LEMMA GoesOn ==
    ASSUME ExchangeInv, SealedInv, FirstInv, NEW c \in Callers, Ends(c), pc'[c] # "panicked"
    PROVE  /\ round[c] = 3 /\ number[c] # 1 => FirstCounts(c)
           /\ \A n \in 1 .. parties[c] :
                /\ round[c] = 2 => decom_vec'[c][n].of = bc1_vec[c][n].of
                /\ round[c] = 4 => \E d \in Callers :
                     /\ decom_vec[c][n].of = d /\ round[d] >= 4
                     /\ party_shares[c][n].of = d /\ vss_scheme_vec'[c][n].of = d
                /\ round[c] = 5 => \E d \in Callers : decom_vec[c][n].of = d /\ round[d] >= 5
<1> USE DEF ExchangeInv
<1>1. /\ pc[c] = "poll" /\ peer[c] > parties[c] /\ round[c] \in 1 .. 5
      /\ EndRound1(c) \/ EndRound2(c) \/ EndRound3(c) \/ EndRound4(c) \/ EndRound5(c)
  BY DEF Ends, TypeInv
<1>2. ASSUME NEW verified, EndRound(c, parties[c], 5, verified) PROVE verified
  BY <1>2 DEF EndRound, TypeInv
<1>3. ASSUME round[c] = 2, NEW n \in 1 .. parties[c]
      PROVE  decom_vec'[c][n].of = bc1_vec[c][n].of
  <2>1. PICK decoms, verified :
          /\ decoms = WithOwn(c, Own(c, "decom"))
          /\ verified = \A i \in 1 .. parties[c] : decoms[i].of = bc1_vec[c][i].of
    OBVIOUS
  <2>2. EndRound2(c)
    BY <1>1, <1>3 DEF EndRound1, EndRound3, EndRound4, EndRound5
  <2>3. EndRound(c, parties[c], 5, verified) /\ decom_vec'[c] = decoms
    BY <2>1, <2>2 DEF EndRound2, VectorTypeInv
  <2>4. verified
    BY <1>2, <2>3
  <2> QED
    BY <2>1, <2>3, <2>4
<1>4. ASSUME round[c] = 3, number[c] # 1 PROVE FirstCounts(c)
  <2>1. EndRound3(c)
    BY <1>1, <1>4 DEF EndRound1, EndRound2, EndRound4, EndRound5
  <2>2. PICK verified : verified = Decrypts(c)
    OBVIOUS
  <2>3. EndRound(c, parties[c], 5, verified)
    BY <2>1, <2>2 DEF EndRound3
  <2>4. Decrypts(c)
    BY <1>2, <2>2, <2>3
  <2> QED
    BY <1>1, <1>4, <2>4, DecryptsFirst
<1>5. ASSUME round[c] = 4, NEW n \in 1 .. parties[c]
      PROVE  \E d \in Callers :
               /\ decom_vec[c][n].of = d /\ round[d] >= 4
               /\ party_shares[c][n].of = d /\ vss_scheme_vec'[c][n].of = d
  <2>1. PICK schemes, verified :
          /\ schemes = WithOwn(c, Own(c, "vss"))
          /\ verified = \A i \in 1 .. parties[c] :
                          /\ party_shares[c][i] = [of |-> decom_vec[c][i].of, at |-> number[c]]
                          /\ schemes[i].of = decom_vec[c][i].of
    OBVIOUS
  <2>2. EndRound4(c)
    BY <1>1, <1>5 DEF EndRound1, EndRound2, EndRound3, EndRound5
  <2>3. EndRound(c, parties[c], 5, verified) /\ vss_scheme_vec'[c] = schemes
    BY <2>1, <2>2 DEF EndRound4, VectorTypeInv
  <2>4. verified
    BY <1>2, <2>3
  <2>5. PICK d \in Callers : schemes[n].of = d /\ round[d] >= 4
    BY <1>1, <1>5, <2>1, WithOwnSealed
  <2>6. schemes[n].of = decom_vec[c][n].of /\ party_shares[c][n].of = decom_vec[c][n].of
    <3>1. PICK x, y : x = decom_vec[c][n].of /\ y = party_shares[c][n]
      OBVIOUS
    <3>2. schemes[n].of = x /\ y = [of |-> x, at |-> number[c]]
      BY <2>1, <2>4, <3>1
    <3>3. y.of = x
      BY <3>2
    <3> QED
      BY <3>1, <3>2, <3>3
  <2> QED
    BY <2>3, <2>5, <2>6
<1>6. ASSUME round[c] = 5, NEW n \in 1 .. parties[c]
      PROVE  \E d \in Callers : decom_vec[c][n].of = d /\ round[d] >= 5
  <2>1. PICK proofs, verified :
          /\ proofs = WithOwn(c, Own(c, "dlog_proof"))
          /\ verified = \A i \in 1 .. parties[c] : proofs[i].of = decom_vec[c][i].of
    OBVIOUS
  <2>2. EndRound5(c)
    BY <1>1, <1>6 DEF EndRound1, EndRound2, EndRound3, EndRound4
  <2>3. EndRound(c, parties[c], 5, verified)
    BY <2>1, <2>2 DEF EndRound5
  <2>4. verified
    BY <1>2, <2>3
  <2>5. \E d \in Callers : proofs[n].of = d /\ round[d] >= 5
    BY <1>1, <1>6, <2>1, WithOwnSealed
  <2> QED
    BY <2>1, <2>4, <2>5
<1> QED
  BY <1>3, <1>4, <1>5, <1>6

LEMMA FirstCountsStays ==
    ASSUME ExchangeInv, [Next]_vars, NEW c \in Callers, FirstCounts(c)
    PROVE  FirstCounts(c)'
<1> USE DEF ExchangeInv
<1>1. PICK h \in Callers :
        /\ PartyAt(c, 1, h) /\ round[h] >= 3
        /\ number[c] \in 1 .. parties[h] /\ decom_vec[h][number[c]].of = c
  BY DEF FirstCounts
<1>2. round[h] \in 1 .. 5 /\ round'[h] \in 1 .. 5 /\ uuid[c] # NoUuid
  BY <1>1, TypeStep DEF TypeInv, PartyAt, SameRun
<1>3. PartyAt(c, 1, h)' /\ number'[c] = number[c]
  BY <1>1, <1>2, PartyStays, MembersStay
<1>4. round'[h] >= 3 /\ parties' = parties /\ decom_vec'[h] = decom_vec[h]
  BY <1>1, <1>2, KeptStays
<1> QED
  BY <1>1, <1>3, <1>4 DEF FirstCounts

LEMMA VerifiedStep ==
    ASSUME ExchangeInv, SealedInv, FirstInv, VerifiedInv, [Next]_vars
    PROVE  VerifiedInv'
<1> USE DEF ExchangeInv
<1> SUFFICES ASSUME NEW c \in Callers
             PROVE  /\ round'[c] > 3 /\ number'[c] # 1 => FirstCounts(c)'
                    /\ \A n \in 1 .. parties'[c] :
                         /\ round'[c] > 2 => decom_vec'[c][n].of = bc1_vec'[c][n].of
                         /\ round'[c] > 4 => \E d \in Callers :
                              /\ decom_vec'[c][n].of = d /\ round'[d] >= 4
                              /\ party_shares'[c][n].of = d /\ vss_scheme_vec'[c][n].of = d
                         /\ pc'[c] = "done" => \E d \in Callers :
                              decom_vec'[c][n].of = d /\ round'[d] >= 5
  BY DEF VerifiedInv
<1>1. /\ round[c] \in 1 .. 5 /\ parties' = parties
      /\ \A d \in Callers : round[d] \in 1 .. 5 /\ round'[d] \in 1 .. 5 /\ round'[d] >= round[d]
  BY TypeStep, KeptStays DEF TypeInv
<1>2. \/ round'[c] = round[c] /\ (pc'[c] = "done" => pc[c] = "done")
      \/ Ends(c) /\ pc'[c] # "panicked"
  <2>1. CASE Same(c)
    BY <2>1 DEF Same
  <2>2. CASE SignUp(c) \/ Stop(c) \/ Abandoned(c)
    <3>1. pc'[c] # "done"
      BY <2>2 DEF SignUp, ReadSignup, WriteSignup, Stop, Abandoned, Restart, TypeInv
    <3>2. round'[c] = round[c]
      BY <2>2 DEF SignUp, ReadSignup, WriteSignup, Stop, Abandoned, Restart
    <3> QED
      BY <3>1, <3>2
  <2>3. CASE Writes(c) \/ Skips(c) \/ Reads(c)
    BY <2>3 DEF Writes, Skips, Reads
  <2>4. CASE Ends(c)
    BY <2>4 DEF Ends
  <2> QED
    BY <2>1, <2>2, <2>3, <2>4, Frame
<1>3. /\ round[c] > 1 => bc1_vec'[c] = bc1_vec[c] /\ number'[c] = number[c]
      /\ round[c] > 2 => decom_vec'[c] = decom_vec[c]
      /\ round[c] > 3 => party_shares'[c] = party_shares[c]
      /\ round[c] > 4 => vss_scheme_vec'[c] = vss_scheme_vec[c]
  BY KeptStays
<1>4. Ends(c) => /\ round'[c] \in {round[c], round[c] + 1}
                 /\ pc'[c] = "done" => round[c] = 5
                 /\ pc'[c] # "panicked" => round'[c] = round[c] + 1 \/ round[c] = 5
  BY DEF Ends
<1>5. ASSUME round'[c] > 3, number'[c] # 1 PROVE FirstCounts(c)'
  <2>1. round[c] > 3 \/ (round[c] = 3 /\ Ends(c) /\ pc'[c] # "panicked")
    BY <1>1, <1>2, <1>4, <1>5
  <2>2. FirstCounts(c)
    BY <1>1, <1>3, <1>5, <2>1, GoesOn DEF VerifiedInv
  <2> QED
    BY <2>2, FirstCountsStays
<1>6. ASSUME NEW n \in 1 .. parties[c], round'[c] > 2
      PROVE  decom_vec'[c][n].of = bc1_vec'[c][n].of
  <2>1. CASE round[c] > 2
    BY <1>1, <1>3, <2>1 DEF VerifiedInv
  <2>2. CASE ~(round[c] > 2)
    <3>1. round[c] = 2 /\ Ends(c) /\ pc'[c] # "panicked"
      BY <1>1, <1>2, <1>4, <1>6, <2>2
    <3> QED
      BY <1>3, <3>1, GoesOn
  <2> QED
    BY <2>1, <2>2
<1>7. ASSUME NEW n \in 1 .. parties[c], round'[c] > 4
      PROVE  \E d \in Callers :
               /\ decom_vec'[c][n].of = d /\ round'[d] >= 4
               /\ party_shares'[c][n].of = d /\ vss_scheme_vec'[c][n].of = d
  <2>1. CASE round[c] > 4
    <3>1. PICK d \in Callers :
            /\ decom_vec[c][n].of = d /\ round[d] >= 4
            /\ party_shares[c][n].of = d /\ vss_scheme_vec[c][n].of = d
      BY <2>1 DEF VerifiedInv
    <3>2. round'[d] >= 4
      BY <1>1, <3>1
    <3> QED
      BY <1>1, <1>3, <2>1, <3>1, <3>2
  <2>2. CASE ~(round[c] > 4)
    <3>1. round[c] = 4 /\ Ends(c) /\ pc'[c] # "panicked"
      BY <1>1, <1>2, <1>4, <1>7, <2>2
    <3>2. PICK d \in Callers :
            /\ decom_vec[c][n].of = d /\ round[d] >= 4
            /\ party_shares[c][n].of = d /\ vss_scheme_vec'[c][n].of = d
      BY <3>1, GoesOn
    <3>3. round'[d] >= 4
      BY <1>1, <3>2
    <3> QED
      BY <1>3, <3>1, <3>2, <3>3
  <2> QED
    BY <2>1, <2>2
<1>8. ASSUME NEW n \in 1 .. parties[c], pc'[c] = "done"
      PROVE  \E d \in Callers : decom_vec'[c][n].of = d /\ round'[d] >= 5
  <2>1. PICK d \in Callers : decom_vec[c][n].of = d /\ round[d] >= 5 /\ round[c] = 5
    <3>1. CASE pc[c] = "done"
      BY <3>1 DEF VerifiedInv, DoneInv
    <3>2. CASE Ends(c)
      BY <1>4, <1>8, <3>2, GoesOn
    <3> QED
      BY <1>2, <1>8, <3>1, <3>2
  <2>2. round'[d] >= 5
    BY <1>1, <2>1
  <2> QED
    BY <1>3, <2>1, <2>2
<1> QED
  BY <1>1, <1>5, <1>6, <1>7, <1>8

(* Of the callers with one number, one gets past round 3. *)
LEMMA OnePasses ==
    ASSUME FirstInv, VerifiedInv, NEW c \in Callers, NEW d \in Callers, SameRun(c, d),
           number[c] = number[d], round[c] > 3, round[d] > 3
    PROVE  c = d
<1>1. CASE number[c] = 1
  BY <1>1 DEF FirstInv, SameRun
<1>2. CASE number[c] # 1
  <2>1. PICK g \in Callers : PartyAt(c, 1, g) /\ decom_vec[g][number[c]].of = c
    BY <1>2 DEF VerifiedInv, FirstCounts
  <2>2. PICK h \in Callers : PartyAt(d, 1, h) /\ decom_vec[h][number[d]].of = d
    BY <1>2 DEF VerifiedInv, FirstCounts
  <2>3. g = h
    BY <2>1, <2>2 DEF FirstInv, PartyAt, SameRun
  <2> QED
    BY <2>1, <2>2, <2>3
<1> QED
  BY <1>1, <1>2

(* The party that a caller counts at number n when it returns. *)
LEMMA CountedAt ==
    ASSUME ExchangeInv, VerifiedInv, NEW c \in Callers, pc[c] = "done",
           NEW n \in 1 .. parties[c]
    PROVE  \E d \in Callers :
             /\ PartyAt(c, n, d) /\ round[d] = 5
             /\ bc1_vec[c][n].of = d /\ decom_vec[c][n].of = d /\ vss_scheme_vec[c][n].of = d
<1> USE DEF ExchangeInv
<1>1. round[c] = 5
  BY DEF DoneInv
<1>2. PICK d \in Callers : decom_vec[c][n].of = d /\ round[d] >= 5
  BY DEF VerifiedInv
<1>3. bc1_vec[c][n].of = d /\ vss_scheme_vec[c][n].of = d
  BY <1>1, <1>2 DEF VerifiedInv
<1>4. round[d] = 5
  BY <1>2 DEF TypeInv
<1>5. PICK e \in Callers : PartyAt(c, n, e) /\ decom_vec[c][n] = Own(e, "decom")
  BY <1>1 DEF VectorsInv, Aligned
<1>6. e = d
  BY <1>2, <1>5 DEF Own
<1> QED
  BY <1>2, <1>3, <1>4, <1>5, <1>6

(* Who returns a key counts as many as anyone of its computation: one who  *)
(* counts more has a share from c, which has made one for each number up   *)
(* to its own count.                                                       *)
LEMMA CountsAsMany ==
    ASSUME ExchangeInv, FirstInv, VerifiedInv, NEW c \in Callers, NEW d \in Callers,
           SameRun(c, d), pc[c] = "done", pc[d] = "done"
    PROVE  ~(parties[c] < parties[d])
<1> USE DEF ExchangeInv
<1> SUFFICES ASSUME parties[c] < parties[d] PROVE FALSE
  OBVIOUS
<1>1. /\ parties[c] \in Nat /\ parties[d] \in Nat /\ parties[d] >= 1 /\ uuid[c] # NoUuid
      /\ number[c] \in 1 .. parties[c] /\ round[c] = 5
  BY Counted DEF MemberInv, DoneInv, SameRun
<1>2. PICK x \in Callers : PartyAt(d, parties[d], x) /\ round[x] = 5
  BY <1>1, CountedAt
<1>3. /\ SameRun(c, x) /\ number[x] = parties[d] /\ parties[x] \in Nat
      /\ number[x] <= parties[x]
  BY <1>2, Counted DEF PartyAt, SameRun
<1>4. number[c] \in 1 .. parties[x]
  BY <1>1, <1>3
<1>5. PICK y \in Callers :
        /\ decom_vec[x][number[c]].of = y /\ round[y] >= 4
        /\ party_shares[x][number[c]].of = y
  BY <1>2, <1>4 DEF VerifiedInv
<1>6. PICK z \in Callers :
        /\ PartyAt(x, number[c], z) /\ number[x] <= parties[z]
        /\ party_shares[x][number[c]] = [of |-> z, at |-> number[x]]
  BY <1>2, <1>4 DEF VectorsInv, SharesAligned
<1>7. z = y
  BY <1>5, <1>6
<1>8. SameRun(c, y) /\ number[y] = number[c] /\ round[y] > 3
  BY <1>3, <1>5, <1>6, <1>7 DEF PartyAt, SameRun, TypeInv
<1>9. y = c
  BY <1>1, <1>8, OnePasses
<1> QED
  BY <1>1, <1>3, <1>6, <1>7, <1>9

(* A caller that returns a key has counted a party of its computation at   *)
(* each number, and whoever returns one in this computation returns the    *)
(* same.  Unless two have one number, these parties count as many: a       *)
(* caller that counts more than the others waits for them without end, and *)
(* one that counts less is not sent the shares it needs.                   *)
THEOREM KeyAgreement == Spec => []KeyAgreed
<1>1. Init => FirstInv /\ SealedInv /\ VerifiedInv
  BY DEF Init, ExchangeInit, NoEntry, FirstInv, SealedInv, VerifiedInv
<1>2. /\ ExchangeInv /\ FirstInv /\ SealedInv /\ VerifiedInv /\ [Next]_vars
      => FirstInv' /\ SealedInv' /\ VerifiedInv'
  BY FirstStep, SealedStep, VerifiedStep
<1>3. ExchangeInv /\ FirstInv /\ VerifiedInv => KeyAgreed
  <2> SUFFICES ASSUME ExchangeInv, FirstInv, VerifiedInv, NEW c \in Callers, pc[c] = "done"
               PROVE  /\ \A n \in 1 .. parties[c] :
                           \E d \in Callers :
                             /\ SameRun(c, d) /\ number[d] = n /\ bc1_vec[c][n].of = d
                             /\ DistinctNumbers => parties[d] = parties[c]
                      /\ \A d \in Callers :
                           SameRun(c, d) /\ pc[d] = "done" => KeyOf(d) = KeyOf(c)
    BY DEF KeyAgreed
  <2>1. ASSUME NEW n \in 1 .. parties[c]
        PROVE  \E d \in Callers :
                 /\ SameRun(c, d) /\ number[d] = n /\ bc1_vec[c][n].of = d
                 /\ DistinctNumbers => parties[d] = parties[c]
    <3>1. PICK d \in Callers : PartyAt(c, n, d) /\ round[d] = 5 /\ bc1_vec[c][n].of = d
      BY CountedAt
    <3>2. SameRun(c, d) /\ number[d] = n
      BY <3>1 DEF PartyAt
    <3>3. DistinctNumbers => parties[d] = parties[c]
      BY <3>1, <3>2, SameCount DEF ExchangeInv
    <3> QED
      BY <3>1, <3>2, <3>3
  <2>2. ASSUME NEW d \in Callers, SameRun(c, d), pc[d] = "done" PROVE KeyOf(d) = KeyOf(c)
    <3>1. parties[d] = parties[c]
      <4>1. ~(parties[c] < parties[d]) /\ ~(parties[d] < parties[c])
        BY <2>2, CountsAsMany DEF SameRun
      <4>2. parties[c] \in Nat /\ parties[d] \in Nat
        BY Counted DEF ExchangeInv
      <4> QED
        BY <4>1, <4>2
    <3>2. ASSUME NEW n \in 1 .. parties[c]
          PROVE  /\ bc1_vec[c][n].of = bc1_vec[d][n].of
                 /\ decom_vec[c][n].of = decom_vec[d][n].of
                 /\ vss_scheme_vec[c][n].of = vss_scheme_vec[d][n].of
      <4>1. PICK x \in Callers :
              /\ PartyAt(c, n, x) /\ round[x] = 5
              /\ bc1_vec[c][n].of = x /\ decom_vec[c][n].of = x /\ vss_scheme_vec[c][n].of = x
        BY CountedAt
      <4>2. PICK y \in Callers :
              /\ PartyAt(d, n, y) /\ round[y] = 5
              /\ bc1_vec[d][n].of = y /\ decom_vec[d][n].of = y /\ vss_scheme_vec[d][n].of = y
        BY <2>2, <3>1, CountedAt
      <4>3. SameRun(x, y) /\ number[x] = number[y]
        BY <2>2, <4>1, <4>2 DEF PartyAt, SameRun
      <4>4. round[x] > 3 /\ round[y] > 3
        BY <4>1, <4>2
      <4>5. x = y
        BY <4>3, <4>4, OnePasses
      <4> QED
        BY <4>1, <4>2, <4>5
    <3> QED
      BY <3>1, <3>2 DEF KeyOf
  <2> QED
    BY <2>1, <2>2
<1> QED
  BY <1>1, <1>2, <1>3, ExchangeInvariant, PTL DEF Spec

(* Nobody enters a round before every party it counts has sent what it     *)
(* sends in the round before: a decommitment comes after every commitment. *)
THEOREM CommitmentsFirst == Spec => []CommitFirst
BY ExchangeInvariant, PTL DEF ExchangeInv

(* What a party has written is not written again, unless two have one      *)
(* number.                                                                 *)
THEOREM NothingRewritten == Spec => WrittenOnce
<1> DEFINE Kept == DistinctNumbers' =>
                     \A k \in DOMAIN store \cap DOMAIN store' : store'[k] = store[k]
<1>1. ExchangeInv /\ [Next]_vars => Kept
  <2> SUFFICES ASSUME ExchangeInv, [Next]_vars PROVE Kept
    OBVIOUS
  <2> USE DEF ExchangeInv
  <2>1. ASSUME NEW c \in Callers, Writes(c) PROVE Kept
    <3>1. PICK to \in Nat :
            /\ pc[c] = "send"
            /\ Adds(<<uuid[c], number[c], to, round[c]>>)
            /\ round[c] = 3 => to = peer[c]
      BY <2>1 DEF Writes
    <3>2. uuid[c] # NoUuid
      BY <3>1 DEF SignupInv
    <3>3. ASSUME DistinctNumbers', <<uuid[c], number[c], to, round[c]>> \in DOMAIN store
          PROVE  FALSE
      <4>1. PICK d \in Callers, t \in Nat, r \in 1 .. 5 :
              <<uuid[c], number[c], to, round[c]>> = <<uuid[d], number[d], t, r>> /\ Wrote(d, t, r)
        BY <3>3 DEF StoreInv, Stored
      <4>2. uuid[d] = uuid[c] /\ number[d] = number[c] /\ t = to /\ r = round[c]
        BY <4>1
      <4>3. d = c
        BY <3>2, <3>3, <4>2, DistinctBefore DEF DistinctNumbers, SameRun
      <4> QED
        BY <3>1, <4>1, <4>2, <4>3 DEF Wrote, TypeInv
    <3> QED
      BY <3>1, <3>3 DEF Adds
  <2>2. ASSUME NEW c \in Callers, Proceed(c) PROVE Kept
    BY <2>1, <2>2, Moves DEF Skips, Reads, Ends
  <2>3. ASSUME NEW c \in Callers, SignUp(c) \/ Stop(c) PROVE Kept
    BY <2>3 DEF SignUp, ReadSignup, WriteSignup, Stop
  <2>4. CASE Restart
    BY <2>4 DEF Restart
  <2>5. CASE UNCHANGED vars
    BY <2>5 DEF vars, exchangeVars
  <2> QED
    BY <2>2, <2>3, <2>4, <2>5 DEF Next
<1>2. [Next]_vars /\ Kept => [Kept]_exchangeVars
  OBVIOUS
<1> QED
  BY <1>1, <1>2, ExchangeInvariant, PTL DEF Spec, WrittenOnce

-----------------------------------------------------------------------------
(***************************************************************************)
(* No deadlock: parties that count the same do not all wait for values     *)
(* that are not in the map.                                                *)
(***************************************************************************)

(* c has a value for party `to` in round r. *)
Due(c, to, r) == IF r = 3 THEN to \in 1 .. parties[c] \ {number[c]} ELSE to = All

(* What a caller has written is in the map, as long as the map is kept. *)
SentInv ==
    \A c \in Callers : MapKept(c) =>
        \A to \in Nat, r \in 1 .. 5 : Due(c, to, r) /\ Wrote(c, to, r) =>
            <<uuid[c], number[c], to, r>> \in DOMAIN store

(* While the map keeps the computation of c, it loses nothing. *)
LEMMA MapStays ==
    ASSUME TypeInv, VectorTypeInv, SignupInv, [Next]_vars,
           NEW c \in Callers, uuid[c] # NoUuid, MapKept(c)'
    PROVE  MapKept(c) /\ DOMAIN store \subseteq DOMAIN store' /\ uuid'[c] = uuid[c]
<1> USE DEF MapKept
<1>1. uuid'[c] = uuid[c]
  BY MembersStay
<1>2. ASSUME UNCHANGED <<live, store>> PROVE MapKept(c) /\ DOMAIN store \subseteq DOMAIN store'
  BY <1>1, <1>2
<1>3. ASSUME NEW d \in Callers, Proceed(d)
      PROVE  MapKept(c) /\ DOMAIN store \subseteq DOMAIN store'
  <2>1. OthersStay(d) /\ (Writes(d) \/ Skips(d) \/ Reads(d) \/ Ends(d))
    BY <1>3, Moves
  <2> QED
    BY <1>1, <2>1 DEF OthersStay, Writes, Adds, Skips, Reads, Ends
<1>4. ASSUME NEW d \in Callers, ReadSignup(d)
      PROVE  MapKept(c) /\ DOMAIN store \subseteq DOMAIN store'
  <2>1. pc[d] = "signup" /\ UNCHANGED store /\ live' \subseteq live \cup {d}
    BY <1>4 DEF ReadSignup
  <2>2. uuid[c] # d
    BY <2>1 DEF SignupInv
  <2> QED
    BY <1>1, <2>1, <2>2
<1>5. ASSUME NEW d \in Callers, WriteSignup(d) \/ Stop(d)
      PROVE  MapKept(c) /\ DOMAIN store \subseteq DOMAIN store'
  BY <1>2, <1>5 DEF WriteSignup, Stop
<1>6. ~Restart
  BY DEF Restart
<1>7. CASE UNCHANGED vars
  BY <1>2, <1>7 DEF vars, exchangeVars
<1> QED
  BY <1>1, <1>3, <1>4, <1>5, <1>6, <1>7 DEF Next, SignUp

(* Who has yet to sign up has written nothing, also when it does. *)
LEMMA NothingSent ==
    ASSUME TypeInv, VectorTypeInv, SignupInv, MemberInv, [Next]_vars,
           NEW c \in Callers, uuid[c] = NoUuid, NEW to \in Nat, NEW r \in 1 .. 5,
           Due(c, to, r)'
    PROVE  ~Wrote(c, to, r)'
<1>1. round[c] = 1 /\ pc[c] \notin {"send", "poll"}
  BY DEF SignupInv, MemberInv
<1>2. CASE Same(c)
  BY <1>2 DEF Same, Wrote
<1>3. CASE ReadSignup(c) \/ Abandoned(c)
  BY <1>3 DEF ReadSignup, Abandoned, Restart, Wrote
<1>4. CASE WriteSignup(c)
  <2>1. round'[c] = 1 /\ pc'[c] = "send"
    BY <1>1, <1>4 DEF WriteSignup, TypeInv
  <2> QED
    BY <2>1 DEF Wrote
<1> QED
  BY <1>1, <1>2, <1>3, <1>4, Frame DEF SignUp, Writes, Skips, Reads, Ends, Stop

LEMMA SentStep ==
    ASSUME ExchangeInv, SentInv, [Next]_vars
    PROVE  SentInv'
<1> USE DEF ExchangeInv
<1> SUFFICES ASSUME NEW c \in Callers, MapKept(c)', NEW to \in Nat, NEW r \in 1 .. 5,
                    Due(c, to, r)', Wrote(c, to, r)'
             PROVE  <<uuid'[c], number'[c], to, r>> \in DOMAIN store'
  BY DEF SentInv
<1>1. uuid[c] # NoUuid
  BY NothingSent
<1>2. MapKept(c) /\ DOMAIN store \subseteq DOMAIN store' /\ uuid'[c] = uuid[c]
  BY <1>1, MapStays
<1>3. number'[c] = number[c] /\ Due(c, to, r)
  BY <1>1, MembersStay DEF Due
<1>4. Wrote(c, to, r) => <<uuid[c], number[c], to, r>> \in DOMAIN store'
  BY <1>2, <1>3 DEF SentInv
<1>5. /\ r \in Nat /\ number[c] \in Nat /\ peer[c] \in Nat /\ round[c] \in 1 .. 5
      /\ r # 3 => to = All
      /\ r = 3 => to >= 1 /\ to <= parties[c] /\ to # number[c]
      /\ parties[c] \in Nat
  <2>1. parties[c] \in Nat
    BY CountsAssumption DEF TypeInv
  <2> QED
    BY <1>3, <2>1 DEF TypeInv, Due
<1>6. CASE OthersStay(c) /\ Writes(c)
  <2>1. PICK t \in Nat :
          /\ pc[c] = "send" /\ round'[c] = round[c]
          /\ Adds(<<uuid[c], number[c], t, round[c]>>)
          /\ IF round[c] = 3 THEN t = peer[c] ELSE t = All
          /\ \/ round[c] = 3 => Other(c, peer[c] + 1) > parties[c]
             \/ pc'[c] = "send" /\ peer'[c] = Other(c, peer[c] + 1)
    BY <1>6 DEF Writes
  <2>2. CASE r < round[c]
    BY <1>2, <1>3, <1>4, <2>2 DEF Wrote
  <2>3. CASE r = round[c] /\ to = t
    BY <1>2, <1>3, <2>1, <2>3 DEF Adds
  <2>4. CASE ~(r < round[c]) /\ to # t
    <3>1. r = 3 /\ round[c] = 3 /\ t = peer[c]
      BY <1>5, <2>1, <2>4 DEF Wrote
    <3>2. to < Other(c, peer[c] + 1)
      <4>1. Other(c, peer[c] + 1) \in Nat
        BY <1>5 DEF Other
      <4> QED
        BY <1>5, <2>1, <3>1, <4>1 DEF Wrote
    <3>3. to < peer[c]
      BY <1>5, <2>4, <3>1, <3>2 DEF Other
    <3> QED
      BY <1>2, <1>3, <1>4, <3>1, <3>3 DEF Wrote
  <2>5. r < round[c] \/ r = round[c]
    BY <1>5, <2>1 DEF Wrote
  <2> QED
    BY <1>5, <2>2, <2>3, <2>4, <2>5
<1>7. CASE OthersStay(c) /\ Skips(c)
  <2>1. round[c] = 3 /\ round'[c] = 3 /\ ~(peer[c] <= parties[c])
    BY <1>7 DEF Skips
  <2>2. r < 3 \/ (r = 3 /\ to < peer[c])
    BY <1>5, <2>1 DEF Wrote
  <2> QED
    BY <1>2, <1>3, <1>4, <2>1, <2>2 DEF Wrote
<1>8. CASE OthersStay(c) /\ Reads(c)
  BY <1>2, <1>3, <1>4, <1>8 DEF Reads, Wrote
<1>9. CASE OthersStay(c) /\ Ends(c)
  <2>1. /\ pc[c] = "poll" /\ peer'[c] = Other(c, 1)
        /\ \/ round'[c] = round[c] + 1 /\ pc'[c] = "send"
           \/ round'[c] = round[c]
    BY <1>9 DEF Ends
  <2>2. CASE r <= round[c]
    BY <1>2, <1>3, <1>4, <1>5, <2>1, <2>2 DEF Wrote
  <2>3. CASE ~(r <= round[c])
    <3>1. r = 3 /\ to < Other(c, 1)
      BY <1>5, <2>1, <2>3 DEF Wrote
    <3> QED
      BY <1>5, <3>1 DEF Other
  <2> QED
    BY <2>2, <2>3
<1>10. CASE Same(c)
  BY <1>2, <1>3, <1>4, <1>10 DEF Same, Wrote
<1>11. CASE Stop(c)
  <2>1. /\ round'[c] = round[c] /\ peer'[c] = peer[c]
        /\ \/ pc[c] = "poll" /\ pc'[c] = "left"
           \/ pc'[c] = "stopped"
    BY <1>11 DEF Stop, TypeInv
  <2> QED
    BY <1>2, <1>3, <1>4, <2>1 DEF Wrote
<1>12. ~SignUp(c) /\ ~Abandoned(c)
  BY <1>1 DEF SignUp, ReadSignup, WriteSignup, Abandoned, SignupInv
<1> QED
  BY <1>6, <1>7, <1>8, <1>9, <1>10, <1>11, <1>12, Frame

(* The next step of c is enabled. *)
CanProceed(c) ==
    \/ pc[c] = "send"
    \/ /\ pc[c] = "poll"
       /\ \/ peer[c] > parties[c]
          \/ Key(c, peer[c], IF round[c] = 3 THEN number[c] ELSE All, round[c]) \in DOMAIN store

(* The parties that c counts. *)
CountedBy(c) == {d \in Callers : SameRun(c, d) /\ number[d] <= parties[c]}

(* All of them are there and at work, or done, none has the number of      *)
(* another, they count as many, and the map holds what they wrote.         *)
Undisturbed(c) ==
    /\ MapKept(c) /\ uuid[c] # NoUuid /\ DistinctNumbers
    /\ \A n \in 1 .. parties[c] : \E d \in CountedBy(c) : number[d] = n
    /\ \A d \in CountedBy(c) : parties[d] = parties[c] /\ pc[d] \notin {"stopped", "left"}

(* Then they do not all wait for one another. *)
NobodyStuck ==
    \A c \in Callers : Undisturbed(c) =>
        \/ \A d \in CountedBy(c) : pc[d] = "done"
        \/ \E d \in CountedBy(c) : CanProceed(d)

(* The first number in a set of rounds. *)
LEMMA FirstRound ==
    ASSUME NEW T, T \subseteq 1 .. 5, T # {}
    PROVE  \E x \in T : \A y \in T : x <= y
<1> SUFFICES ASSUME \A x \in T : \E y \in T : ~(x <= y)
             PROVE  FALSE
  OBVIOUS
<1>1. 1 \notin T
  OBVIOUS
<1>2. 2 \notin T
  BY <1>1
<1>3. 3 \notin T
  BY <1>1, <1>2
<1>4. 4 \notin T /\ 5 \notin T
  BY <1>1, <1>2, <1>3
<1>5. ASSUME NEW x \in 1 .. 5 PROVE x \notin T
  <2>1. x = 1 \/ x = 2 \/ x = 3 \/ x = 4 \/ x = 5
    OBVIOUS
  <2> QED
    BY <1>1, <1>2, <1>3, <1>4, <2>1
<1> QED
  BY <1>5

(* Who is not ahead of its peer finds what it waits for in the map. *)
LEMMA PeerHasWritten ==
    ASSUME ExchangeInv, SentInv, NEW c \in Callers, pc[c] = "poll", peer[c] <= parties[c],
           MapKept(c), NEW d \in Callers, PartyAt(c, peer[c], d), parties[d] = parties[c],
           round[c] <= round[d], pc[d] \in {"poll", "done"}
    PROVE  CanProceed(c)
<1> USE DEF ExchangeInv
<1>1. /\ uuid[d] = uuid[c] /\ number[d] = peer[c] /\ uuid[d] # NoUuid /\ MapKept(d)
      /\ round[c] \in 1 .. 5 /\ round[d] \in 1 .. 5
  BY DEF PartyAt, SameRun, MapKept, TypeInv
<1>2. number[c] \in 1 .. parties[d] /\ number[c] # number[d] /\ number[c] \in Nat
  BY <1>1 DEF SignupInv, MemberInv, TypeInv
<1> DEFINE to == IF round[c] = 3 THEN number[c] ELSE All
<1>3. Due(d, to, round[c]) /\ Wrote(d, to, round[c]) /\ to \in Nat
  BY <1>1, <1>2 DEF Due, Wrote, All
<1>4. <<uuid[d], number[d], to, round[c]>> \in DOMAIN store
  BY <1>1, <1>3 DEF SentInv
<1> QED
  BY <1>1, <1>4 DEF CanProceed, Key

(* As long as all parties are there, count the same, have a number each    *)
(* and the map is kept, they do not all wait for one another: one that is  *)
(* in the earliest round finds what it waits for.                          *)
THEOREM NoDeadlock == Spec => []NobodyStuck
<1>1. Init => SentInv
  BY DEF Init, ExchangeInit, SentInv, MapKept
<1>2. ExchangeInv /\ SentInv => NobodyStuck
  <2> SUFFICES ASSUME ExchangeInv, SentInv, NEW c \in Callers, Undisturbed(c),
                      \E d \in CountedBy(c) : pc[d] # "done",
                      \A d \in CountedBy(c) : pc[d] # "send"
               PROVE  \E d \in CountedBy(c) : CanProceed(d)
    BY DEF NobodyStuck, CanProceed
  <2> USE DEF ExchangeInv
  <2>1. ASSUME NEW d \in CountedBy(c)
        PROVE  /\ d \in Callers /\ MapKept(d) /\ parties[d] = parties[c] /\ SameRun(c, d)
               /\ number[d] <= parties[c]
    BY DEF Undisturbed, MapKept, CountedBy, SameRun
  <2>2. ASSUME NEW d \in CountedBy(c) PROVE pc[d] \in {"poll", "done"}
    <3>1. uuid[d] # NoUuid /\ number[d] # 0
      BY <2>1, CountsAssumption DEF SameRun, MemberInv, TypeInv
    <3>2. pc[d] \notin {"panicked", "signup", "write"}
      BY <2>1, <3>1 DEF ReadsVerify, SignupInv, Undisturbed
    <3> QED
      BY <2>1, <3>2 DEF Undisturbed, TypeInv
  <2> DEFINE T == {round[d] : d \in {x \in CountedBy(c) : pc[x] = "poll"}}
  <2>3. T # {} /\ T \subseteq 1 .. 5
    <3>1. PICK d \in CountedBy(c) : pc[d] = "poll"
      BY <2>2
    <3>2. round[d] \in T
      BY <3>1
    <3>3. \A e \in CountedBy(c) : round[e] \in 1 .. 5
      BY <2>1 DEF TypeInv
    <3> QED
      BY <3>2, <3>3
  <2>4. PICK least \in T : \A r \in T : least <= r
    <3> HIDE DEF T
    <3> QED
      BY <2>3, FirstRound
  <2>5. PICK d \in CountedBy(c) : pc[d] = "poll" /\ round[d] = least
    BY <2>4
  <2>6. CASE peer[d] > parties[d]
    BY <2>5, <2>6 DEF CanProceed
  <2>7. CASE ~(peer[d] > parties[d])
    <3>1. peer[d] \in 1 .. parties[c] /\ peer[d] <= parties[d]
      <4>1. parties[c] \in Nat /\ peer[d] \in Nat /\ peer[d] >= 1
        BY <2>1, <2>5, CountsAssumption DEF MemberInv, TypeInv
      <4> QED
        BY <2>1, <2>7, <4>1
    <3>2. PICK e \in CountedBy(c) : number[e] = peer[d]
      BY <3>1 DEF Undisturbed
    <3>3. e \in Callers /\ PartyAt(d, peer[d], e) /\ parties[e] = parties[d]
      BY <2>1, <3>2 DEF PartyAt, SameRun
    <3>4. round[d] <= round[e] /\ pc[e] \in {"poll", "done"}
      <4>1. CASE pc[e] = "poll"
        BY <2>4, <2>5, <4>1
      <4>2. CASE pc[e] = "done"
        BY <2>1, <2>5, <4>2 DEF DoneInv, TypeInv
      <4> QED
        BY <2>2, <4>1, <4>2
    <3> QED
      BY <2>1, <2>5, <3>1, <3>3, <3>4, PeerHasWritten
  <2> QED
    BY <2>6, <2>7
<1> QED
  BY <1>1, <1>2, SentStep, ExchangeInvariant, PTL DEF Spec

=============================================================================
