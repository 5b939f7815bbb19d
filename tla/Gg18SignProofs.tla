---------------------------- MODULE Gg18SignProofs ----------------------------
(***************************************************************************)
(* Proofs about signing with GG18, for any callers, counts, threshold and  *)
(* restarts of the manager: types, that what is read verifies, that        *)
(* nothing is opened before all is committed, that a signature is joint,   *)
(* and that the signers do not all wait for one another.  Two callers that *)
(* meet in the signup may get one number: what is read need not verify     *)
(* then, and they may all wait (ReadsVerify and NobodyStuck have           *)
(* DistinctNumbers as their condition), but the rest holds all the same.   *)
(*                                                                         *)
(* The argument is that of Gg18KeygenProofs: what a caller reads is traced *)
(* back to who wrote it, so that the vectors of ten rounds stay aligned.   *)
(* What the map must hold before a value is revealed (KeptInv) is stated   *)
(* for the callers whose computation the map has not lost.  That a         *)
(* signature is joint rests on what the parties have verified (SealedInv,  *)
(* VerifiedInv).                                                           *)
(***************************************************************************)
EXTENDS Gg18Sign, TLAPS

(* Party n of the computation of c is d. *)
PartyAt(c, n, d) == SameRun(c, d) /\ number[d] = n

(* The number of the j-th of the parties other than party `me`. *)
Place(me, j) == IF j < me THEN j ELSE j + 1

Nth(c, j) == Place(number[c], j)

(* Vectors that have, at each number, what belongs to the party of this    *)
(* number; OthersAligned leaves c itself out.                              *)
SignersAligned(c, v) ==
    /\ v \in Seq(PartyIds) /\ Len(v) = Signers
    /\ \A n \in 1 .. Signers : \E d \in Callers : PartyAt(c, n, d) /\ v[n] = party_id[d]

Aligned(c, v) ==
    /\ v \in Seq(Callers) /\ Len(v) = Signers
    /\ \A n \in 1 .. Signers : PartyAt(c, n, v[n])

OthersAligned(c, v) ==
    /\ v \in Seq(Callers) /\ Len(v) = Threshold
    /\ \A j \in 1 .. Threshold : PartyAt(c, Nth(c, j), v[j])

(* Caller d has written what it writes for party `to` in round r.          *)
Wrote(d, to, r) ==
    /\ uuid[d] # NoUuid
    /\ \/ r < round[d]
       \/ r = round[d] /\ (pc[d] \notin {"send", "stopped"} \/ (r = 2 /\ to < peer[d]))

(* What that is. *)
IsMessageB(d, to, v) ==
    /\ to \in 1 .. Signers
    /\ \E e, f \in Callers, s \in Seq(PartyIds) :
         /\ PartyAt(d, to, e) /\ PartyAt(d, to, f) /\ SignersAligned(d, s)
         /\ v = [of |-> d, ek |-> party_id[e], on |-> f, signers |-> s]

Written(d, to, r, v) ==
    CASE r = 0 -> v = [id |-> party_id[d]]
      [] r = 2 -> IsMessageB(d, to, v)
      [] OTHER -> v = [of |-> d]

TypeInv ==
    /\ parties \in [Callers -> Counts]
    /\ pc \in [Callers -> {"signup", "write", "send", "poll", "done", "panicked",
                            "stopped", "left"}]
    /\ number \in [Callers -> Nat]
    /\ uuid \in [Callers -> Callers \cup {NoUuid}]
    /\ round \in [Callers -> 0 .. 9]
    /\ peer \in [Callers -> Nat]
    /\ entry \in [number : Nat, uuid : Callers \cup {NoUuid}]
    /\ candidate \in [Callers -> [number : Nat, uuid : Callers \cup {NoUuid}]]
    /\ live \subseteq Callers
    /\ restarts \in 0 .. MaxRestarts

VectorTypeInv ==
    /\ ans_vec \in [Callers -> Seq(Value)]
    /\ vec \in [Callers -> [0 .. 9 -> Seq(PartyIds \cup Callers)]]
    /\ \A c \in Callers :
         /\ vec[c][0] \in Seq(PartyIds)
         /\ \A r \in 1 .. 9 : vec[c][r] \in Seq(Callers)

(* The uuid that a caller generates is its own, and the entry of the room  *)
(* and what is about to be written there have one that is live.            *)
SignupInv ==
    /\ entry # NoEntry => entry.uuid \in live
    /\ \A c \in Callers : pc[c] \in {"send", "poll"} => uuid[c] # NoUuid
    /\ \A c \in Callers : pc[c] = "signup" =>
         /\ uuid[c] = NoUuid /\ c \notin live
         /\ \A d \in Callers : uuid[d] # c
    /\ \A c \in Callers : pc[c] = "write" =>
         /\ uuid[c] = NoUuid /\ candidate[c].uuid \in live
         /\ candidate[c].number \in 1 .. parties[c]

(* A caller that has a number has one of those it counts, goes on as one   *)
(* of the signers only, and turns to parties other than itself.            *)
MemberInv ==
    \A c \in Callers :
        /\ uuid[c] # NoUuid => number[c] \in 1 .. parties[c]
        /\ uuid[c] = NoUuid => number[c] = 0 /\ round[c] = 0
        /\ round[c] > 0 => number[c] <= Signers
        /\ pc[c] \in {"send", "poll"} => peer[c] >= 1 /\ peer[c] # number[c]

(* What the map holds was written by a caller under its own number. *)
Stored(k, v) ==
    \E d \in Callers, to \in Nat, r \in 0 .. 9 :
        /\ k = <<uuid[d], number[d], to, r>>
        /\ Wrote(d, to, r) /\ Written(d, to, r, v)

StoreInv == \A k \in DOMAIN store : Stored(k, store[k])

(* v is what party n, which is not behind, writes for c in round r. *)
Answer(c, n, r, v) ==
    \E d \in Callers :
        /\ PartyAt(c, n, d) /\ round[d] >= r
        /\ Written(d, IF r = 2 THEN number[c] ELSE All, r, v)

(* The answers are those of the other signers, in order. *)
AnswersInv ==
    \A c \in Callers :
        /\ pc[c] \in {"signup", "write", "send"} => ans_vec[c] = <<>>
        /\ pc[c] = "poll" =>
             /\ peer[c] = Nth(c, Len(ans_vec[c]) + 1)
             /\ Len(ans_vec[c]) <= Signers
             /\ number[c] <= Signers => Len(ans_vec[c]) <= Threshold
             /\ \A j \in 1 .. Len(ans_vec[c]) : Answer(c, Nth(c, j), round[c], ans_vec[c][j])

(* The vector that a signer keeps of round r. *)
Filled(c, r, v) ==
    CASE r = 0 -> SignersAligned(c, v)
      [] r \in {2, 9} -> OthersAligned(c, v)
      [] OTHER -> Aligned(c, v)

(* The vectors of the rounds that are over. *)
VectorsInv ==
    \A c \in Callers : number[c] <= Signers =>
        \A r \in 0 .. 8 : r < round[c] => Filled(c, r, vec[c][r])

DoneInv ==
    \A c \in Callers : pc[c] = "done" =>
        /\ round[c] = 9 /\ OthersAligned(c, vec[c][9])
        /\ \A n \in 1 .. Signers : \E d \in Callers : PartyAt(c, n, d) /\ round[d] = 9

(* The map holds what c has written in round r, and what it has read.      *)
Known(c, n, r) ==
    \/ r < round[c]
    \/ r = round[c] /\ pc[c] = "poll" /\ n < peer[c] /\ n # number[c]
    \/ n = number[c] /\ Wrote(c, All, r)

KeptInv ==
    \A c \in Callers : MapKept(c) =>
        \A n \in 1 .. Signers, r \in 0 .. 9 \ {2} :
            Known(c, n, r) => <<uuid[c], n, All, r>> \in DOMAIN store

ExchangeInv ==
    /\ TypeInv /\ VectorTypeInv /\ SignupInv /\ MemberInv /\ StoreInv /\ AnswersInv
    /\ VectorsInv /\ DoneInv /\ KeptInv /\ ReadsVerify

(***************************************************************************)
(* Vectors: what inserting and removing the caller's own value does.       *)
(***************************************************************************)
LEMMA SeqOf ==
    ASSUME NEW S, NEW T, NEW s \in Seq(S), \A i \in 1 .. Len(s) : s[i] \in T
    PROVE  s \in Seq(T)
<1>1. Len(s) \in Nat /\ s \in [1 .. Len(s) -> S]
  OBVIOUS
<1>2. s = [i \in 1 .. Len(s) |-> s[i]]
  BY <1>1
<1>3. s \in [1 .. Len(s) -> T]
  BY <1>2
<1> QED
  BY <1>1, <1>3

LEMMA Places ==
    ASSUME NEW l \in Nat, NEW me \in 1 .. l + 1, NEW i \in 1 .. l + 1, i # me
    PROVE  \E j \in 1 .. l : i = Place(me, j)
<1>1. (IF i < me THEN i ELSE i - 1) \in 1 .. l
  OBVIOUS
<1>2. i = Place(me, IF i < me THEN i ELSE i - 1)
  BY DEF Place
<1> QED
  BY <1>1, <1>2

(* w is the sequence ans over S with `own` put at place `me`. *)
Inserted(S, ans, me, own, w) ==
    /\ w \in Seq(S) /\ Len(w) = Len(ans) + 1 /\ w[me] = own
    /\ \A n \in 1 .. Len(ans) + 1 : n # me =>
         \E j \in 1 .. Len(ans) : n = Place(me, j) /\ w[n] = ans[j]

LEMMA FormatVecIs ==
    ASSUME NEW S, NEW ans, NEW me, NEW own, NEW w,
           ans \in Seq(S), me \in 1 .. Len(ans) + 1, own \in S, w = FormatVec(ans, me, own)
    PROVE  Inserted(S, ans, me, own, w)
<1>1. Len(ans) \in Nat /\ \A j \in 1 .. Len(ans) : ans[j] \in S
  OBVIOUS
<1>2. \A i \in 1 .. Len(ans) + 1 : i # me => (IF i < me THEN i ELSE i - 1) \in 1 .. Len(ans)
  BY <1>1
<1>3. w[me] = own /\ \A j \in 1 .. Len(ans) : w[Place(me, j)] = ans[j]
  BY <1>1 DEF FormatVec, Place
<1>4. w \in [1 .. Len(ans) + 1 -> S]
  BY <1>1, <1>2 DEF FormatVec
<1>5. w \in Seq(S) /\ Len(w) = Len(ans) + 1
  BY <1>1, <1>4
<1>6. \A n \in 1 .. Len(ans) + 1 : n # me => \E j \in 1 .. Len(ans) : n = Place(me, j)
  BY <1>1, Places
<1> QED
  BY <1>3, <1>5, <1>6 DEF Inserted

(* w is the sequence v over S without what it has at place `me`. *)
Removed(S, v, me, w) ==
    /\ w \in Seq(S) /\ Len(w) = Len(v) - 1
    /\ \A j \in 1 .. Len(v) - 1 : w[j] = v[Place(me, j)]

LEMMA WithoutIs ==
    ASSUME NEW S, NEW v, NEW me, NEW w, v \in Seq(S), me \in 1 .. Len(v), w = Without(v, me)
    PROVE  Removed(S, v, me, w)
<1>1. Len(v) \in Nat /\ Len(v) - 1 \in Nat /\ \A j \in 1 .. Len(v) : v[j] \in S
  OBVIOUS
<1>2. \A j \in 1 .. Len(v) - 1 : (IF j < me THEN j ELSE j + 1) \in 1 .. Len(v)
  BY <1>1
<1>3. w \in [1 .. Len(v) - 1 -> S]
  BY <1>1, <1>2 DEF Without
<1> QED
  BY <1>1, <1>3 DEF Without, Removed, Place

-----------------------------------------------------------------------------
LEMMA InitInv == Init => ExchangeInv
<1> SUFFICES ASSUME Init PROVE ExchangeInv
  OBVIOUS
<1> USE CallersAssumption DEF Init, ExchangeInit
<1>1. TypeInv
  BY RestartsAssumption DEF TypeInv, NoEntry
<1>2. VectorTypeInv
  BY DEF VectorTypeInv
<1>3. SignupInv /\ MemberInv /\ ReadsVerify
  BY DEF SignupInv, MemberInv, NoEntry, ReadsVerify
<1>4. StoreInv
  BY DEF StoreInv
<1>5. AnswersInv /\ VectorsInv /\ DoneInv /\ KeptInv
  BY DEF AnswersInv, VectorsInv, DoneInv, KeptInv, MapKept
<1> QED
  BY <1>1, <1>2, <1>3, <1>4, <1>5 DEF ExchangeInv

-----------------------------------------------------------------------------
(* The ways in which a call moves on: it writes one value, or has none to  *)
(* write, it reads one, or it ends the round.                              *)
Adds(k) ==
    /\ DOMAIN store' = DOMAIN store \cup {k}
    /\ \A x \in DOMAIN store \ {k} : store'[x] = store[x]

ValueOf(c, to) ==
    CASE round[c] = 0 -> [id |-> party_id[c]]
      [] round[c] = 2 -> MessageBs(c)[to]
      [] OTHER -> [of |-> c]

Writes(c) ==
    \E to \in Nat :
        /\ pc[c] = "send"
        /\ Adds(<<uuid[c], number[c], to, round[c]>>)
        /\ store'[<<uuid[c], number[c], to, round[c]>>] = ValueOf(c, to)
        /\ IF round[c] = 2 THEN to = peer[c] /\ to <= Signers ELSE to = All
        /\ \/ /\ pc'[c] = "poll" /\ peer'[c] = Other(c, 1)
              /\ round[c] = 2 => Other(c, peer[c] + 1) > Signers
           \/ /\ round[c] = 2 /\ pc'[c] = "send"
              /\ peer'[c] = Other(c, peer[c] + 1) /\ peer'[c] > peer[c]
        /\ ans_vec'[c] = ans_vec[c]
        /\ UNCHANGED <<round, vec>>

Skips(c) ==
    /\ pc[c] = "send" /\ round[c] = 2 /\ ~(peer[c] <= Signers)
    /\ pc'[c] = "poll" /\ peer'[c] = Other(c, 1)
    /\ ans_vec'[c] = ans_vec[c]
    /\ UNCHANGED <<round, store, vec>>

Reads(c) ==
    LET k == <<uuid[c], peer[c], IF round[c] = 2 THEN number[c] ELSE All, round[c]>> IN
    /\ pc[c] = "poll" /\ pc'[c] = "poll" /\ peer[c] <= Signers
    /\ k \in DOMAIN store
    /\ ans_vec'[c] = Append(ans_vec[c], store[k])
    /\ peer'[c] = Other(c, peer[c] + 1)
    /\ UNCHANGED <<round, store, vec>>

Collects(c) ==
    \/ CollectSigners(c) \/ CollectCommitments(c) \/ CollectMessageBs(c) \/ CollectDeltas(c)
    \/ OpenGammas(c) \/ CollectPhase5A(c) \/ OpenPhase5A(c) \/ CollectPhase5C(c)
    \/ OpenPhase5C(c) \/ OutputSignature(c)

Ends(c) ==
    /\ pc[c] = "poll" /\ peer[c] > Signers
    /\ peer'[c] = Other(c, 1)
    /\ ans_vec'[c] = <<>>
    /\ pc'[c] \in {"send", "done", "panicked"}
    /\ round'[c] \in 0 .. 9
    /\ \/ round'[c] = round[c] + 1 /\ pc'[c] = "send"
       \/ round'[c] = round[c] /\ round[c] = 9 /\ pc'[c] = "done"
       \/ round'[c] = round[c] /\ pc'[c] = "panicked"
    /\ \E v : vec' = [vec EXCEPT ![c][round[c]] = v]
    /\ UNCHANGED store
    /\ Collects(c)

OthersStay(c) ==
    /\ pc' = [pc EXCEPT ![c] = pc'[c]]
    /\ peer' = [peer EXCEPT ![c] = peer'[c]]
    /\ round' = [round EXCEPT ![c] = round'[c]]
    /\ ans_vec' = [ans_vec EXCEPT ![c] = ans_vec'[c]]
    /\ UNCHANGED <<parties, number, uuid, entry, candidate, restarts, live>>

LEMMA Moves ==
    ASSUME TypeInv, VectorTypeInv, NEW c \in Callers, Proceed(c)
    PROVE  OthersStay(c) /\ (Writes(c) \/ Skips(c) \/ Reads(c) \/ Ends(c))
<1> USE DEF TypeInv
<1>1. ASSUME BroadcastRound(c) PROVE OthersStay(c) /\ Writes(c)
  <2>1. PICK value : value = IF round[c] = 0 THEN [id |-> party_id[c]] ELSE [of |-> c]
    OBVIOUS
  <2>2. round[c] # 2 /\ Broadcast(c, value) /\ UNCHANGED vec /\ value = ValueOf(c, All)
    BY <1>1, <2>1 DEF BroadcastRound, ValueOf
  <2>3. OthersStay(c)
    BY <2>2 DEF Broadcast, OthersStay, VectorTypeInv
  <2>4. /\ Adds(<<uuid[c], number[c], All, round[c]>>)
        /\ store'[<<uuid[c], number[c], All, round[c]>>] = ValueOf(c, All)
    BY <2>2 DEF Broadcast, Key, Put, Adds
  <2>5. /\ pc[c] = "send" /\ pc'[c] = "poll" /\ peer'[c] = Other(c, 1)
        /\ round' = round /\ ans_vec' = ans_vec
    BY <2>2 DEF Broadcast
  <2>6. All \in Nat
    BY DEF All
  <2> QED
    BY <2>2, <2>3, <2>4, <2>5, <2>6 DEF Writes
<1>2. ASSUME SendMessageB(c) PROVE OthersStay(c) /\ (Writes(c) \/ Skips(c))
  <2>1. PICK value : value = MessageBs(c)
    OBVIOUS
  <2>2. round[c] = 2 /\ SendP2p(c, Signers, value) /\ UNCHANGED vec
    BY <1>2, <2>1 DEF SendMessageB
  <2>3. OthersStay(c)
    BY <2>2 DEF SendP2p, OthersStay, VectorTypeInv
  <2>4. Other(c, peer[c] + 1) \in Nat /\ Other(c, peer[c] + 1) > peer[c]
    BY DEF Other
  <2>5. /\ pc[c] = "send" /\ round' = round /\ ans_vec' = ans_vec
        /\ \/ /\ pc'[c] = "poll" /\ peer'[c] = Other(c, 1)
              /\ Other(c, peer[c] + 1) > Signers
           \/ /\ pc'[c] = "send" /\ peer'[c] = Other(c, peer[c] + 1)
              /\ Other(c, peer[c] + 1) <= Signers
    BY <2>2, <2>4, ThresholdAssumption DEF SendP2p, Signers
  <2>6. CASE peer[c] <= Signers
    <3>1. /\ Adds(<<uuid[c], number[c], peer[c], round[c]>>)
          /\ store'[<<uuid[c], number[c], peer[c], round[c]>>] = value[peer[c]]
      BY <2>2, <2>6 DEF SendP2p, Key, Put, Adds
    <3>2. value[peer[c]] = ValueOf(c, peer[c])
      BY <2>1, <2>2 DEF ValueOf
    <3> QED
      BY <2>2, <2>3, <2>4, <2>5, <2>6, <3>1, <3>2 DEF Writes
  <2>7. CASE ~(peer[c] <= Signers)
    <3>1. store' = store
      BY <2>2, <2>7 DEF SendP2p
    <3>2. ~(Other(c, peer[c] + 1) <= Signers)
      <4>1. Signers \in Nat /\ peer[c] \in Nat
        BY ThresholdAssumption DEF Signers
      <4> QED
        BY <2>4, <2>7, <4>1
    <3> QED
      BY <2>2, <2>3, <2>5, <2>7, <3>1, <3>2 DEF Skips
  <2> QED
    BY <2>6, <2>7
<1>3. ASSUME Read(c) PROVE OthersStay(c) /\ Reads(c)
  <2> DEFINE k == <<uuid[c], peer[c], IF round[c] = 2 THEN number[c] ELSE All, round[c]>>
  <2>1. /\ pc[c] = "poll" /\ peer[c] <= Signers /\ k \in DOMAIN store
        /\ ans_vec' = [ans_vec EXCEPT ![c] = Append(@, store[k])]
        /\ peer' = [peer EXCEPT ![c] = Other(c, @ + 1)]
        /\ UNCHANGED <<parties, pc, number, uuid, round, entry, candidate, store, restarts,
                       live, vec>>
    BY <1>3 DEF Read, Poll, Key
  <2>2. OthersStay(c)
    BY <2>1 DEF OthersStay, VectorTypeInv
  <2>3. ans_vec'[c] = Append(ans_vec[c], store[k]) /\ peer'[c] = Other(c, peer[c] + 1)
    BY <2>1 DEF VectorTypeInv
  <2> QED
    BY <2>1, <2>2, <2>3 DEF Reads
<1>4. ASSUME Collects(c) PROVE OthersStay(c) /\ Ends(c)
  <2>1. PICK r, v, verified : Keep(c, r, v, verified)
    BY <1>4 DEF Collects, CollectSigners, CollectCommitments, CollectMessageBs, CollectDeltas,
                OpenGammas, CollectPhase5A, OpenPhase5A, CollectPhase5C, OpenPhase5C,
                OutputSignature
  <2>2. round[c] = r /\ EndRound(c, Signers, 9, verified) /\ vec' = [vec EXCEPT ![c][r] = v]
    BY <2>1 DEF Keep
  <2>3. OthersStay(c)
    BY <2>2 DEF EndRound, OthersStay, VectorTypeInv
  <2>4. /\ pc[c] = "poll" /\ peer[c] > Signers /\ peer'[c] = Other(c, 1)
        /\ UNCHANGED store /\ ans_vec'[c] = <<>>
    BY <2>2 DEF EndRound, VectorTypeInv
  <2>5. pc'[c] = IF ~verified THEN "panicked" ELSE IF round[c] = 9 THEN "done" ELSE "send"
    BY <2>2 DEF EndRound
  <2>6. round'[c] = IF verified /\ round[c] # 9 THEN round[c] + 1 ELSE round[c]
    BY <2>2 DEF EndRound
  <2>7. round[c] \in 0 .. 9
    OBVIOUS
  <2>8. /\ pc'[c] \in {"send", "done", "panicked"} /\ round'[c] \in 0 .. 9
        /\ \/ round'[c] = round[c] + 1 /\ pc'[c] = "send"
           \/ round'[c] = round[c] /\ round[c] = 9 /\ pc'[c] = "done"
           \/ round'[c] = round[c] /\ pc'[c] = "panicked"
    BY <2>5, <2>6, <2>7
  <2>9. \E w : vec' = [vec EXCEPT ![c][round[c]] = w]
    BY <2>2
  <2> QED
    BY <1>4, <2>3, <2>4, <2>8, <2>9 DEF Ends
<1> QED
  BY <1>1, <1>2, <1>3, <1>4 DEF Proceed, Collects

(* What a step is to one caller. *)
Same(x) ==
    /\ pc'[x] = pc[x] /\ peer'[x] = peer[x] /\ round'[x] = round[x]
    /\ number'[x] = number[x] /\ uuid'[x] = uuid[x] /\ ans_vec'[x] = ans_vec[x]
    /\ vec'[x] = vec[x]

(* Its signup has no answer: the manager restarts. *)
Abandoned(x) == Restart /\ pc[x] = "write" /\ pc'[x] = "panicked"

LEMMA Frame ==
    ASSUME TypeInv, VectorTypeInv, [Next]_vars, NEW x \in Callers
    PROVE  \/ Proceed(x) /\ OthersStay(x) /\ (Writes(x) \/ Skips(x) \/ Reads(x) \/ Ends(x))
           \/ (SignUp(x) \/ Stop(x) \/ Abandoned(x)) /\ UNCHANGED vec
           \/ Same(x)
<1> USE DEF TypeInv
<1>1. ASSUME NEW c \in Callers, Proceed(c), c # x PROVE Same(x)
  <2>1. OthersStay(c) /\ (Writes(c) \/ Skips(c) \/ Reads(c) \/ Ends(c))
    BY <1>1, Moves
  <2>2. /\ pc'[x] = pc[x] /\ peer'[x] = peer[x] /\ round'[x] = round[x]
        /\ number'[x] = number[x] /\ uuid'[x] = uuid[x] /\ ans_vec'[x] = ans_vec[x]
    BY <1>1, <2>1 DEF OthersStay, VectorTypeInv
  <2>3. CASE UNCHANGED vec
    BY <2>2, <2>3 DEF Same
  <2>4. CASE Ends(c)
    BY <1>1, <2>2, <2>4 DEF Ends, Same, VectorTypeInv
  <2> QED
    BY <2>1, <2>3, <2>4 DEF Writes, Skips, Reads
<1>2. ASSUME NEW c \in Callers, SignUp(c) \/ Stop(c), UNCHANGED vec, c # x PROVE Same(x)
  <2>1. /\ pc'[x] = pc[x] /\ peer'[x] = peer[x] /\ round'[x] = round[x]
        /\ number'[x] = number[x] /\ uuid'[x] = uuid[x] /\ ans_vec'[x] = ans_vec[x]
    <3>1. CASE ReadSignup(c)
      BY <1>2, <3>1 DEF ReadSignup
    <3>2. CASE WriteSignup(c)
      BY <1>2, <3>2 DEF WriteSignup
    <3>3. CASE Stop(c)
      BY <1>2, <3>3 DEF Stop
    <3> QED
      BY <1>2, <3>1, <3>2, <3>3 DEF SignUp
  <2> QED
    BY <1>2, <2>1 DEF Same
<1>3. ASSUME Restart, UNCHANGED vec PROVE Same(x) \/ (Abandoned(x) /\ UNCHANGED vec)
  BY <1>3 DEF Restart, Abandoned, Same
<1>4. CASE UNCHANGED vars
  BY <1>4 DEF vars, exchangeVars, Same
<1>5. Proceed(x) => OthersStay(x) /\ (Writes(x) \/ Skips(x) \/ Reads(x) \/ Ends(x))
  BY Moves
<1> QED
  BY <1>1, <1>2, <1>3, <1>4, <1>5 DEF Next

LEMMA PartiesStay == ASSUME TypeInv, VectorTypeInv, [Next]_vars PROVE parties' = parties
<1>1. ASSUME NEW c \in Callers, Proceed(c) PROVE parties' = parties
  BY <1>1, Moves DEF OthersStay
<1> QED
  BY <1>1 DEF Next, SignUp, ReadSignup, WriteSignup, Stop, Restart, vars, exchangeVars

LEMMA TypeStep ==
    ASSUME TypeInv, VectorTypeInv, [Next]_vars
    PROVE  TypeInv'
<1> USE DEF TypeInv
<1>1. ASSUME NEW c \in Callers, Proceed(c) PROVE TypeInv'
  <2>1. OthersStay(c) /\ (Writes(c) \/ Skips(c) \/ Reads(c) \/ Ends(c))
    BY <1>1, Moves
  <2>2. \A i \in Nat : Other(c, i) \in Nat
    BY DEF Other
  <2>3. pc'[c] \in {"send", "poll", "done", "panicked"} /\ peer'[c] \in Nat /\ round'[c] \in 0 .. 9
    <3>1. CASE Writes(c)
      BY <2>2, <3>1 DEF Writes
    <3>2. CASE Reads(c)
      <4>1. pc'[c] = "poll" /\ peer'[c] = Other(c, peer[c] + 1) /\ round'[c] = round[c]
        BY <3>2 DEF Reads
      <4> QED
        BY <2>2, <4>1
    <3>3. CASE Ends(c)
      BY <2>2, <3>3 DEF Ends
    <3>4. CASE Skips(c)
      BY <2>2, <3>4 DEF Skips
    <3> QED
      BY <2>1, <3>1, <3>2, <3>3, <3>4
  <2> QED
    BY <2>1, <2>3 DEF OthersStay
<1>2. ASSUME NEW c \in Callers, SignUp(c) PROVE TypeInv'
  <2>1. CASE ReadSignup(c)
    <3>1. \E o \in {"write", "panicked"} : pc' = [pc EXCEPT ![c] = o]
      BY <2>1 DEF ReadSignup
    <3>2. \/ candidate' = candidate
          \/ \E p \in [number : Nat, uuid : Callers \cup {NoUuid}] :
                candidate' = [candidate EXCEPT ![c] = p]
      <4>1. [number |-> 1, uuid |-> c] \in [number : Nat, uuid : Callers \cup {NoUuid}]
        OBVIOUS
      <4>2. [entry EXCEPT !.number = @ + 1] \in [number : Nat, uuid : Callers \cup {NoUuid}]
        OBVIOUS
      <4> HIDE DEF TypeInv
      <4> QED
        BY <2>1, <4>1, <4>2 DEF ReadSignup
    <3>3. candidate' \in [Callers -> [number : Nat, uuid : Callers \cup {NoUuid}]]
      BY <3>2
    <3>4. live' \subseteq Callers
      BY <2>1 DEF ReadSignup
    <3> QED
      BY <2>1, <3>1, <3>3, <3>4 DEF ReadSignup
  <2>2. CASE WriteSignup(c)
    <3>1. candidate[c].number \in Nat /\ candidate[c].uuid \in Callers \cup {NoUuid}
      OBVIOUS
    <3> QED
      BY <2>2, <3>1 DEF WriteSignup
  <2> QED
    BY <1>2, <2>1, <2>2 DEF SignUp
<1>3. ASSUME NEW c \in Callers, Stop(c) PROVE TypeInv'
  BY <1>3 DEF Stop
<1>4. CASE Restart
  BY <1>4, RestartsAssumption DEF Restart, NoEntry
<1>5. CASE UNCHANGED vars
  BY <1>5 DEF vars, exchangeVars
<1> QED
  BY <1>1, <1>2, <1>3, <1>4, <1>5 DEF Next

LEMMA SignupStep ==
    ASSUME TypeInv, VectorTypeInv, SignupInv, [Next]_vars
    PROVE  SignupInv'
<1> USE CallersAssumption DEF TypeInv, SignupInv
<1>1. ASSUME NEW c \in Callers, Proceed(c) PROVE SignupInv'
  <2>1. OthersStay(c) /\ pc[c] \in {"send", "poll"} /\ pc'[c] \notin {"signup", "write"}
    BY <1>1, Moves DEF Writes, Skips, Reads, Ends
  <2>2. /\ UNCHANGED <<parties, number, uuid, entry, candidate, live>>
        /\ \A d \in Callers : d # c => pc'[d] = pc[d]
    BY <2>1 DEF OthersStay
  <2> QED
    BY <2>1, <2>2
<1>2. ASSUME NEW c \in Callers, ReadSignup(c) PROVE SignupInv'
  <2>1. /\ pc[c] = "signup" /\ UNCHANGED <<parties, uuid, entry>>
        /\ \A d \in Callers : d # c => pc'[d] = pc[d] /\ candidate'[d] = candidate[d]
        /\ live \subseteq live' /\ live' \subseteq live \cup {c}
    BY <1>2 DEF ReadSignup
  <2>2. \/ pc'[c] = "panicked"
        \/ /\ pc'[c] = "write" /\ candidate'[c].uuid \in live'
           /\ candidate'[c].number \in 1 .. parties[c]
    <3>1. parties[c] \in Nat \ {0}
      BY CountsAssumption
    <3>2. CASE entry = NoEntry
      BY <1>2, <3>1, <3>2 DEF ReadSignup
    <3>3. CASE entry # NoEntry /\ entry.number < parties[c]
      <4>1. /\ candidate'[c] = [entry EXCEPT !.number = @ + 1] /\ pc'[c] = "write"
            /\ live' = live
        BY <1>2, <3>3, <3>1 DEF ReadSignup
      <4>2. candidate'[c].number = entry.number + 1 /\ candidate'[c].uuid = entry.uuid
        BY <4>1
      <4> QED
        BY <3>1, <3>3, <4>1, <4>2
    <3>4. CASE entry # NoEntry /\ ~(entry.number < parties[c])
      BY <1>2, <3>1, <3>4 DEF ReadSignup
    <3> QED
      BY <3>2, <3>3, <3>4
  <2>3. \A d \in Callers : d # c /\ pc[d] = "signup" => d \notin live'
    BY <2>1
  <2> HIDE DEF TypeInv
  <2>4. entry' # NoEntry => entry'.uuid \in live'
    BY <2>1
  <2>5. \A d \in Callers : pc'[d] \in {"send", "poll"} => uuid'[d] # NoUuid
    BY <2>1, <2>2
  <2>6. ASSUME NEW d \in Callers, pc'[d] = "signup"
        PROVE  uuid'[d] = NoUuid /\ d \notin live' /\ \A e \in Callers : uuid'[e] # d
    <3>1. d # c /\ pc[d] = "signup"
      BY <2>1, <2>2, <2>6
    <3> QED
      BY <2>1, <2>3, <3>1
  <2>7. ASSUME NEW d \in Callers, pc'[d] = "write"
        PROVE  /\ uuid'[d] = NoUuid /\ candidate'[d].uuid \in live'
               /\ candidate'[d].number \in 1 .. parties'[d]
    <3>1. CASE d = c
      BY <2>1, <2>2, <2>7, <3>1
    <3>2. CASE d # c
      BY <2>1, <2>7, <3>2
    <3> QED
      BY <3>1, <3>2
  <2> QED
    BY <2>4, <2>5, <2>6, <2>7
<1>3. ASSUME NEW c \in Callers, WriteSignup(c) PROVE SignupInv'
  <2>1. /\ pc[c] = "write" /\ pc'[c] = "send" /\ uuid'[c] = candidate[c].uuid
        /\ candidate[c].uuid \in live /\ entry' = candidate[c]
        /\ UNCHANGED <<parties, candidate, live>>
        /\ \A d \in Callers : d # c => pc'[d] = pc[d] /\ uuid'[d] = uuid[d]
    BY <1>3 DEF WriteSignup
  <2>2. uuid'[c] # NoUuid
    BY <2>1
  <2>3. \A d \in Callers : pc[d] = "signup" => uuid'[c] # d
    BY <2>1
  <2> HIDE DEF TypeInv
  <2>4. entry' # NoEntry => entry'.uuid \in live'
    BY <2>1
  <2>5. \A d \in Callers : pc'[d] \in {"send", "poll"} => uuid'[d] # NoUuid
    BY <2>1, <2>2
  <2>6. ASSUME NEW d \in Callers, pc'[d] = "signup"
        PROVE  uuid'[d] = NoUuid /\ d \notin live' /\ \A e \in Callers : uuid'[e] # d
    <3>1. d # c /\ pc[d] = "signup"
      BY <2>1, <2>6
    <3> QED
      BY <2>1, <2>3, <3>1
  <2>7. ASSUME NEW d \in Callers, pc'[d] = "write"
        PROVE  /\ uuid'[d] = NoUuid /\ candidate'[d].uuid \in live'
               /\ candidate'[d].number \in 1 .. parties'[d]
    <3>1. d # c /\ pc[d] = "write"
      BY <2>1, <2>7
    <3> QED
      BY <2>1, <3>1
  <2> QED
    BY <2>4, <2>5, <2>6, <2>7
<1>4. ASSUME NEW c \in Callers, Stop(c) PROVE SignupInv'
  <2>1. pc[c] \in {"send", "poll"} /\ \E o \in {"stopped", "left"} : pc' = [pc EXCEPT ![c] = o]
    BY <1>4 DEF Stop
  <2>2. UNCHANGED <<parties, number, uuid, entry, candidate, live>>
    BY <1>4 DEF Stop
  <2> QED
    BY <2>1, <2>2
<1>5. CASE Restart
  BY <1>5 DEF Restart, NoEntry
<1>6. CASE UNCHANGED vars
  BY <1>6 DEF vars, exchangeVars
<1> QED
  BY <1>1, <1>2, <1>3, <1>4, <1>5, <1>6 DEF Next, SignUp

-----------------------------------------------------------------------------
(* A caller keeps its number and its computation. *)
LEMMA MembersStay ==
    ASSUME TypeInv, VectorTypeInv, SignupInv, [Next]_vars, NEW e \in Callers, uuid[e] # NoUuid
    PROVE  uuid'[e] = uuid[e] /\ number'[e] = number[e] /\ parties' = parties
<1> USE DEF TypeInv
<1>1. ASSUME NEW x \in Callers, Proceed(x) PROVE uuid'[e] = uuid[e] /\ number'[e] = number[e] /\ parties' = parties
  BY <1>1, Moves DEF OthersStay
<1>2. ASSUME NEW x \in Callers, SignUp(x) PROVE uuid'[e] = uuid[e] /\ number'[e] = number[e] /\ parties' = parties
  <2>1. x # e
    BY <1>2 DEF SignUp, ReadSignup, WriteSignup, SignupInv
  <2> QED
    BY <1>2, <2>1 DEF SignUp, ReadSignup, WriteSignup
<1>3. ASSUME NEW x \in Callers, Stop(x) PROVE uuid'[e] = uuid[e] /\ number'[e] = number[e] /\ parties' = parties
  BY <1>3 DEF Stop
<1>4. CASE Restart
  BY <1>4 DEF Restart
<1>5. CASE UNCHANGED vars
  BY <1>5 DEF vars, exchangeVars
<1> QED
  BY <1>1, <1>2, <1>3, <1>4, <1>5 DEF Next

LEMMA PartyStays ==
    ASSUME TypeInv, VectorTypeInv, SignupInv, [Next]_vars,
           NEW c \in Callers, NEW d \in Callers, NEW n, PartyAt(c, n, d)
    PROVE  PartyAt(c, n, d)'
BY MembersStay DEF PartyAt, SameRun

(* Two that have one number keep it. *)
LEMMA DistinctBefore ==
    ASSUME TypeInv, VectorTypeInv, SignupInv, [Next]_vars, DistinctNumbers'
    PROVE  DistinctNumbers
BY MembersStay DEF DistinctNumbers, SameRun

LEMMA OneParty ==
    ASSUME DistinctNumbers, NEW c \in Callers, NEW d \in Callers, NEW e \in Callers, NEW n,
           PartyAt(c, n, d), PartyAt(c, n, e)
    PROVE  d = e
BY DEF DistinctNumbers, PartyAt, SameRun

LEMMA AlignedStays ==
    ASSUME TypeInv, VectorTypeInv, SignupInv, [Next]_vars, NEW c \in Callers, NEW v
    PROVE  /\ SignersAligned(c, v) => SignersAligned(c, v)'
           /\ Aligned(c, v) => Aligned(c, v)'
           /\ OthersAligned(c, v) => OthersAligned(c, v)'
<1>1. ASSUME NEW n, NEW d \in Callers, PartyAt(c, n, d)
      PROVE  PartyAt(c, n, d)' /\ number'[c] = number[c]
  <2>1. uuid[c] # NoUuid
    BY <1>1 DEF PartyAt, SameRun
  <2> QED
    BY <1>1, <2>1, PartyStays, MembersStay
<1>2. ASSUME SignersAligned(c, v) PROVE SignersAligned(c, v)'
  BY <1>1, <1>2 DEF SignersAligned
<1>3. ASSUME Aligned(c, v) PROVE Aligned(c, v)'
  <2>1. \A n \in 1 .. Signers : v[n] \in Callers
    BY <1>3 DEF Aligned
  <2> QED
    BY <1>1, <1>3, <2>1 DEF Aligned
<1>4. ASSUME OthersAligned(c, v) PROVE OthersAligned(c, v)'
  <2>1. ASSUME NEW j \in 1 .. Threshold PROVE PartyAt(c, Nth(c, j), v[j])'
    <3>1. v[j] \in Callers /\ PartyAt(c, Nth(c, j), v[j])
      BY <1>4 DEF OthersAligned
    <3>2. PICK n, d : n = Nth(c, j) /\ d = v[j]
      OBVIOUS
    <3>3. PartyAt(c, n, d)' /\ number'[c] = number[c]
      BY <1>1, <3>1, <3>2
    <3> QED
      BY <3>2, <3>3 DEF Nth
  <2> QED
    BY <1>4, <2>1 DEF OthersAligned
<1> QED
  BY <1>2, <1>3, <1>4

LEMMA WrittenStays ==
    ASSUME TypeInv, VectorTypeInv, SignupInv, [Next]_vars,
           NEW d \in Callers, NEW to, NEW r \in 0 .. 9, NEW v, Written(d, to, r, v)
    PROVE  Written(d, to, r, v)'
<1>1. ASSUME IsMessageB(d, to, v) PROVE IsMessageB(d, to, v)'
  BY <1>1, PartyStays, AlignedStays DEF IsMessageB
<1> QED
  BY <1>1 DEF Written

(* What a caller has written, it has written; what one has sent, it has    *)
(* sent.                                                                   *)
LEMMA WroteStays ==
    ASSUME TypeInv, VectorTypeInv, SignupInv, [Next]_vars,
           NEW d \in Callers, NEW to \in Nat, NEW r \in 0 .. 9, Wrote(d, to, r)
    PROVE  Wrote(d, to, r)' /\ uuid'[d] = uuid[d] /\ number'[d] = number[d]
<1> USE DEF TypeInv
<1>1. ASSUME NEW c \in Callers, Proceed(c)
      PROVE  Wrote(d, to, r)' /\ uuid'[d] = uuid[d] /\ number'[d] = number[d]
  <2>1. OthersStay(c) /\ (Writes(c) \/ Skips(c) \/ Reads(c) \/ Ends(c))
    BY <1>1, Moves
  <2>2. uuid' = uuid /\ number' = number
    BY <2>1 DEF OthersStay
  <2>3. CASE c # d
    <3>1. pc'[d] = pc[d] /\ peer'[d] = peer[d] /\ round'[d] = round[d]
      BY <2>1, <2>3 DEF OthersStay
    <3> QED
      BY <2>2, <3>1 DEF Wrote
  <2>4. CASE c = d /\ Writes(c)
    <3>1. /\ pc[d] = "send" /\ round'[d] = round[d]
          /\ pc'[d] = "poll" \/ (pc'[d] = "send" /\ peer'[d] \in Nat /\ peer'[d] > peer[d])
      BY <2>4 DEF Writes, Other
    <3> QED
      BY <2>2, <3>1 DEF Wrote
  <2>5. CASE c = d /\ Reads(c)
    BY <2>2, <2>5 DEF Reads, Wrote
  <2>6. CASE c = d /\ Ends(c)
    <3>1. /\ round[d] \in 0 .. 9 /\ round'[d] \in 0 .. 9
          /\ \/ round'[d] = round[d] + 1
             \/ round'[d] = round[d] /\ pc'[d] \notin {"send", "stopped"}
      BY <2>6 DEF Ends
    <3> QED
      BY <2>2, <3>1 DEF Wrote
  <2>7. CASE c = d /\ Skips(c)
    BY <2>2, <2>7 DEF Skips, Wrote
  <2> QED
    BY <2>1, <2>3, <2>4, <2>5, <2>6, <2>7
<1>2. ASSUME NEW c \in Callers, SignUp(c)
      PROVE  Wrote(d, to, r)' /\ uuid'[d] = uuid[d] /\ number'[d] = number[d]
  <2>1. c # d
    BY <1>2 DEF SignUp, ReadSignup, WriteSignup, SignupInv, Wrote
  <2>2. /\ pc'[d] = pc[d] /\ peer'[d] = peer[d] /\ round'[d] = round[d]
        /\ uuid'[d] = uuid[d] /\ number'[d] = number[d]
    BY <1>2, <2>1 DEF SignUp, ReadSignup, WriteSignup
  <2> QED
    BY <2>2 DEF Wrote
<1>3. ASSUME NEW c \in Callers, Stop(c)
      PROVE  Wrote(d, to, r)' /\ uuid'[d] = uuid[d] /\ number'[d] = number[d]
  BY <1>3 DEF Stop, Wrote
<1>4. CASE Restart
  BY <1>4 DEF Restart, Wrote, SignupInv
<1>5. CASE UNCHANGED vars
  BY <1>5 DEF vars, exchangeVars, Wrote
<1> QED
  BY <1>1, <1>2, <1>3, <1>4, <1>5 DEF Next

LEMMA RoundGrows ==
    ASSUME TypeInv, VectorTypeInv, [Next]_vars, NEW c \in Callers
    PROVE  round'[c] >= round[c]
<1>1. round[c] \in 0 .. 9
  BY DEF TypeInv
<1>2. round'[c] = round[c] \/ Ends(c)
  BY Frame DEF Same, SignUp, ReadSignup, WriteSignup, Stop, Abandoned, Restart, Writes, Skips,
               Reads
<1>3. Ends(c) => round'[c] \in {round[c], round[c] + 1}
  BY DEF Ends
<1> QED
  BY <1>1, <1>2, <1>3

LEMMA MemberStep ==
    ASSUME TypeInv, VectorTypeInv, SignupInv, MemberInv, [Next]_vars
    PROVE  MemberInv'
<1> SUFFICES ASSUME NEW c \in Callers
             PROVE  /\ uuid'[c] # NoUuid => number'[c] \in 1 .. parties[c]
                    /\ uuid'[c] = NoUuid => number'[c] = 0 /\ round'[c] = 0
                    /\ round'[c] > 0 => number'[c] <= Signers
                    /\ pc'[c] \in {"send", "poll"} => peer'[c] >= 1 /\ peer'[c] # number'[c]
  BY PartiesStay DEF MemberInv
<1> USE DEF TypeInv, MemberInv
<1>1. CASE Same(c)
  BY <1>1 DEF Same
<1>2. CASE OthersStay(c) /\ (Writes(c) \/ Skips(c) \/ Reads(c) \/ Ends(c))
  <2>1. uuid'[c] = uuid[c] /\ number'[c] = number[c] /\ uuid[c] # NoUuid
    BY <1>2 DEF OthersStay, Writes, Skips, Reads, Ends, SignupInv
  <2>2. \A i \in Nat : i >= 1 => Other(c, i) >= 1 /\ Other(c, i) # number[c]
    BY DEF Other
  <2>3. pc[c] \in {"send", "poll"} /\ (peer'[c] = Other(c, 1) \/ peer'[c] = Other(c, peer[c] + 1))
    BY <1>2 DEF Writes, Skips, Reads, Ends
  <2>4. peer'[c] >= 1 /\ peer'[c] # number'[c]
    <3>1. 1 \in Nat /\ peer[c] + 1 \in Nat /\ peer[c] + 1 >= 1
      OBVIOUS
    <3> HIDE DEF TypeInv, MemberInv
    <3> QED
      BY <2>1, <2>2, <2>3, <3>1
  <2>5. round'[c] > 0 => number[c] <= Signers
    <3>1. CASE round'[c] = round[c]
      BY <2>3, <3>1
    <3>2. CASE round'[c] # round[c] /\ round[c] > 0
      BY <2>3, <3>2
    <3>3. CASE round'[c] # round[c] /\ round[c] = 0
      <4>1. Ends(c)
        BY <1>2, <3>3 DEF Writes, Skips, Reads
      <4>2. CollectSigners(c) /\ round'[c] = 1
        BY <3>3, <4>1
           DEF Ends, Collects, CollectCommitments, CollectMessageBs, CollectDeltas, OpenGammas,
               CollectPhase5A, OpenPhase5A, CollectPhase5C, OpenPhase5C, OutputSignature, Keep
      <4>3. EndRound(c, Signers, 9, number[c] <= Signers)
        BY <4>2 DEF CollectSigners, Keep
      <4> QED
        BY <4>2, <4>3 DEF EndRound
    <3> QED
      BY <3>1, <3>2, <3>3
  <2> QED
    BY <2>1, <2>4, <2>5
<1>3. CASE ReadSignup(c)
  <2>1. UNCHANGED <<number, uuid, round>> /\ pc'[c] \in {"write", "panicked"}
    BY <1>3 DEF ReadSignup
  <2> QED
    BY <2>1
<1>4. CASE WriteSignup(c)
  <2>1. /\ candidate[c].number \in 1 .. parties[c] /\ candidate[c].uuid # NoUuid
        /\ number'[c] = candidate[c].number /\ uuid'[c] = candidate[c].uuid
        /\ peer'[c] = IF number'[c] = 1 THEN 2 ELSE 1
        /\ round'[c] = 0
    BY <1>4, CallersAssumption DEF WriteSignup, SignupInv
  <2> QED
    BY <2>1
<1>5. CASE Stop(c) \/ Abandoned(c)
  BY <1>5 DEF Stop, Abandoned, Restart
<1> QED
  BY <1>1, <1>2, <1>3, <1>4, <1>5, Frame DEF SignUp

-----------------------------------------------------------------------------
(* What is written. *)

LEMMA OthersAre ==
    ASSUME NEW c \in Callers, number[c] \in 1 .. Signers, NEW v, Aligned(c, v),
           NEW w, w = Without(v, number[c])
    PROVE  OthersAligned(c, w)
<1>1. PICK S, me : S = Callers /\ me = number[c]
  OBVIOUS
<1>2. v \in Seq(S) /\ me \in 1 .. Len(v) /\ Len(v) = Threshold + 1 /\ w = Without(v, me)
  BY <1>1 DEF Aligned, Signers
<1>3. Removed(S, v, me, w)
  BY <1>2, WithoutIs, Zenon
<1>4. w \in Seq(Callers) /\ Len(w) = Threshold
  BY <1>1, <1>2, <1>3, ThresholdAssumption DEF Removed
<1>5. ASSUME NEW j \in 1 .. Threshold PROVE PartyAt(c, Nth(c, j), w[j])
  <2>1. Nth(c, j) \in 1 .. Signers
    BY ThresholdAssumption DEF Nth, Place, Signers
  <2>2. w[j] = v[Nth(c, j)]
    BY <1>1, <1>2, <1>3, ThresholdAssumption DEF Removed, Nth
  <2> QED
    BY <2>1, <2>2 DEF Aligned
<1> QED
  BY <1>4, <1>5 DEF OthersAligned

(* The MessageB for party `to` is made for the caller that has this        *)
(* number, and answers the MessageA of this caller.                        *)
LEMMA MessageBIs ==
    ASSUME TypeInv, SignupInv, VectorsInv, NEW c \in Callers, round[c] = 2,
           number[c] \in 1 .. Signers, NEW to \in 1 .. Signers \ {number[c]}
    PROVE  IsMessageB(c, to, MessageBs(c)[to])
<1>1. PICK s, m_a_vec : s = SignersVec(c) /\ m_a_vec = Others(c, 1)
  OBVIOUS
<1>2. SignersAligned(c, s) /\ Aligned(c, vec[c][1])
  BY <1>1, ThresholdAssumption DEF VectorsInv, Filled, SignersVec, Signers
<1>3. OthersAligned(c, m_a_vec)
  <2>1. PICK v : v = vec[c][1]
    OBVIOUS
  <2>2. m_a_vec = Without(v, number[c])
    BY <1>1, <2>1 DEF Others
  <2> QED
    BY <1>2, <2>1, <2>2, OthersAre
<1>4. PICK e \in Callers : PartyAt(c, to, e) /\ s[to] = party_id[e]
  BY <1>2 DEF SignersAligned
<1>5. PICK j \in 1 .. Threshold :
         j = (IF to < number[c] THEN to ELSE to - 1) /\ to = Nth(c, j)
  BY ThresholdAssumption DEF Signers, Nth, Place
<1>6. m_a_vec[j] \in Callers /\ PartyAt(c, to, m_a_vec[j])
  BY <1>3, <1>5 DEF OthersAligned
<1>7. MessageBs(c)[to] = [of |-> c, ek |-> s[to], on |-> m_a_vec[j], signers |-> s]
  BY <1>1, <1>5 DEF MessageBs
<1>8. s \in Seq(PartyIds)
  BY <1>2 DEF SignersAligned
<1> QED
  BY <1>2, <1>4, <1>6, <1>7, <1>8 DEF IsMessageB

LEMMA ValueWritten ==
    ASSUME TypeInv, SignupInv, MemberInv, VectorsInv, NEW c \in Callers, pc[c] = "send",
           NEW to \in Nat, round[c] = 2 => to = peer[c] /\ to <= Signers
    PROVE  Written(c, to, round[c], ValueOf(c, to))
<1>1. CASE round[c] # 2
  BY <1>1 DEF Written, ValueOf
<1>2. CASE round[c] = 2
  <2>1. number[c] \in 1 .. Signers
    BY <1>2, ThresholdAssumption DEF MemberInv, SignupInv, TypeInv, Signers
  <2>2. to \in 1 .. Signers \ {number[c]}
    BY <1>2, ThresholdAssumption DEF MemberInv, TypeInv, Signers
  <2>3. IsMessageB(c, to, MessageBs(c)[to])
    BY <1>2, <2>1, <2>2, MessageBIs
  <2> QED
    BY <1>2, <2>3 DEF Written, ValueOf
<1> QED
  BY <1>1, <1>2

LEMMA WrittenType ==
    ASSUME NEW d \in Callers, NEW to, NEW r \in 0 .. 9, NEW v, Written(d, to, r, v)
    PROVE  v \in Value
<1>1. \A e \in Callers : party_id[e] \in PartyIds
  BY DEF PartyIds
<1>2. CASE r = 0
  BY <1>1, <1>2 DEF Written, Value, PartyId
<1>3. CASE r = 2
  <2>1. PICK e \in Callers, f \in Callers, s \in Seq(PartyIds) :
          v = [of |-> d, ek |-> party_id[e], on |-> f, signers |-> s]
    BY <1>3 DEF Written, IsMessageB
  <2> QED
    BY <1>1, <2>1 DEF Value, MessageB
<1>4. CASE r # 0 /\ r # 2
  BY <1>4 DEF Written, Value, Made
<1> QED
  BY <1>2, <1>3, <1>4

LEMMA StoreStep ==
    ASSUME TypeInv, VectorTypeInv, SignupInv, MemberInv, VectorsInv, StoreInv, [Next]_vars
    PROVE  StoreInv'
<1>1. \A k, v : Stored(k, v) => Stored(k, v)'
  <2> SUFFICES ASSUME NEW k, NEW v, NEW d \in Callers, NEW to \in Nat, NEW r \in 0 .. 9,
                      k = <<uuid[d], number[d], to, r>>, Wrote(d, to, r), Written(d, to, r, v)
               PROVE  k = <<uuid'[d], number'[d], to, r>> /\ Wrote(d, to, r)' /\ Written(d, to, r, v)'
    BY DEF Stored
  <2> QED
    BY WroteStays, WrittenStays
<1>2. ASSUME NEW k \in DOMAIN store, k \in DOMAIN store', store'[k] = store[k]
      PROVE  Stored(k, store[k])'
  <2>1. PICK v : v = store[k]
    OBVIOUS
  <2>2. Stored(k, v)'
    BY <1>1, <2>1 DEF StoreInv
  <2> QED
    BY <1>2, <2>1, <2>2
<1>3. ASSUME UNCHANGED store PROVE StoreInv'
  BY <1>2, <1>3 DEF StoreInv
<1>4. ASSUME NEW c \in Callers, Proceed(c), Writes(c), OthersStay(c) PROVE StoreInv'
  <2>1. PICK to \in Nat :
          /\ pc[c] = "send"
          /\ Adds(<<uuid[c], number[c], to, round[c]>>)
          /\ store'[<<uuid[c], number[c], to, round[c]>>] = ValueOf(c, to)
          /\ round[c] = 2 => to = peer[c] /\ to <= Signers
          /\ \/ pc'[c] = "poll" /\ peer'[c] = Other(c, 1)
             \/ /\ round[c] = 2 /\ pc'[c] = "send"
                /\ peer'[c] = Other(c, peer[c] + 1) /\ peer'[c] > peer[c]
          /\ round' = round
    BY <1>4 DEF Writes
  <2>2. PICK k : k = <<uuid[c], number[c], to, round[c]>>
    OBVIOUS
  <2>3. PICK r \in 0 .. 9 : r = round[c]
    BY DEF TypeInv
  <2>10. PICK v : v = ValueOf(c, to)
    OBVIOUS
  <2>4. uuid'[c] = uuid[c] /\ number'[c] = number[c] /\ uuid[c] # NoUuid
    BY <1>4, <2>1 DEF OthersStay, SignupInv
  <2>5. Wrote(c, to, r)'
    BY <2>1, <2>3, <2>4 DEF Wrote, TypeInv
  <2>6. Written(c, to, r, v)'
    BY <2>1, <2>3, <2>4, <2>10, ValueWritten, WrittenStays
  <2>7. Stored(k, v)'
    BY <2>2, <2>3, <2>4, <2>5, <2>6 DEF Stored
  <2>8. store'[k] = v /\ DOMAIN store' = DOMAIN store \cup {k}
        /\ \A x \in DOMAIN store \ {k} : store'[x] = store[x]
    BY <2>1, <2>2, <2>10 DEF Adds
  <2>9. ASSUME NEW x \in DOMAIN store' PROVE Stored(x, store[x])'
    <3>1. CASE x = k
      BY <2>7, <2>8, <3>1
    <3>2. CASE x # k
      BY <1>2, <2>8, <3>2
    <3> QED
      BY <3>1, <3>2
  <2> QED
    BY <2>9 DEF StoreInv
<1>5. ASSUME NEW c \in Callers, Proceed(c) PROVE StoreInv'
  BY <1>3, <1>4, <1>5, Moves DEF Skips, Reads, Ends
<1>6. ASSUME NEW c \in Callers, SignUp(c) \/ Stop(c) PROVE StoreInv'
  BY <1>3, <1>6 DEF SignUp, ReadSignup, WriteSignup, Stop
<1>7. CASE Restart
  BY <1>7 DEF Restart, StoreInv
<1>8. CASE UNCHANGED vars
  BY <1>3, <1>8 DEF vars, exchangeVars
<1> QED
  BY <1>5, <1>6, <1>7, <1>8 DEF Next

-----------------------------------------------------------------------------
(* What is read. *)

LEMMA AnswerStays ==
    ASSUME TypeInv, VectorTypeInv, SignupInv, [Next]_vars,
           NEW c \in Callers, NEW n, NEW r \in 0 .. 9, NEW v, Answer(c, n, r, v)
    PROVE  Answer(c, n, r, v)'
<1>1. PICK to : to = IF r = 2 THEN number[c] ELSE All
  OBVIOUS
<1>2. PICK d \in Callers : PartyAt(c, n, d) /\ round[d] >= r /\ Written(d, to, r, v)
  BY <1>1 DEF Answer
<1>3. uuid[c] # NoUuid
  BY <1>2 DEF PartyAt, SameRun
<1>4. PartyAt(c, n, d)' /\ Written(d, to, r, v)' /\ number'[c] = number[c]
  BY <1>2, <1>3, PartyStays, WrittenStays, MembersStay
<1>5. round'[d] >= r
  <2>1. round'[d] \in 0 .. 9 /\ round[d] \in 0 .. 9
    BY TypeStep DEF TypeInv
  <2> QED
    BY <1>2, <2>1, RoundGrows
<1> QED
  BY <1>1, <1>4, <1>5 DEF Answer

LEMMA ReadIsAnswer ==
    ASSUME TypeInv, SignupInv, StoreInv, NEW c \in Callers, Reads(c), NEW v,
           v = store[<<uuid[c], peer[c], IF round[c] = 2 THEN number[c] ELSE All, round[c]>>]
    PROVE  Answer(c, peer[c], round[c], v)
<1>1. PICK k : k = <<uuid[c], peer[c], IF round[c] = 2 THEN number[c] ELSE All, round[c]>>
  OBVIOUS
<1>2. k \in DOMAIN store /\ v = store[k] /\ uuid[c] # NoUuid
  BY <1>1 DEF Reads, SignupInv
<1>3. PICK d \in Callers, to \in Nat, r \in 0 .. 9 :
         k = <<uuid[d], number[d], to, r>> /\ Wrote(d, to, r) /\ Written(d, to, r, v)
  BY <1>2 DEF StoreInv, Stored
<1>4. /\ uuid[d] = uuid[c] /\ number[d] = peer[c] /\ r = round[c]
      /\ to = IF round[c] = 2 THEN number[c] ELSE All
  BY <1>1, <1>3
<1>5. round[d] >= round[c]
  BY <1>3, <1>4 DEF Wrote, TypeInv
<1> QED
  BY <1>2, <1>3, <1>4, <1>5 DEF Answer, PartyAt, SameRun

LEMMA AnswersStep ==
    ASSUME TypeInv, VectorTypeInv, SignupInv, MemberInv, StoreInv, AnswersInv, [Next]_vars
    PROVE  AnswersInv'
<1> SUFFICES ASSUME NEW c \in Callers
             PROVE  (/\ pc[c] \in {"signup", "write", "send"} => ans_vec[c] = <<>>
                     /\ pc[c] = "poll" =>
                          /\ peer[c] = Nth(c, Len(ans_vec[c]) + 1)
                          /\ Len(ans_vec[c]) <= Signers
                          /\ number[c] <= Signers => Len(ans_vec[c]) <= Threshold
                          /\ \A j \in 1 .. Len(ans_vec[c]) :
                               Answer(c, Nth(c, j), round[c], ans_vec[c][j]))'
  BY DEF AnswersInv
<1>1. /\ number[c] \in Nat /\ peer[c] \in Nat /\ round[c] \in 0 .. 9
      /\ Threshold \in Nat /\ Signers = Threshold + 1
  BY ThresholdAssumption DEF TypeInv, Signers
<1>2. CASE Same(c)
  <2>1. CASE pc[c] = "poll"
    <3>1. /\ number'[c] = number[c] /\ ans_vec'[c] = ans_vec[c] /\ round'[c] = round[c]
      BY <1>2 DEF Same
    <3>2. ASSUME NEW j \in 1 .. Len(ans_vec[c])
          PROVE  Answer(c, Nth(c, j), round[c], ans_vec[c][j])'
      <4>1. PICK n, r, v : n = Nth(c, j) /\ r = round[c] /\ v = ans_vec[c][j]
        OBVIOUS
      <4>2. Answer(c, n, r, v)'
        BY <1>1, <2>1, <4>1, AnswerStays DEF AnswersInv
      <4> QED
        BY <3>1, <4>1, <4>2 DEF Nth
    <3> QED
      BY <1>1, <1>2, <2>1, <3>1, <3>2 DEF Same, AnswersInv, Nth
  <2> QED
    BY <1>2, <2>1 DEF Same, AnswersInv
<1>3. CASE OthersStay(c) /\ (Writes(c) \/ Skips(c))
  <2>1. /\ pc[c] = "send" /\ ans_vec'[c] = ans_vec[c] /\ number'[c] = number[c]
        /\ pc'[c] = "send" \/ (pc'[c] = "poll" /\ peer'[c] = Other(c, 1))
    BY <1>3 DEF OthersStay, Writes, Skips
  <2>2. ans_vec'[c] = <<>>
    BY <2>1 DEF AnswersInv
  <2>3. number[c] >= 1
    BY <1>1, <2>1 DEF SignupInv, MemberInv
  <2>4. Other(c, 1) = Nth(c, 1)
    BY <1>1, <2>3 DEF Nth, Place, Other
  <2>5. Len(ans_vec'[c]) = 0 /\ Nth(c, 1)' = Nth(c, 1)
    BY <2>1, <2>2 DEF Nth
  <2> QED
    BY <1>1, <2>1, <2>2, <2>4, <2>5
<1>4. CASE OthersStay(c) /\ Reads(c)
  <2> DEFINE l == Len(ans_vec[c])
  <2>1. PICK v : v = store[<<uuid[c], peer[c], IF round[c] = 2 THEN number[c] ELSE All, round[c]>>]
    OBVIOUS
  <2>2. /\ pc[c] = "poll" /\ pc'[c] = "poll" /\ peer[c] <= Signers
        /\ ans_vec'[c] = Append(ans_vec[c], v) /\ peer'[c] = Other(c, peer[c] + 1)
        /\ number'[c] = number[c] /\ round'[c] = round[c]
    BY <1>4, <2>1 DEF OthersStay, Reads
  <2>3. /\ peer[c] = Nth(c, l + 1) /\ l \in Nat /\ l <= Signers
        /\ \A j \in 1 .. l : Answer(c, Nth(c, j), round[c], ans_vec[c][j])
    <3>1. ans_vec[c] \in Seq(Value)
      BY DEF VectorTypeInv
    <3> QED
      BY <2>2, <3>1 DEF AnswersInv
  <2>5. l + 1 <= Signers /\ (number[c] <= Signers => l + 1 <= Threshold)
    BY <1>1, <2>2, <2>3 DEF Nth, Place
  <2>6. peer'[c] = Nth(c, l + 2)
    BY <1>1, <2>2, <2>3 DEF Nth, Place, Other
  <2>7. /\ Len(ans_vec'[c]) = l + 1 /\ ans_vec'[c][l + 1] = v
        /\ \A j \in 1 .. l : ans_vec'[c][j] = ans_vec[c][j]
    BY <2>2 DEF VectorTypeInv
  <2>8. ASSUME NEW j \in 1 .. l + 1 PROVE Answer(c, Nth(c, j), round[c], ans_vec[c][j])'
    <3>1. PICK n, r, w : n = Nth(c, j) /\ r = round[c] /\ w = ans_vec'[c][j]
      OBVIOUS
    <3>2. Answer(c, n, r, w)
      <4>1. CASE j = l + 1
        BY <1>4, <2>1, <2>3, <2>7, <3>1, <4>1, ReadIsAnswer
      <4>2. CASE j \in 1 .. l
        BY <2>3, <2>7, <3>1, <4>2
      <4> QED
        BY <2>3, <4>1, <4>2
    <3>3. Answer(c, n, r, w)'
      BY <1>1, <3>1, <3>2, AnswerStays
    <3> QED
      BY <2>2, <3>1, <3>3 DEF Nth
  <2> QED
    BY <1>1, <2>2, <2>3, <2>5, <2>6, <2>7, <2>8 DEF Nth
<1>5. CASE OthersStay(c) /\ Ends(c)
  BY <1>5 DEF Ends
<1>6. CASE SignUp(c)
  <2>1. /\ pc[c] \in {"signup", "write"} /\ pc'[c] \in {"write", "send", "panicked"}
        /\ ans_vec' = ans_vec
    BY <1>6 DEF SignUp, ReadSignup, WriteSignup, TypeInv
  <2> QED
    BY <2>1 DEF AnswersInv
<1>7. CASE Stop(c) \/ Abandoned(c)
  BY <1>7 DEF Stop, Abandoned, TypeInv
<1> QED
  BY <1>2, <1>3, <1>4, <1>5, <1>6, <1>7, Frame

(* When all have answered, the caller's own value completes the vector. *)
LEMMA AllAnswered ==
    ASSUME TypeInv, VectorTypeInv, SignupInv, MemberInv, AnswersInv,
           NEW c \in Callers, pc[c] = "poll", peer[c] > Signers, number[c] <= Signers
    PROVE  /\ Len(ans_vec[c]) = Threshold
           /\ number[c] \in 1 .. Signers /\ PartyAt(c, number[c], c)
           /\ \A j \in 1 .. Threshold : Answer(c, Nth(c, j), round[c], ans_vec[c][j])
<1>1. /\ Threshold \in Nat /\ Signers = Threshold + 1 /\ number[c] \in Nat
      /\ number[c] \in 1 .. Signers /\ PartyAt(c, number[c], c)
  BY ThresholdAssumption DEF SignupInv, MemberInv, TypeInv, PartyAt, SameRun, Signers
<1>2. /\ peer[c] = Nth(c, Len(ans_vec[c]) + 1) /\ Len(ans_vec[c]) <= Threshold
      /\ \A j \in 1 .. Len(ans_vec[c]) : Answer(c, Nth(c, j), round[c], ans_vec[c][j])
      /\ Len(ans_vec[c]) \in Nat
  <2>1. ans_vec[c] \in Seq(Value)
    BY DEF VectorTypeInv
  <2> QED
    BY <2>1 DEF AnswersInv
<1>3. Len(ans_vec[c]) = Threshold
  BY <1>1, <1>2 DEF Nth, Place
<1> QED
  BY <1>1, <1>2, <1>3

LEMMA WithOwnSigners ==
    ASSUME TypeInv, VectorTypeInv, SignupInv, MemberInv, AnswersInv,
           NEW c \in Callers, pc[c] = "poll", peer[c] > Signers, number[c] <= Signers,
           round[c] = 0, NEW w,
           w = FormatVec([j \in 1 .. Len(ans_vec[c]) |-> ans_vec[c][j].id],
                         number[c], party_id[c])
    PROVE  SignersAligned(c, w)
<1>1. PICK ans, me, own : ans = ans_vec[c] /\ me = number[c] /\ own = party_id[c]
  OBVIOUS
<1>2. /\ Len(ans) = Threshold /\ me \in 1 .. Signers /\ PartyAt(c, me, c)
      /\ \A j \in 1 .. Threshold : Answer(c, Nth(c, j), 0, ans[j])
      /\ Threshold \in Nat /\ Signers = Threshold + 1
  BY <1>1, AllAnswered, ThresholdAssumption DEF Signers
<1>3. PICK ids : ids = [j \in 1 .. Len(ans) |-> ans[j].id]
  OBVIOUS
<1>4. ASSUME NEW j \in 1 .. Threshold
      PROVE  \E d \in Callers : PartyAt(c, Nth(c, j), d) /\ ids[j] = party_id[d]
  <2>1. PICK d \in Callers : PartyAt(c, Nth(c, j), d) /\ ans[j] = [id |-> party_id[d]]
    BY <1>2 DEF Answer, Written
  <2> QED
    BY <1>2, <1>3, <2>1
<1>5. PICK S : S = PartyIds
  OBVIOUS
<1>6. ids \in Seq(S) /\ Len(ids) = Threshold /\ own \in S
  <2>1. \A d \in Callers : party_id[d] \in S
    BY <1>5 DEF PartyIds
  <2>2. \A j \in 1 .. Threshold : ids[j] \in S
    BY <1>4, <2>1
  <2>3. ids \in [1 .. Threshold -> S]
    BY <1>2, <1>3, <2>2
  <2> QED
    BY <1>1, <1>2, <2>1, <2>3
<1>7. ids \in Seq(S) /\ me \in 1 .. Len(ids) + 1 /\ own \in S /\ w = FormatVec(ids, me, own)
  BY <1>1, <1>2, <1>3, <1>6
<1>8. Inserted(S, ids, me, own, w)
  BY <1>7, FormatVecIs, Zenon
<1>9. ASSUME NEW n \in 1 .. Signers
      PROVE  \E d \in Callers : PartyAt(c, n, d) /\ w[n] = party_id[d]
  <2>1. CASE n = me
    BY <1>1, <1>2, <1>8, <2>1 DEF Inserted
  <2>2. CASE n # me
    <3>1. PICK j \in 1 .. Threshold : n = Nth(c, j) /\ w[n] = ids[j]
      BY <1>1, <1>2, <1>6, <1>8, <2>2 DEF Inserted, Nth
    <3> QED
      BY <1>4, <3>1
  <2> QED
    BY <2>1, <2>2
<1> QED
  BY <1>2, <1>5, <1>6, <1>8, <1>9 DEF SignersAligned, Inserted

LEMMA MakersAligned ==
    ASSUME TypeInv, VectorTypeInv, SignupInv, MemberInv, AnswersInv,
           NEW c \in Callers, pc[c] = "poll", peer[c] > Signers, round[c] > 0,
           NEW v, v = Makers(c)
    PROVE  OthersAligned(c, v) /\ number[c] \in 1 .. Signers /\ PartyAt(c, number[c], c)
<1>1. PICK ans : ans = ans_vec[c]
  OBVIOUS
<1>2. /\ Len(ans) = Threshold /\ Threshold \in Nat
      /\ number[c] \in 1 .. Signers /\ PartyAt(c, number[c], c)
      /\ \A j \in 1 .. Threshold : Answer(c, Nth(c, j), round[c], ans[j])
  BY <1>1, AllAnswered, ThresholdAssumption DEF MemberInv
<1>3. v = [j \in 1 .. Threshold |-> ans[j].of]
  BY <1>1, <1>2 DEF Makers
<1>4. ASSUME NEW j \in 1 .. Threshold PROVE v[j] \in Callers /\ PartyAt(c, Nth(c, j), v[j])
  <2> DEFINE to == IF round[c] = 2 THEN number[c] ELSE All
  <2>1. PICK d \in Callers :
          PartyAt(c, Nth(c, j), d) /\ Written(d, to, round[c], ans[j])
    BY <1>2 DEF Answer
  <2>2. ans[j].of = d
    <3>1. CASE round[c] = 2
      <4>1. IsMessageB(d, to, ans[j])
        BY <2>1, <3>1 DEF Written
      <4> QED
        BY <4>1 DEF IsMessageB
    <3>2. CASE round[c] # 2
      <4>1. ans[j] = [of |-> d]
        BY <2>1, <3>2 DEF Written, TypeInv
      <4> QED
        BY <4>1
    <3> QED
      BY <3>1, <3>2
  <2> QED
    BY <1>3, <2>1, <2>2
<1>5. v \in Seq(Callers) /\ Len(v) = Threshold
  <2>1. v \in [1 .. Threshold -> Callers]
    BY <1>3, <1>4
  <2> QED
    BY <1>2, <2>1
<1> QED
  BY <1>2, <1>4, <1>5 DEF OthersAligned

LEMMA WithOwnAligned ==
    ASSUME TypeInv, VectorTypeInv, SignupInv, MemberInv, AnswersInv,
           NEW c \in Callers, pc[c] = "poll", peer[c] > Signers, round[c] > 0,
           NEW w, w = WithOwn(c)
    PROVE  Aligned(c, w)
<1>1. PICK S, me, v : S = Callers /\ me = number[c] /\ v = Makers(c)
  OBVIOUS
<1>2. /\ OthersAligned(c, v) /\ me \in 1 .. Signers /\ PartyAt(c, me, c)
      /\ Threshold \in Nat /\ Signers = Threshold + 1
  BY <1>1, MakersAligned, ThresholdAssumption DEF Signers
<1>3. v \in Seq(S) /\ me \in 1 .. Len(v) + 1 /\ c \in S /\ w = FormatVec(v, me, c)
  BY <1>1, <1>2 DEF WithOwn, OthersAligned
<1>4. Inserted(S, v, me, c, w)
  BY <1>3, FormatVecIs, Zenon
<1>5. Len(v) = Threshold
  BY <1>2 DEF OthersAligned
<1>6. ASSUME NEW n \in 1 .. Signers PROVE PartyAt(c, n, w[n])
  <2>1. CASE n = me
    BY <1>2, <1>4, <2>1 DEF Inserted
  <2>2. CASE n # me
    <3>1. PICK j \in 1 .. Threshold : n = Nth(c, j) /\ w[n] = v[j]
      BY <1>1, <1>2, <1>4, <1>5, <2>2 DEF Inserted, Nth
    <3> QED
      BY <1>2, <3>1 DEF OthersAligned
  <2> QED
    BY <2>1, <2>2
<1> QED
  BY <1>1, <1>2, <1>4, <1>5, <1>6 DEF Aligned, Inserted

LEMMA OthersOf ==
    ASSUME NEW c \in Callers, number[c] \in 1 .. Signers, NEW r, Aligned(c, vec[c][r]),
           NEW w, w = Others(c, r)
    PROVE  OthersAligned(c, w)
<1>1. PICK v : v = vec[c][r]
  OBVIOUS
<1>2. Aligned(c, v) /\ w = Without(v, number[c])
  BY <1>1 DEF Others
<1> QED
  BY <1>2, OthersAre

LEMMA OthersAgree ==
    ASSUME DistinctNumbers, NEW c \in Callers, NEW v, NEW w, OthersAligned(c, v), OthersAligned(c, w),
           NEW j \in 1 .. Threshold
    PROVE  v[j] = w[j]
<1>1. /\ v[j] \in Callers /\ PartyAt(c, Nth(c, j), v[j])
      /\ w[j] \in Callers /\ PartyAt(c, Nth(c, j), w[j])
  BY DEF OthersAligned
<1> QED
  BY <1>1, OneParty

LEMMA SignersAgree ==
    ASSUME DistinctNumbers, NEW c \in Callers, NEW d \in Callers, SameRun(c, d), NEW v, NEW w,
           SignersAligned(c, v), SignersAligned(d, w)
    PROVE  v = w
<1>1. ASSUME NEW n \in 1 .. Signers PROVE v[n] = w[n]
  <2>1. PICK x \in Callers : PartyAt(c, n, x) /\ v[n] = party_id[x]
    BY DEF SignersAligned
  <2>2. PICK y \in Callers : PartyAt(d, n, y) /\ w[n] = party_id[y]
    BY DEF SignersAligned
  <2>3. PartyAt(c, n, y)
    BY <2>2 DEF PartyAt, SameRun
  <2> QED
    BY <2>1, <2>2, <2>3, OneParty
<1>2. v \in Seq(PartyIds) /\ w \in Seq(PartyIds) /\ Len(v) = Signers /\ Len(w) = Signers
  BY DEF SignersAligned
<1> QED
  BY <1>1, <1>2

(* Each MessageB that c reads answers its own MessageA, under its own key, *)
(* is of the signer at its place, and made for the signers that c counts.  *)
LEMMA MessageBsVerify ==
    ASSUME DistinctNumbers, TypeInv, VectorTypeInv, SignupInv, MemberInv, AnswersInv, VectorsInv,
           NEW c \in Callers, pc[c] = "poll", peer[c] > Signers, round[c] = 2,
           NEW j \in 1 .. Threshold, NEW m_b, m_b = ans_vec[c][j]
    PROVE  /\ m_b.ek = party_id[c] /\ m_b.on = c
           /\ party_id[m_b.of] = SignersVec(c)[IF j < number[c] THEN j ELSE j + 1]
           /\ m_b.signers = SignersVec(c)
<1>1. PICK me, i, v : me = number[c] /\ i = Nth(c, j) /\ v = SignersVec(c)
  OBVIOUS
<1>2. /\ number[c] <= Signers /\ PartyAt(c, me, c) /\ Answer(c, i, 2, m_b)
      /\ i \in 1 .. Signers /\ i = IF j < number[c] THEN j ELSE j + 1
  <2>1. number[c] <= Signers
    BY DEF MemberInv
  <2>2. PartyAt(c, me, c) /\ Answer(c, i, 2, m_b)
    BY <1>1, <2>1, AllAnswered
  <2> QED
    BY <1>1, <2>1, <2>2, ThresholdAssumption DEF Nth, Place, Signers
<1>3. SignersAligned(c, v)
  BY <1>1, <1>2 DEF VectorsInv, Filled, SignersVec
<1>4. PICK d \in Callers : PartyAt(c, i, d) /\ IsMessageB(d, me, m_b)
  BY <1>1, <1>2 DEF Answer, Written
<1>5. PICK e \in Callers, f \in Callers, s \in Seq(PartyIds) :
        /\ PartyAt(d, me, e) /\ PartyAt(d, me, f) /\ SignersAligned(d, s)
        /\ m_b = [of |-> d, ek |-> party_id[e], on |-> f, signers |-> s]
  BY <1>4 DEF IsMessageB
<1>6. e = c /\ f = c
  <2>1. PartyAt(d, me, c)
    BY <1>1, <1>4 DEF PartyAt, SameRun
  <2> QED
    BY <1>5, <2>1, OneParty
<1>7. s = v
  BY <1>3, <1>4, <1>5, SignersAgree DEF PartyAt
<1>8. v[i] = party_id[d]
  <2>1. PICK x \in Callers : PartyAt(c, i, x) /\ v[i] = party_id[x]
    BY <1>2, <1>3 DEF SignersAligned
  <2> QED
    BY <1>4, <2>1, OneParty
<1> QED
  BY <1>1, <1>2, <1>5, <1>6, <1>7, <1>8

(* The caller keeps v, as it should be, in a round whose values verify, or *)
(* do not because two have one number.                                     *)
Completes(c, r, v) ==
    \E verified :
        Keep(c, r, v, verified) /\ (DistinctNumbers => verified) /\ Filled(c, r, v)

LEMMA KeepsWell ==
    ASSUME TypeInv, VectorTypeInv, NEW c \in Callers,
           NEW r \in 0 .. 9, NEW v, Completes(c, r, v)
    PROVE  /\ DistinctNumbers => pc'[c] # "panicked"
           /\ Filled(c, round[c], vec'[c][round[c]])
<1>1. PICK verified :
        Keep(c, r, v, verified) /\ (DistinctNumbers => verified) /\ Filled(c, r, v)
  BY DEF Completes
<1>2. round[c] = r /\ vec'[c][r] = v /\ EndRound(c, Signers, 9, verified)
  BY <1>1 DEF Keep, VectorTypeInv
<1>3. DistinctNumbers => pc'[c] # "panicked"
  BY <1>1, <1>2 DEF EndRound, TypeInv
<1> QED
  BY <1>1, <1>2, <1>3

(* At the end of a round everything verifies, unless the caller is one too *)
(* many or two have one number, and the vector that it fills is complete.  *)
LEMMA EndsWell ==
    ASSUME TypeInv, VectorTypeInv, SignupInv, MemberInv, AnswersInv, VectorsInv,
           NEW c \in Callers, Ends(c), number[c] <= Signers
    PROVE  /\ DistinctNumbers => pc'[c] # "panicked"
           /\ Filled(c, round[c], vec'[c][round[c]])
<1> DEFINE Well == /\ DistinctNumbers => pc'[c] # "panicked"
                   /\ Filled(c, round[c], vec'[c][round[c]])
<1>14. \A r \in 0 .. 9 : \A w : Completes(c, r, w) => Well
  BY KeepsWell
<1> HIDE DEF Well
<1>1. pc[c] = "poll" /\ peer[c] > Signers /\ Collects(c) /\ round[c] \in 0 .. 9
  BY DEF Ends, TypeInv
<1>2. number[c] \in 1 .. Signers
  BY <1>1, ThresholdAssumption DEF SignupInv, MemberInv, TypeInv, Signers
<1>3. PICK v, own, others :
         v = Makers(c) /\ own = WithOwn(c) /\ others = Without(own, number[c])
  OBVIOUS
<1>4. ASSUME round[c] > 0
      PROVE  Aligned(c, own) /\ OthersAligned(c, v) /\ OthersAligned(c, others)
  <2>1. Aligned(c, own) /\ OthersAligned(c, v)
    BY <1>1, <1>3, <1>4, WithOwnAligned, MakersAligned
  <2> QED
    BY <1>2, <1>3, <2>1, OthersAre
<1>5. ASSUME NEW r \in {1, 3, 4, 5, 6, 7, 8}, r < round[c], NEW j \in 1 .. Threshold
      PROVE  Aligned(c, vec[c][r]) /\ (DistinctNumbers => others[j] = Others(c, r)[j])
  <2>1. Aligned(c, vec[c][r])
    BY <1>5 DEF VectorsInv, Filled
  <2>2. PICK w : w = Others(c, r)
    OBVIOUS
  <2>3. OthersAligned(c, w)
    BY <1>2, <2>1, <2>2, OthersOf
  <2> QED
    BY <1>1, <1>4, <1>5, <2>1, <2>2, <2>3, OthersAgree
<1>6. ASSUME CollectSigners(c) PROVE Well
  <2>1. PICK w : w = FormatVec([j \in 1 .. Len(ans_vec[c]) |-> ans_vec[c][j].id],
                               number[c], party_id[c])
    OBVIOUS
  <2>2. ~(number[c] > Signers) /\ (number[c] <= Signers) = TRUE
    BY <1>2, ThresholdAssumption DEF Signers
  <2>3. Keep(c, 0, w, TRUE) /\ round[c] = 0
    BY <1>6, <2>1, <2>2 DEF CollectSigners, Keep
  <2>4. SignersAligned(c, w)
    BY <1>1, <2>1, <2>3, WithOwnSigners
  <2>5. Filled(c, 0, w)
    BY <2>4 DEF Filled
  <2>6. Completes(c, 0, w)
    BY <2>3, <2>5 DEF Completes
  <2> QED
    BY <2>6, <1>14
<1>7. ASSUME NEW r \in {1, 3, 5, 7}, Keep(c, r, own, TRUE) PROVE Well
  <2>1. Aligned(c, own)
    BY <1>4, <1>7 DEF Keep
  <2>2. Filled(c, r, own)
    BY <2>1 DEF Filled
  <2>3. Completes(c, r, own)
    BY <1>7, <2>2 DEF Completes
  <2> QED
    BY <2>3, <1>14
<1>8. ASSUME CollectMessageBs(c) PROVE Well
  <2>1. PICK verified :
          verified = \A j \in 1 .. Threshold :
                       LET m_b == ans_vec[c][j] IN
                       /\ m_b.ek = party_id[c] /\ m_b.on = c
                       /\ party_id[m_b.of] = SignersVec(c)[IF j < number[c] THEN j ELSE j + 1]
                       /\ m_b.signers = SignersVec(c)
    OBVIOUS
  <2>2. Keep(c, 2, v, verified) /\ round[c] = 2
    BY <1>3, <1>8, <2>1 DEF CollectMessageBs, Keep
  <2>3. DistinctNumbers => verified
    BY <1>1, <2>1, <2>2, MessageBsVerify
  <2>4. Filled(c, 2, v)
    BY <1>4, <2>2 DEF Filled
  <2> QED
    <3>1. Completes(c, 2, v)
      BY <2>2, <2>3, <2>4 DEF Completes
    <3> QED
      BY <3>1, <1>14
<1>9. ASSUME OpenGammas(c) PROVE Well
  <2>1. PICK verified :
          verified = \A j \in 1 .. Threshold :
                       others[j] = Others(c, 1)[j] /\ others[j] = vec[c][2][j]
    OBVIOUS
  <2>2. Keep(c, 4, own, verified) /\ round[c] = 4
    BY <1>3, <1>9, <2>1 DEF OpenGammas, Keep
  <2>3. ASSUME DistinctNumbers, NEW j \in 1 .. Threshold PROVE others[j] = vec[c][2][j]
    <3>1. PICK w : w = vec[c][2]
      OBVIOUS
    <3>2. OthersAligned(c, w) /\ OthersAligned(c, others)
      BY <1>2, <1>4, <2>2, <3>1 DEF VectorsInv, Filled
    <3> QED
      BY <2>3, <3>1, <3>2, OthersAgree
  <2>4. DistinctNumbers => verified
    BY <1>5, <2>1, <2>2, <2>3
  <2>5. Filled(c, 4, own)
    BY <1>4, <2>2 DEF Filled
  <2> QED
    <3>1. Completes(c, 4, own)
      BY <2>2, <2>4, <2>5 DEF Completes
    <3> QED
      BY <3>1, <1>14
<1>10. ASSUME OpenPhase5A(c) PROVE Well
  <2>1. PICK verified : verified = \A j \in 1 .. Threshold : others[j] = Others(c, 5)[j]
    OBVIOUS
  <2>2. Keep(c, 6, own, verified) /\ round[c] = 6
    BY <1>3, <1>10, <2>1 DEF OpenPhase5A, Keep
  <2>3. DistinctNumbers => verified
    BY <1>5, <2>1, <2>2
  <2>4. Filled(c, 6, own)
    BY <1>4, <2>2 DEF Filled
  <2> QED
    <3>1. Completes(c, 6, own)
      BY <2>2, <2>3, <2>4 DEF Completes
    <3> QED
      BY <3>1, <1>14
<1>11. ASSUME OpenPhase5C(c) PROVE Well
  <2>1. PICK verified :
          verified = \A i \in 1 .. Signers : own[i] = vec[c][7][i] /\ own[i] = vec[c][6][i]
    OBVIOUS
  <2>2. Keep(c, 8, own, verified) /\ round[c] = 8
    BY <1>3, <1>11, <2>1 DEF OpenPhase5C, Keep
  <2>3. ASSUME DistinctNumbers, NEW r \in {6, 7}, NEW i \in 1 .. Signers
        PROVE  own[i] = vec[c][r][i]
    <3>1. Aligned(c, vec[c][r]) /\ Aligned(c, own)
      BY <1>2, <1>4, <2>2, <2>3 DEF VectorsInv, Filled
    <3>2. /\ own[i] \in Callers /\ PartyAt(c, i, own[i])
          /\ vec[c][r][i] \in Callers /\ PartyAt(c, i, vec[c][r][i])
      BY <3>1 DEF Aligned
    <3> QED
      BY <2>3, <3>2, OneParty
  <2>4. DistinctNumbers => verified
    BY <2>1, <2>3
  <2>5. Filled(c, 8, own)
    BY <1>4, <2>2 DEF Filled
  <2> QED
    <3>1. Completes(c, 8, own)
      BY <2>2, <2>4, <2>5 DEF Completes
    <3> QED
      BY <3>1, <1>14
<1>12. ASSUME OutputSignature(c) PROVE Well
  <2>1. PICK verified :
          verified = \A j \in 1 .. Threshold :
                       others[j] = Others(c, 3)[j] /\ others[j] = Others(c, 4)[j]
    OBVIOUS
  <2>2. Keep(c, 9, others, verified) /\ round[c] = 9
    BY <1>3, <1>12, <2>1 DEF OutputSignature, Keep
  <2>3. DistinctNumbers => verified
    BY <1>5, <2>1, <2>2
  <2>4. Filled(c, 9, others)
    BY <1>4, <2>2 DEF Filled
  <2> QED
    <3>1. Completes(c, 9, others)
      BY <2>2, <2>3, <2>4 DEF Completes
    <3> QED
      BY <3>1, <1>14
<1>13. CollectCommitments(c) \/ CollectDeltas(c) \/ CollectPhase5A(c) \/ CollectPhase5C(c) => Well
  BY <1>3, <1>7 DEF CollectCommitments, CollectDeltas, CollectPhase5A, CollectPhase5C
<1>15. Well
  BY <1>1, <1>6, <1>8, <1>9, <1>10, <1>11, <1>12, <1>13 DEF Collects
<1> QED
  BY <1>15 DEF Well

LEMMA FilledStays ==
    ASSUME TypeInv, VectorTypeInv, SignupInv, [Next]_vars,
           NEW c \in Callers, NEW r, NEW v, Filled(c, r, v)
    PROVE  Filled(c, r, v)'
<1>1. /\ SignersAligned(c, v) => SignersAligned(c, v)'
      /\ Aligned(c, v) => Aligned(c, v)'
      /\ OthersAligned(c, v) => OthersAligned(c, v)'
  BY AlignedStays
<1> QED
  BY <1>1 DEF Filled

LEMMA VectorsStep ==
    ASSUME TypeInv, VectorTypeInv, SignupInv, MemberInv, AnswersInv, VectorsInv, [Next]_vars
    PROVE  VectorsInv'
<1> SUFFICES ASSUME NEW c \in Callers, number'[c] <= Signers,
                    NEW r \in 0 .. 8, r < round'[c]
             PROVE  Filled(c, r, vec[c][r])'
  BY DEF VectorsInv
<1>1. PICK v : v = vec'[c][r]
  OBVIOUS
<1>2. SUFFICES Filled(c, r, v)
  <2>1. ASSUME Filled(c, r, v) PROVE Filled(c, r, v)'
    BY <2>1, FilledStays
  <2> QED
    BY <1>1, <2>1 DEF Filled, SignersAligned, Aligned, OthersAligned
<1>3. ASSUME round'[c] = round[c], number'[c] = number[c], vec'[c][r] = vec[c][r]
      PROVE  Filled(c, r, v)
  BY <1>1, <1>3 DEF VectorsInv
<1>4. CASE Same(c)
  BY <1>3, <1>4 DEF Same
<1>5. CASE OthersStay(c) /\ (Writes(c) \/ Skips(c) \/ Reads(c))
  BY <1>3, <1>5 DEF OthersStay, Writes, Skips, Reads
<1>6. CASE WriteSignup(c) /\ UNCHANGED vec
  <2>1. round'[c] = 0
    BY <1>6 DEF WriteSignup, SignupInv, MemberInv
  <2> QED
    BY <2>1
<1>7. CASE (ReadSignup(c) \/ Stop(c) \/ Abandoned(c)) /\ UNCHANGED vec
  BY <1>3, <1>7 DEF ReadSignup, Stop, Abandoned, Restart
<1>8. CASE OthersStay(c) /\ Ends(c)
  <2>1. /\ number'[c] = number[c] /\ round[c] \in 0 .. 9
        /\ round'[c] \in {round[c], round[c] + 1}
    BY <1>8 DEF OthersStay, Ends, TypeInv
  <2>2. Filled(c, round[c], vec'[c][round[c]])
    BY <1>8, <2>1, EndsWell
  <2>3. CASE r = round[c]
    BY <1>1, <2>2, <2>3
  <2>4. CASE r # round[c]
    <3>1. vec'[c][r] = vec[c][r]
      BY <1>8, <2>4 DEF Ends, VectorTypeInv
    <3>2. r < round[c]
      BY <2>1, <2>4
    <3> QED
      BY <1>1, <2>1, <3>1, <3>2 DEF VectorsInv
  <2> QED
    BY <2>3, <2>4
<1> QED
  BY <1>4, <1>5, <1>6, <1>7, <1>8, Frame DEF SignUp

(* The ids that a caller too many reads in round 0. *)
LEMMA SignersTyped ==
    ASSUME TypeInv, VectorTypeInv, SignupInv, MemberInv, AnswersInv,
           NEW c \in Callers, Ends(c), number[c] > Signers
    PROVE  round[c] = 0 /\ vec'[c][0] \in Seq(PartyIds)
<1>1. pc[c] = "poll" /\ round[c] = 0
  <2>1. pc[c] = "poll" /\ pc[c] # "panicked"
    BY DEF Ends
  <2>2. ~(number[c] <= Signers) /\ round[c] \in 0 .. 9
    BY ThresholdAssumption DEF Signers, TypeInv
  <2>3. ~(round[c] > 0)
    BY <2>1, <2>2 DEF MemberInv
  <2> QED
    BY <2>1, <2>2, <2>3
<1>2. PICK ids : ids = [j \in 1 .. Len(ans_vec[c]) |-> ans_vec[c][j].id]
  OBVIOUS
<1>3. Len(ans_vec[c]) \in Nat
  BY DEF VectorTypeInv
<1>4. ASSUME NEW j \in 1 .. Len(ans_vec[c]) PROVE ids[j] \in PartyIds
  <2>1. Answer(c, Nth(c, j), 0, ans_vec[c][j])
    BY <1>1 DEF AnswersInv
  <2>2. \E d \in Callers : ans_vec[c][j] = [id |-> party_id[d]]
    BY <2>1 DEF Answer, Written
  <2> QED
    BY <1>2, <2>2 DEF PartyIds
<1>5. ids \in Seq(PartyIds)
  <2>1. ids \in [1 .. Len(ans_vec[c]) -> PartyIds]
    BY <1>2, <1>4
  <2> QED
    BY <1>3, <2>1
<1>6. CollectSigners(c)
  BY <1>1 DEF Ends, Collects, CollectSigners, CollectCommitments, CollectMessageBs,
              CollectDeltas, OpenGammas, CollectPhase5A, OpenPhase5A, CollectPhase5C,
              OpenPhase5C, OutputSignature, Keep
<1>7. vec' = [vec EXCEPT ![c][0] = ids]
  BY <1>2, <1>6 DEF CollectSigners, Keep
<1> QED
  BY <1>1, <1>5, <1>7 DEF VectorTypeInv

LEMMA VectorTypeStep ==
    ASSUME TypeInv, VectorTypeInv, SignupInv, MemberInv, StoreInv, AnswersInv, VectorsInv,
           [Next]_vars
    PROVE  VectorTypeInv'
<1>1. ASSUME UNCHANGED <<ans_vec, vec>> PROVE VectorTypeInv'
  BY <1>1 DEF VectorTypeInv
<1>2. ASSUME NEW c \in Callers, Proceed(c) PROVE VectorTypeInv'
  <2>1. OthersStay(c) /\ (Writes(c) \/ Skips(c) \/ Reads(c) \/ Ends(c))
    BY <1>2, Moves
  <2>2. ans_vec' = [ans_vec EXCEPT ![c] = ans_vec'[c]]
    BY <2>1 DEF OthersStay
  <2>3. ans_vec[c] \in Seq(Value)
    BY DEF VectorTypeInv
  <2>4. CASE Writes(c) \/ Skips(c)
    <3>1. ans_vec'[c] \in Seq(Value) /\ UNCHANGED vec
      BY <2>3, <2>4 DEF Writes, Skips
    <3> QED
      BY <2>2, <3>1 DEF VectorTypeInv
  <2>5. CASE Reads(c)
    <3>1. PICK k \in DOMAIN store : ans_vec'[c] = Append(ans_vec[c], store[k]) /\ UNCHANGED vec
      BY <2>5 DEF Reads
    <3>2. PICK v : v = store[k]
      OBVIOUS
    <3>3. v \in Value
      BY <3>2, WrittenType DEF StoreInv, Stored
    <3>4. ans_vec'[c] \in Seq(Value)
      BY <2>3, <3>1, <3>2, <3>3
    <3> QED
      BY <2>2, <3>1, <3>4 DEF VectorTypeInv
  <2>6. CASE Ends(c)
    <3>1. ans_vec' \in [Callers -> Seq(Value)]
      <4>1. ans_vec'[c] \in Seq(Value)
        BY <2>6 DEF Ends
      <4> QED
        BY <2>2, <4>1 DEF VectorTypeInv
    <3>2. PICK r, v : r = round[c] /\ r \in 0 .. 9 /\ vec' = [vec EXCEPT ![c][r] = v]
      BY <2>6 DEF Ends, TypeInv
    <3>3. v = vec'[c][r]
      BY <3>2 DEF VectorTypeInv
    <3>4. IF r = 0 THEN v \in Seq(PartyIds) ELSE v \in Seq(Callers)
      <4>1. CASE number[c] > Signers
        BY <2>6, <3>2, <3>3, <4>1, SignersTyped
      <4>2. CASE number[c] <= Signers
        <5>1. Filled(c, r, v)
          BY <2>6, <3>2, <3>3, <4>2, EndsWell
        <5> QED
          BY <5>1 DEF Filled, SignersAligned, Aligned, OthersAligned
      <4> QED
        BY <4>1, <4>2, ThresholdAssumption DEF TypeInv, Signers
    <3>5. v \in Seq(PartyIds \cup Callers)
      <4>1. Seq(PartyIds) \subseteq Seq(PartyIds \cup Callers)
        OBVIOUS
      <4>2. Seq(Callers) \subseteq Seq(PartyIds \cup Callers)
        OBVIOUS
      <4> QED
        BY <3>4, <4>1, <4>2
    <3>6. vec[c] \in [0 .. 9 -> Seq(PartyIds \cup Callers)]
      BY DEF VectorTypeInv
    <3>7. PICK w : w = [vec[c] EXCEPT ![r] = v]
      OBVIOUS
    <3>8. vec' = [vec EXCEPT ![c] = w]
      BY <3>2, <3>7
    <3>9. w \in [0 .. 9 -> Seq(PartyIds \cup Callers)]
      BY <3>2, <3>5, <3>6, <3>7
    <3>10. w[0] \in Seq(PartyIds) /\ \A s \in 1 .. 9 : w[s] \in Seq(Callers)
      <4>1. vec[c][0] \in Seq(PartyIds) /\ \A s \in 1 .. 9 : vec[c][s] \in Seq(Callers)
        BY DEF VectorTypeInv
      <4>2. \A s \in 0 .. 9 : w[s] = IF s = r THEN v ELSE vec[c][s]
        BY <3>6, <3>7
      <4>3. w[0] \in Seq(PartyIds)
        BY <3>2, <3>4, <4>1, <4>2
      <4>4. ASSUME NEW s \in 1 .. 9 PROVE w[s] \in Seq(Callers)
        <5>1. s \in 0 .. 9 /\ s # 0
          OBVIOUS
        <5>2. w[s] = IF s = r THEN v ELSE vec[c][s]
          BY <4>2, <5>1
        <5>3. vec[c][s] \in Seq(Callers)
          BY <4>1
        <5>4. r # 0 => v \in Seq(Callers)
          BY <3>4
        <5> QED
          BY <5>1, <5>2, <5>3, <5>4
      <4> QED
        BY <4>3, <4>4
    <3> QED
      BY <3>1, <3>8, <3>9, <3>10 DEF VectorTypeInv
  <2> QED
    BY <2>1, <2>4, <2>5, <2>6
<1>3. ASSUME NEW c \in Callers, SignUp(c) \/ Stop(c), UNCHANGED vec PROVE VectorTypeInv'
  BY <1>1, <1>3 DEF SignUp, ReadSignup, WriteSignup, Stop
<1>4. ASSUME Restart, UNCHANGED vec PROVE VectorTypeInv'
  BY <1>1, <1>4 DEF Restart
<1>5. CASE UNCHANGED vars
  BY <1>1, <1>5 DEF vars, exchangeVars
<1> QED
  BY <1>2, <1>3, <1>4, <1>5 DEF Next

LEMMA VerifyStep ==
    ASSUME TypeInv, VectorTypeInv, SignupInv, MemberInv, AnswersInv, VectorsInv, ReadsVerify,
           [Next]_vars
    PROVE  ReadsVerify'
<1> SUFFICES ASSUME DistinctNumbers', NEW c \in Callers, pc'[c] = "panicked"
             PROVE  number'[c] = 0 \/ number'[c] > Signers
  BY DEF ReadsVerify
<1> USE DistinctBefore
<1>1. CASE Same(c)
  BY <1>1 DEF Same, ReadsVerify
<1>2. CASE Writes(c) \/ Skips(c) \/ Reads(c)
  BY <1>2 DEF Writes, Skips, Reads
<1>3. CASE OthersStay(c) /\ Ends(c)
  <2>1. number'[c] = number[c] /\ number[c] \in Nat /\ Signers \in Nat
    BY <1>3, ThresholdAssumption DEF OthersStay, TypeInv, Signers
  <2> QED
    BY <1>3, <2>1, EndsWell
<1>4. CASE SignUp(c) \/ Abandoned(c)
  <2>1. pc[c] \in {"signup", "write"} /\ number'[c] = number[c]
    BY <1>4 DEF SignUp, ReadSignup, WriteSignup, Abandoned, Restart, TypeInv
  <2> QED
    BY <2>1 DEF SignupInv, MemberInv
<1>5. CASE Stop(c)
  BY <1>5 DEF Stop, TypeInv
<1> QED
  BY <1>1, <1>2, <1>3, <1>4, <1>5, Frame

LEMMA DoneStep ==
    ASSUME TypeInv, VectorTypeInv, SignupInv, MemberInv, AnswersInv, VectorsInv, DoneInv,
           [Next]_vars
    PROVE  DoneInv'
<1> SUFFICES ASSUME NEW c \in Callers, pc'[c] = "done"
             PROVE  /\ round'[c] = 9 /\ OthersAligned(c, vec[c][9])'
                    /\ \A n \in 1 .. Signers : \E d \in Callers : PartyAt(c, n, d)' /\ round'[d] = 9
  BY DEF DoneInv
<1>1. PICK v : v = vec'[c][9]
  OBVIOUS
<1>2. SUFFICES /\ round'[c] = 9 /\ OthersAligned(c, v)
               /\ \A n \in 1 .. Signers : \E d \in Callers : PartyAt(c, n, d) /\ round[d] = 9
  <2>1. ASSUME OthersAligned(c, v) PROVE OthersAligned(c, vec[c][9])'
    <3>1. OthersAligned(c, v)'
      BY <2>1, AlignedStays
    <3> QED
      BY <1>1, <3>1 DEF OthersAligned
  <2>2. ASSUME NEW n, NEW d \in Callers, PartyAt(c, n, d), round[d] = 9
        PROVE  PartyAt(c, n, d)' /\ round'[d] = 9
    <3>1. PartyAt(c, n, d)' /\ round'[d] >= 9
      BY <2>2, PartyStays, RoundGrows
    <3>2. round'[d] \in 0 .. 9
      BY TypeStep DEF TypeInv
    <3> QED
      BY <3>1, <3>2
  <2> QED
    BY <2>1, <2>2
<1>3. CASE Same(c)
  BY <1>1, <1>3 DEF Same, DoneInv
<1>4. CASE Writes(c) \/ Skips(c) \/ Reads(c)
  BY <1>4 DEF Writes, Skips, Reads
<1>5. CASE Ends(c)
  <2>1. pc[c] = "poll" /\ peer[c] > Signers /\ round'[c] = 9 /\ round[c] = 9
    BY <1>5 DEF Ends
  <2>2. number[c] \in 1 .. Signers /\ PartyAt(c, number[c], c)
    BY <2>1, MakersAligned
  <2>3. OthersAligned(c, v)
    <3>1. Filled(c, 9, v)
      BY <1>1, <1>5, <2>1, <2>2, EndsWell
    <3> QED
      BY <3>1 DEF Filled
  <2>4. ASSUME NEW n \in 1 .. Signers, n # number[c]
        PROVE  \E d \in Callers : PartyAt(c, n, d) /\ round[d] = 9
    <3>1. PICK j \in 1 .. Threshold : n = Nth(c, j)
      BY <2>2, <2>4, Places, ThresholdAssumption DEF Signers, Nth
    <3>2. Answer(c, n, 9, ans_vec[c][j])
      BY <2>1, <2>2, <3>1, AllAnswered
    <3> QED
      BY <3>2 DEF Answer, TypeInv
  <2> QED
    BY <2>1, <2>2, <2>3, <2>4
<1>6. CASE SignUp(c) \/ Stop(c) \/ Abandoned(c)
  BY <1>6 DEF SignUp, ReadSignup, WriteSignup, Stop, Abandoned, TypeInv
<1> QED
  BY <1>3, <1>4, <1>5, <1>6, Frame

(* While the map keeps the computation of c, it loses nothing, and who has *)
(* just signed up has written and read nothing.                            *)
LEMMA MapStays ==
    ASSUME TypeInv, VectorTypeInv, SignupInv, [Next]_vars,
           NEW c \in Callers, uuid[c] # NoUuid, MapKept(c)'
    PROVE  MapKept(c) /\ DOMAIN store \subseteq DOMAIN store' /\ uuid'[c] = uuid[c]
<1> USE DEF MapKept
<1>1. uuid'[c] = uuid[c]
  BY MembersStay
<1>2. ASSUME UNCHANGED <<live, store>> PROVE MapKept(c) /\ DOMAIN store \subseteq DOMAIN store'
  BY <1>1, <1>2
<1>3. ASSUME NEW d \in Callers, Proceed(d)
      PROVE  MapKept(c) /\ DOMAIN store \subseteq DOMAIN store'
  <2>1. OthersStay(d) /\ (Writes(d) \/ Skips(d) \/ Reads(d) \/ Ends(d))
    BY <1>3, Moves
  <2> QED
    BY <1>1, <2>1 DEF OthersStay, Writes, Adds, Skips, Reads, Ends
<1>4. ASSUME NEW d \in Callers, ReadSignup(d)
      PROVE  MapKept(c) /\ DOMAIN store \subseteq DOMAIN store'
  <2>1. pc[d] = "signup" /\ UNCHANGED store /\ live' \subseteq live \cup {d}
    BY <1>4 DEF ReadSignup
  <2>2. uuid[c] # d
    BY <2>1 DEF SignupInv
  <2> QED
    BY <1>1, <2>1, <2>2
<1>5. ASSUME NEW d \in Callers, WriteSignup(d) \/ Stop(d)
      PROVE  MapKept(c) /\ DOMAIN store \subseteq DOMAIN store'
  BY <1>2, <1>5 DEF WriteSignup, Stop
<1>6. ~Restart
  BY DEF Restart
<1>7. CASE UNCHANGED vars
  BY <1>2, <1>7 DEF vars, exchangeVars
<1> QED
  BY <1>1, <1>3, <1>4, <1>5, <1>6, <1>7 DEF Next, SignUp

(* Who has yet to sign up has written nothing, also when it does. *)
LEMMA NothingKnown ==
    ASSUME TypeInv, VectorTypeInv, SignupInv, MemberInv, [Next]_vars,
           NEW c \in Callers, uuid[c] = NoUuid, NEW n, NEW r \in 0 .. 9 \ {2}
    PROVE  ~Known(c, n, r)'
<1>1. round[c] = 0 /\ pc[c] \notin {"send", "poll"}
  BY DEF SignupInv, MemberInv
<1>2. CASE Same(c)
  BY <1>1, <1>2 DEF Same, Known, Wrote
<1>3. CASE ReadSignup(c) \/ Abandoned(c)
  BY <1>1, <1>3 DEF ReadSignup, Abandoned, Restart, Known, Wrote, TypeInv
<1>4. CASE WriteSignup(c)
  <2>1. round'[c] = 0 /\ pc'[c] = "send"
    BY <1>1, <1>4 DEF WriteSignup, TypeInv
  <2> QED
    BY <2>1 DEF Known, Wrote
<1> QED
  BY <1>1, <1>2, <1>3, <1>4, Frame DEF SignUp, Writes, Skips, Reads, Ends, Stop

LEMMA KeptStep ==
    ASSUME TypeInv, VectorTypeInv, SignupInv, MemberInv, AnswersInv, VectorsInv, KeptInv,
           [Next]_vars
    PROVE  KeptInv'
<1> SUFFICES ASSUME NEW c \in Callers, MapKept(c)', uuid[c] # NoUuid,
                    NEW n \in 1 .. Signers, NEW r \in 0 .. 9 \ {2}, Known(c, n, r)'
             PROVE  <<uuid[c], n, All, r>> \in DOMAIN store'
  <2>1. ASSUME NEW c \in Callers, MapKept(c)', NEW n \in 1 .. Signers, NEW r \in 0 .. 9 \ {2},
               Known(c, n, r)'
        PROVE  uuid[c] # NoUuid /\ uuid'[c] = uuid[c]
    BY <2>1, NothingKnown, MapStays
  <2> QED
    BY <2>1 DEF KeptInv
<1>1. DOMAIN store \subseteq DOMAIN store' /\ (Known(c, n, r) => <<uuid[c], n, All, r>> \in DOMAIN store')
  BY MapStays DEF KeptInv
<1>2. /\ r # 2 /\ r \in Nat /\ n \in Nat /\ n >= 1 /\ number[c] \in Nat /\ peer[c] \in Nat
      /\ round[c] \in 0 .. 9
  BY DEF TypeInv
<1>3. n < Other(c, 1) => n = number[c]
  BY <1>2 DEF Other
<1>4. CASE Same(c)
  BY <1>1, <1>4 DEF Same, Known, Wrote
<1>5. CASE OthersStay(c) /\ Writes(c)
  <2>1. PICK to \in Nat :
          /\ Adds(<<uuid[c], number[c], to, round[c]>>)
          /\ round[c] # 2 => to = All
          /\ pc'[c] = "poll" => peer'[c] = Other(c, 1)
    BY <1>5 DEF Writes
  <2>2. round'[c] = round[c] /\ number'[c] = number[c] /\ uuid'[c] = uuid[c]
    BY <1>5 DEF OthersStay, Writes
  <2>3. CASE r < round[c]
    BY <1>1, <2>3 DEF Known
  <2>4. CASE ~(r < round[c])
    <3>1. r = round[c] /\ n = number[c]
      BY <1>2, <1>3, <2>1, <2>2, <2>4 DEF Known, Wrote
    <3> QED
      BY <1>2, <2>1, <3>1 DEF Adds
  <2> QED
    BY <2>3, <2>4
<1>6. CASE OthersStay(c) /\ Skips(c)
  <2>1. round'[c] = 2 /\ round[c] = 2 /\ number'[c] = number[c] /\ uuid'[c] = uuid[c]
    BY <1>6 DEF OthersStay, Skips
  <2>2. r < round[c]
    BY <1>2, <2>1 DEF Known, Wrote
  <2> QED
    BY <1>1, <2>2 DEF Known
<1>7. CASE OthersStay(c) /\ Reads(c)
  <2>1. /\ pc[c] = "poll" /\ pc'[c] = "poll" /\ peer'[c] = Other(c, peer[c] + 1)
        /\ round'[c] = round[c] /\ number'[c] = number[c] /\ uuid'[c] = uuid[c]
    BY <1>7 DEF OthersStay, Reads
  <2>2. uuid[c] # NoUuid
    BY <2>1 DEF SignupInv
  <2>3. CASE r < round[c] \/ n = number[c]
    <3>1. Known(c, n, r)
      BY <1>2, <2>1, <2>2, <2>3 DEF Known, Wrote
    <3> QED
      BY <1>1, <3>1
  <2>4. CASE ~(r < round[c]) /\ n # number[c]
    <3>1. r = round[c] /\ n < Other(c, peer[c] + 1)
      BY <2>1, <2>4 DEF Known
    <3>2. n <= peer[c]
      BY <1>2, <2>4, <3>1 DEF Other
    <3>3. CASE n = peer[c]
      BY <1>1, <1>2, <1>7, <3>1, <3>3 DEF Reads
    <3>4. CASE n < peer[c]
      <4>1. Known(c, n, r)
        BY <2>1, <2>4, <3>1, <3>4 DEF Known
      <4> QED
        BY <1>1, <4>1
    <3> QED
      BY <1>2, <3>2, <3>3, <3>4
  <2> QED
    BY <2>3, <2>4
<1>8. CASE OthersStay(c) /\ Ends(c)
  <2>1. /\ pc[c] = "poll" /\ peer[c] > Signers
        /\ \/ round'[c] = round[c] + 1 /\ pc'[c] = "send"
           \/ round'[c] = round[c]
        /\ number'[c] = number[c] /\ uuid'[c] = uuid[c]
    BY <1>8 DEF OthersStay, Ends
  <2>2. uuid[c] # NoUuid
    BY <2>1 DEF SignupInv
  <2>3. n < peer[c]
    BY <1>2, <2>1, ThresholdAssumption DEF Signers
  <2>4. CASE r <= round[c]
    <3>1. Known(c, n, r)
      BY <1>2, <2>1, <2>2, <2>3, <2>4 DEF Known, Wrote
    <3> QED
      BY <1>1, <3>1
  <2>5. CASE ~(r <= round[c])
    BY <1>2, <2>1, <2>5 DEF Known, Wrote
  <2> QED
    BY <2>4, <2>5
<1>9. CASE Stop(c)
  <2>1. /\ round'[c] = round[c] /\ number'[c] = number[c] /\ uuid'[c] = uuid[c]
        /\ \/ pc[c] = "poll" /\ pc'[c] = "left"
           \/ pc'[c] = "stopped"
    BY <1>9 DEF Stop, TypeInv
  <2>2. Known(c, n, r)
    BY <1>2, <2>1 DEF Known, Wrote
  <2> QED
    BY <1>1, <2>2
<1>10. ~SignUp(c) /\ ~Abandoned(c)
  BY DEF SignUp, ReadSignup, WriteSignup, Abandoned, SignupInv
<1> QED
  BY <1>4, <1>5, <1>6, <1>7, <1>8, <1>9, <1>10, Frame

-----------------------------------------------------------------------------
LEMMA ExchangeInvariant == Spec => []ExchangeInv
<1>1. ExchangeInv /\ [Next]_vars => ExchangeInv'
  <2> SUFFICES ASSUME ExchangeInv, [Next]_vars PROVE ExchangeInv'
    OBVIOUS
  <2> USE DEF ExchangeInv
  <2>1. TypeInv' /\ VectorTypeInv' /\ SignupInv' /\ MemberInv' /\ StoreInv'
    BY TypeStep, VectorTypeStep, SignupStep, MemberStep, StoreStep
  <2>2. AnswersInv' /\ VectorsInv' /\ DoneInv' /\ KeptInv' /\ ReadsVerify'
    BY AnswersStep, VectorsStep, DoneStep, KeptStep, VerifyStep
  <2> QED
    BY <2>1, <2>2
<1> QED
  BY <1>1, InitInv, PTL DEF Spec

LEMMA Counted ==
    ASSUME TypeInv, MemberInv, NEW c \in Callers
    PROVE  number[c] \in Nat /\ number[c] <= parties[c]
<1>1. parties[c] \in Nat \ {0} /\ number[c] \in Nat
  BY CountsAssumption DEF TypeInv
<1>2. number[c] = 0 \/ number[c] \in 1 .. parties[c]
  BY DEF MemberInv
<1> QED
  BY <1>1, <1>2

(* All values and keys have their type, those that the map holds, those    *)
(* that were read from it and the vectors of the ten rounds among them.    *)
THEOREM TypeCorrect == Spec => []TypeOK
<1>1. ExchangeInv => TypeOK
  <2> SUFFICES ASSUME ExchangeInv PROVE TypeOK
    OBVIOUS
  <2> USE DEF ExchangeInv
  <2>1. ASSUME NEW c \in Callers PROVE number[c] <= parties[c]
    BY Counted
  <2>2. ASSUME NEW k \in DOMAIN store
        PROVE  k \in Callers \X Nat \X Nat \X (0 .. 9) /\ store[k] \in Value
    <3>1. PICK v : v = store[k]
      OBVIOUS
    <3>2. PICK d \in Callers, to \in Nat, r \in 0 .. 9 :
            /\ k = <<uuid[d], number[d], to, r>>
            /\ Wrote(d, to, r) /\ Written(d, to, r, v)
      BY <3>1 DEF StoreInv, Stored
    <3>3. uuid[d] \in Callers /\ number[d] \in Nat
      BY <3>2 DEF Wrote, TypeInv
    <3>4. v \in Value
      BY <3>2, WrittenType
    <3> QED
      BY <3>1, <3>2, <3>3, <3>4
  <2>3. ASSUME NEW c \in Callers
        PROVE  /\ DOMAIN vec[c] = 0 .. 9 /\ vec[c][0] \in Seq(PartyIds)
               /\ \A r \in 1 .. 9 : vec[c][r] \in Seq(Callers)
    BY DEF VectorTypeInv
  <2>4. ExchangeTypeOK(0, 9, Value)
    BY <2>1, <2>2 DEF ExchangeTypeOK, TypeInv, VectorTypeInv
  <2> QED
    BY <2>3, <2>4 DEF TypeOK
<1> QED
  BY <1>1, ExchangeInvariant, PTL

(* No call panics on what it read: in ten rounds, each value that it pairs *)
(* with others by its place is the one of the party at that place, unless  *)
(* two have one number.                                                    *)
THEOREM ReadsVerified == Spec => []ReadsVerify
BY ExchangeInvariant, PTL DEF ExchangeInv

(* Nobody opens a commitment, or gives away its share of the signature,    *)
(* before the map holds what each of the signers must have fixed by then.  *)
THEOREM RevealedLast == Spec => []RevealLast
<1>1. ExchangeInv => RevealLast
  <2> SUFFICES ASSUME ExchangeInv, NEW c \in Callers, MapKept(c),
                      NEW now, NEW before, <<now, before>> \in Fixed,
                      Key(c, number[c], All, now) \in DOMAIN store, NEW n \in 1 .. Signers
               PROVE  Key(c, n, All, before) \in DOMAIN store
    <3>1. \A p \in Fixed : p = <<p[1], p[2]>>
      BY DEF Fixed
    <3> QED
      BY <3>1 DEF RevealLast
  <2> USE DEF ExchangeInv
  <2>1. before < now /\ before \in 0 .. 9 \ {2} /\ now \in 0 .. 9
    BY DEF Fixed
  <2>2. PICK d \in Callers, to \in Nat, r \in 0 .. 9 :
          /\ Key(c, number[c], All, now) = <<uuid[d], number[d], to, r>>
          /\ Wrote(d, to, r)
    BY DEF StoreInv, Stored
  <2>3. uuid[d] = uuid[c] /\ number[d] = number[c] /\ r = now /\ uuid[d] # NoUuid
    BY <2>2 DEF Key, Wrote
  <2>4. MapKept(d)
    BY <2>3 DEF MapKept
  <2>5. before < round[d]
    BY <2>1, <2>2, <2>3 DEF Wrote, TypeInv
  <2> QED
    BY <2>1, <2>3, <2>4, <2>5 DEF KeptInv, Known, Key
<1> QED
  BY <1>1, ExchangeInvariant, PTL

-----------------------------------------------------------------------------
(***************************************************************************)
(* A signature is joint, even of parties that got one number: it rests on  *)
(* what the parties verify, not on who wrote what they read.               *)
(***************************************************************************)

(* A MessageB is made for the signers that its maker counts.               *)
Sealed(m_b) ==
    \E d \in Callers : m_b.of = d /\ round[d] >= 2 /\ m_b.signers = vec[d][0]

SealedInv ==
    /\ \A k \in DOMAIN store : \A u, n, to : k = <<u, n, to, 2>> => Sealed(store[k])
    /\ \A c \in Callers : pc[c] = "poll" /\ round[c] = 2 =>
         \A j \in 1 .. Len(ans_vec[c]) : Sealed(ans_vec[c][j])

(* The caller d counts the same signers as c and is their j-th but c.      *)
Peer(c, j, d) ==
    /\ round[d] >= 2 /\ vec[d][0] = vec[c][0]
    /\ party_id[d] = vec[c][0][Nth(c, j)]

(* What a caller has verified at the end of the rounds 0, 2, 4 and 9.      *)
VerifiedInv ==
    \A c \in Callers :
        /\ round[c] > 0 => vec[c][0][number[c]] = party_id[c]
        /\ \A j \in 1 .. Threshold :
             /\ round[c] > 2 => \E d \in Callers : vec[c][2][j] = d /\ Peer(c, j, d)
             /\ round[c] > 4 => Others(c, 4)[j] = vec[c][2][j]
             /\ pc[c] = "done" => vec[c][9][j] = Others(c, 4)[j]

(* What is kept of a round stays when the round is over. *)
LEMMA KeptStays ==
    ASSUME ExchangeInv, [Next]_vars, NEW c \in Callers, NEW r \in 0 .. 9, r < round[c]
    PROVE  vec'[c][r] = vec[c][r] /\ round'[c] >= round[c] /\ number'[c] = number[c]
<1> USE DEF ExchangeInv
<1>1. round'[c] >= round[c]
  BY RoundGrows
<1>2. round[c] \in 0 .. 9 /\ round[c] > 0 /\ uuid[c] # NoUuid
  BY DEF TypeInv, MemberInv
<1>3. number'[c] = number[c]
  BY <1>2, MembersStay
<1>4. CASE Same(c) \/ UNCHANGED vec
  BY <1>1, <1>3, <1>4 DEF Same
<1>5. CASE Ends(c)
  BY <1>1, <1>2, <1>3, <1>5 DEF Ends, VectorTypeInv
<1> QED
  BY <1>4, <1>5, Frame DEF Writes, Skips, Reads

LEMMA SealedStays ==
    ASSUME ExchangeInv, [Next]_vars, NEW m_b, Sealed(m_b)
    PROVE  Sealed(m_b)'
<1>1. PICK d \in Callers : m_b.of = d /\ round[d] >= 2 /\ m_b.signers = vec[d][0]
  BY DEF Sealed
<1>2. round[d] \in 0 .. 9 /\ 0 < round[d] /\ round'[d] \in 0 .. 9
  BY <1>1, TypeStep DEF TypeInv, ExchangeInv
<1>3. vec'[d][0] = vec[d][0] /\ round'[d] >= round[d]
  BY <1>2, KeptStays
<1> QED
  BY <1>1, <1>2, <1>3 DEF Sealed

LEMMA SealedStep ==
    ASSUME ExchangeInv, SealedInv, [Next]_vars
    PROVE  SealedInv'
<1> USE DEF ExchangeInv
<1>1. ASSUME NEW k \in DOMAIN store', NEW u, NEW n, NEW to, k = <<u, n, to, 2>>
      PROVE  Sealed(store[k])'
  <2>1. ASSUME k \in DOMAIN store, store'[k] = store[k] PROVE Sealed(store[k])'
    <3>1. PICK m_b : m_b = store[k]
      OBVIOUS
    <3>2. Sealed(m_b)
      BY <1>1, <2>1, <3>1 DEF SealedInv
    <3>3. Sealed(m_b)'
      BY <3>2, SealedStays
    <3> QED
      BY <2>1, <3>1, <3>3 DEF Sealed
  <2>2. ASSUME NEW c \in Callers, Proceed(c) PROVE Sealed(store[k])'
    <3>1. OthersStay(c) /\ (Writes(c) \/ Skips(c) \/ Reads(c) \/ Ends(c))
      BY <2>2, Moves
    <3>2. CASE Writes(c)
      <4>1. PICK i \in Nat :
              /\ pc[c] = "send"
              /\ Adds(<<uuid[c], number[c], i, round[c]>>)
              /\ store'[<<uuid[c], number[c], i, round[c]>>] = ValueOf(c, i)
              /\ round[c] = 2 => i = peer[c] /\ i <= Signers
              /\ UNCHANGED <<round, vec>>
        BY <3>2 DEF Writes
      <4>2. CASE k = <<uuid[c], number[c], i, round[c]>>
        <5>1. round[c] = 2 /\ store'[k] = MessageBs(c)[i]
          BY <1>1, <4>1, <4>2 DEF ValueOf
        <5>2. i \in 1 .. Signers \ {number[c]}
          BY <4>1, <5>1, ThresholdAssumption DEF MemberInv, TypeInv, Signers
        <5>3. store'[k].of = c /\ store'[k].signers = vec[c][0]
          BY <5>1, <5>2 DEF MessageBs, SignersVec
        <5> QED
          BY <4>1, <5>1, <5>3 DEF Sealed
      <4>3. CASE k # <<uuid[c], number[c], i, round[c]>>
        BY <2>1, <4>1, <4>3 DEF Adds
      <4> QED
        BY <4>2, <4>3
    <3> QED
      BY <2>1, <3>1, <3>2 DEF Skips, Reads, Ends
  <2>3. CASE UNCHANGED store
    BY <2>1, <2>3
  <2>4. CASE Restart
    BY <2>4 DEF Restart
  <2> QED
    BY <2>2, <2>3, <2>4 DEF Next, SignUp, ReadSignup, WriteSignup, Stop, vars, exchangeVars
<1>2. ASSUME NEW c \in Callers, pc'[c] = "poll", round'[c] = 2,
             NEW j \in 1 .. Len(ans_vec'[c])
      PROVE  Sealed(ans_vec[c][j])'
  <2>1. ASSUME NEW m_b, m_b = ans_vec'[c][j], Sealed(m_b) PROVE Sealed(ans_vec[c][j])'
    <3>1. Sealed(m_b)'
      BY <2>1, SealedStays
    <3> QED
      BY <2>1, <3>1 DEF Sealed
  <2>2. PICK m_b : m_b = ans_vec'[c][j]
    OBVIOUS
  <2>3. ASSUME pc[c] = "poll", round[c] = 2, ans_vec'[c] = ans_vec[c] PROVE Sealed(m_b)
    BY <1>2, <2>2, <2>3 DEF SealedInv
  <2>4. CASE Same(c)
    BY <1>2, <2>1, <2>2, <2>3, <2>4 DEF Same
  <2>5. CASE OthersStay(c) /\ (Writes(c) \/ Skips(c))
    <3>1. ans_vec'[c] = <<>>
      BY <2>5 DEF AnswersInv, Writes, Skips
    <3> QED
      BY <1>2, <3>1
  <2>6. CASE OthersStay(c) /\ Reads(c)
    <3>1. PICK k, v : k = <<uuid[c], peer[c], number[c], 2>> /\ v = store[k]
      OBVIOUS
    <3>2. /\ pc[c] = "poll" /\ round[c] = 2 /\ k \in DOMAIN store
          /\ ans_vec'[c] = Append(ans_vec[c], v)
      BY <1>2, <2>6, <3>1 DEF Reads
    <3>3. Sealed(v)
      BY <3>1, <3>2 DEF SealedInv
    <3>4. ans_vec[c] \in Seq(Value)
      BY DEF VectorTypeInv
    <3>5. m_b = v \/ (j \in 1 .. Len(ans_vec[c]) /\ m_b = ans_vec[c][j])
      BY <2>2, <3>2, <3>4
    <3>6. Sealed(m_b)
      BY <3>2, <3>3, <3>5 DEF SealedInv
    <3> QED
      BY <2>1, <2>2, <3>6
  <2>7. CASE Ends(c)
    BY <1>2, <2>7 DEF Ends
  <2>8. CASE SignUp(c) \/ Stop(c) \/ Abandoned(c)
    BY <1>2, <2>8 DEF SignUp, ReadSignup, WriteSignup, Stop, Abandoned, Restart, TypeInv
  <2> QED
    BY <2>4, <2>5, <2>6, <2>7, <2>8, Frame
<1> QED
  BY <1>1, <1>2 DEF SealedInv

(* What has been verified when a caller goes on from a round. *)
LEMMA GoesOn ==
    ASSUME ExchangeInv, SealedInv, NEW c \in Callers, Ends(c), pc'[c] # "panicked"
    PROVE  /\ round[c] = 0 => vec'[c][0][number[c]] = party_id[c]
           /\ \A j \in 1 .. Threshold :
                /\ round[c] = 2 => \E d \in Callers : vec'[c][2][j] = d /\ Peer(c, j, d)
                /\ round[c] = 4 => Without(vec'[c][4], number[c])[j] = vec[c][2][j]
                /\ round[c] = 9 => vec'[c][9][j] = Others(c, 4)[j]
<1> USE DEF ExchangeInv
<1>1. /\ pc[c] = "poll" /\ peer[c] > Signers /\ Collects(c) /\ round[c] \in 0 .. 9
      /\ number[c] \in Nat /\ Threshold \in Nat /\ Signers = Threshold + 1
  BY ThresholdAssumption DEF Ends, TypeInv, Signers
<1>2. ASSUME NEW r \in 0 .. 9, NEW v, NEW verified, Keep(c, r, v, verified)
      PROVE  round[c] = r /\ vec'[c][r] = v /\ verified
  BY <1>2 DEF Keep, EndRound, VectorTypeInv, TypeInv
<1>3. ASSUME round[c] = 0 PROVE vec'[c][0][number[c]] = party_id[c]
  <2>1. PICK ids : ids = [j \in 1 .. Len(ans_vec[c]) |-> ans_vec[c][j].id]
    OBVIOUS
  <2>2. PICK v, fits :
          /\ v = IF number[c] > Signers THEN ids ELSE FormatVec(ids, number[c], party_id[c])
          /\ fits = (number[c] <= Signers)
    OBVIOUS
  <2>3. Keep(c, 0, v, fits)
    BY <1>1, <1>3, <2>1, <2>2
       DEF Collects, CollectSigners, CollectCommitments, CollectMessageBs, CollectDeltas,
           OpenGammas, CollectPhase5A, OpenPhase5A, CollectPhase5C, OpenPhase5C,
           OutputSignature, Keep
  <2>4. vec'[c][0] = v /\ number[c] <= Signers
    <3>1. vec'[c][0] = v /\ fits
      BY <1>2, <2>3
    <3> QED
      BY <2>2, <3>1
  <2>5. v = FormatVec(ids, number[c], party_id[c])
    BY <1>1, <2>2, <2>4
  <2>6. Len(ids) = Threshold /\ number[c] \in 1 .. Signers
    <3>1. Len(ans_vec[c]) = Threshold /\ number[c] \in 1 .. Signers
      BY <1>1, <2>4, AllAnswered
    <3> QED
      BY <1>1, <2>1, <3>1
  <2> QED
    BY <1>1, <2>4, <2>5, <2>6 DEF FormatVec
<1>4. ASSUME round[c] = 2, NEW j \in 1 .. Threshold
      PROVE  \E d \in Callers : vec'[c][2][j] = d /\ Peer(c, j, d)
  <2>1. PICK verified :
          verified = \A i \in 1 .. Threshold :
                       LET m_b == ans_vec[c][i] IN
                       /\ m_b.ek = party_id[c] /\ m_b.on = c
                       /\ party_id[m_b.of] = SignersVec(c)[IF i < number[c] THEN i ELSE i + 1]
                       /\ m_b.signers = SignersVec(c)
    OBVIOUS
  <2>2. PICK v : v = Makers(c)
    OBVIOUS
  <2>3. CollectMessageBs(c)
    BY <1>1, <1>4
       DEF Collects, CollectSigners, CollectCommitments, CollectDeltas, OpenGammas,
           CollectPhase5A, OpenPhase5A, CollectPhase5C, OpenPhase5C, OutputSignature, Keep
  <2>4. Keep(c, 2, v, verified)
    BY <2>1, <2>2, <2>3 DEF CollectMessageBs
  <2>5. vec'[c][2] = v /\ verified
    BY <1>2, <2>4
  <2>6. Len(ans_vec[c]) = Threshold
    BY <1>1, <1>4, AllAnswered DEF MemberInv
  <2>7. PICK m_b : m_b = ans_vec[c][j]
    OBVIOUS
  <2>8. PICK d \in Callers : m_b.of = d /\ round[d] >= 2 /\ m_b.signers = vec[d][0]
    BY <1>1, <1>4, <2>6, <2>7 DEF SealedInv, Sealed
  <2>9. party_id[m_b.of] = SignersVec(c)[Nth(c, j)] /\ m_b.signers = SignersVec(c)
    BY <2>1, <2>5, <2>7 DEF Nth, Place
  <2>10. v[j] = d
    BY <2>2, <2>6, <2>7, <2>8 DEF Makers
  <2> QED
    BY <2>5, <2>8, <2>9, <2>10 DEF Peer, SignersVec
<1>5. ASSUME round[c] = 4, NEW j \in 1 .. Threshold
      PROVE  Without(vec'[c][4], number[c])[j] = vec[c][2][j]
  <2>1. PICK own, others : own = WithOwn(c) /\ others = Without(own, number[c])
    OBVIOUS
  <2>2. PICK verified :
          verified = \A i \in 1 .. Threshold :
                       others[i] = Others(c, 1)[i] /\ others[i] = vec[c][2][i]
    OBVIOUS
  <2>3. OpenGammas(c)
    BY <1>1, <1>5
       DEF Collects, CollectSigners, CollectCommitments, CollectMessageBs, CollectDeltas,
           CollectPhase5A, OpenPhase5A, CollectPhase5C, OpenPhase5C, OutputSignature, Keep
  <2>4. Keep(c, 4, own, verified)
    BY <2>1, <2>2, <2>3 DEF OpenGammas
  <2>5. vec'[c][4] = own /\ verified
    BY <1>2, <2>4
  <2> QED
    BY <2>1, <2>2, <2>5
<1>6. ASSUME round[c] = 9, NEW j \in 1 .. Threshold
      PROVE  vec'[c][9][j] = Others(c, 4)[j]
  <2>1. PICK others : others = Without(WithOwn(c), number[c])
    OBVIOUS
  <2>2. PICK verified :
          verified = \A i \in 1 .. Threshold :
                       others[i] = Others(c, 3)[i] /\ others[i] = Others(c, 4)[i]
    OBVIOUS
  <2>3. OutputSignature(c)
    BY <1>1, <1>6
       DEF Collects, CollectSigners, CollectCommitments, CollectMessageBs, CollectDeltas,
           OpenGammas, CollectPhase5A, OpenPhase5A, CollectPhase5C, OpenPhase5C, Keep
  <2>4. Keep(c, 9, others, verified)
    BY <2>1, <2>2, <2>3 DEF OutputSignature
  <2>5. vec'[c][9] = others /\ verified
    BY <1>2, <2>4
  <2> QED
    BY <2>2, <2>5
<1> QED
  BY <1>3, <1>4, <1>5, <1>6

LEMMA PeerStays ==
    ASSUME ExchangeInv, [Next]_vars, NEW c \in Callers, NEW d \in Callers, NEW j,
           round[c] > 0, Peer(c, j, d)
    PROVE  Peer(c, j, d)'
<1>1. /\ round[d] \in 0 .. 9 /\ round[c] \in 0 .. 9 /\ round'[d] \in 0 .. 9 /\ round[d] >= 2
      /\ 0 < round[c] /\ 0 < round[d]
  BY TypeStep DEF TypeInv, ExchangeInv, Peer
<1>2. /\ vec'[d][0] = vec[d][0] /\ round'[d] >= round[d]
      /\ vec'[c][0] = vec[c][0] /\ number'[c] = number[c]
  BY <1>1, KeptStays
<1> QED
  BY <1>1, <1>2 DEF Peer, Nth

LEMMA VerifiedStep ==
    ASSUME ExchangeInv, SealedInv, VerifiedInv, [Next]_vars
    PROVE  VerifiedInv'
<1> USE DEF ExchangeInv
<1> SUFFICES ASSUME NEW c \in Callers
             PROVE  /\ round'[c] > 0 => vec'[c][0][number'[c]] = party_id[c]
                    /\ \A j \in 1 .. Threshold :
                         /\ round'[c] > 2 =>
                              \E d \in Callers : vec'[c][2][j] = d /\ Peer(c, j, d)'
                         /\ round'[c] > 4 => Others(c, 4)'[j] = vec'[c][2][j]
                         /\ pc'[c] = "done" => vec'[c][9][j] = Others(c, 4)'[j]
  BY DEF VerifiedInv
<1>1. round[c] \in 0 .. 9
  BY DEF TypeInv
<1>2. \/ round'[c] = round[c] /\ vec'[c] = vec[c] /\ pc'[c] = pc[c]
      \/ round'[c] = round[c] /\ pc'[c] # "done" /\ (vec'[c] = vec[c] \/ Ends(c))
      \/ Ends(c) /\ pc'[c] # "panicked"
  <2>1. CASE Same(c)
    BY <2>1 DEF Same
  <2>2. CASE (SignUp(c) \/ Stop(c) \/ Abandoned(c)) /\ UNCHANGED vec
    <3>1. pc'[c] # "done" /\ vec'[c] = vec[c]
      BY <2>2 DEF SignUp, ReadSignup, WriteSignup, Stop, Abandoned, Restart, TypeInv
    <3>2. round'[c] = round[c]
      BY <2>2 DEF SignUp, ReadSignup, WriteSignup, Stop, Abandoned, Restart
    <3> QED
      BY <3>1, <3>2
  <2>3. CASE Writes(c) \/ Skips(c) \/ Reads(c)
    BY <2>3 DEF Writes, Skips, Reads
  <2>4. CASE Ends(c)
    BY <2>4 DEF Ends
  <2> QED
    BY <2>1, <2>2, <2>3, <2>4, Frame
<1>3. \A r \in 0 .. 9 : r < round[c] => vec'[c][r] = vec[c][r] /\ number'[c] = number[c]
  BY KeptStays
<1>4. Ends(c) => /\ number'[c] = number[c]
                 /\ round'[c] \in {round[c], round[c] + 1}
                 /\ pc'[c] = "done" => round[c] = 9
  BY MembersStay DEF Ends, SignupInv
<1>5. ASSUME round'[c] > 0 PROVE vec'[c][0][number'[c]] = party_id[c]
  <2>1. CASE round[c] > 0
    BY <1>1, <1>3, <2>1 DEF VerifiedInv
  <2>2. CASE round[c] = 0
    BY <1>2, <1>4, <1>5, <2>2, GoesOn
  <2> QED
    BY <1>1, <2>1, <2>2
<1>6. ASSUME NEW j \in 1 .. Threshold, round'[c] > 2
      PROVE  \E d \in Callers : vec'[c][2][j] = d /\ Peer(c, j, d)'
  <2>1. PICK d \in Callers : vec'[c][2][j] = d /\ Peer(c, j, d) /\ round[c] > 0
    <3>1. CASE round[c] > 2
      BY <1>1, <1>3, <3>1 DEF VerifiedInv
    <3>2. CASE ~(round[c] > 2)
      <4>1. round[c] = 2 /\ Ends(c) /\ pc'[c] # "panicked"
        BY <1>1, <1>2, <1>4, <1>6, <3>2
      <4> QED
        BY <4>1, GoesOn
    <3> QED
      BY <3>1, <3>2
  <2> QED
    BY <2>1, PeerStays
<1>7. ASSUME NEW j \in 1 .. Threshold, round'[c] > 4
      PROVE  Others(c, 4)'[j] = vec'[c][2][j]
  <2>1. CASE round[c] > 4
    BY <1>1, <1>3, <2>1 DEF VerifiedInv, Others
  <2>2. CASE ~(round[c] > 4)
    <3>1. round[c] = 4 /\ Ends(c) /\ pc'[c] # "panicked"
      BY <1>1, <1>2, <1>4, <1>7, <2>2
    <3>2. Without(vec'[c][4], number[c])[j] = vec[c][2][j]
      BY <3>1, GoesOn
    <3> QED
      BY <1>3, <1>4, <3>1, <3>2 DEF Others
  <2> QED
    BY <2>1, <2>2
<1>8. ASSUME NEW j \in 1 .. Threshold, pc'[c] = "done"
      PROVE  vec'[c][9][j] = Others(c, 4)'[j]
  <2>1. CASE pc[c] = "done" /\ vec'[c] = vec[c]
    <3>1. round[c] = 9
      BY <2>1 DEF DoneInv
    <3> QED
      BY <1>3, <2>1, <3>1 DEF VerifiedInv, Others
  <2>2. CASE Ends(c)
    <3>1. round[c] = 9 /\ vec'[c][9][j] = Others(c, 4)[j]
      BY <1>4, <1>8, <2>2, GoesOn
    <3> QED
      BY <1>3, <3>1 DEF Others
  <2> QED
    BY <1>2, <1>8, <2>1, <2>2
<1> QED
  BY <1>5, <1>6, <1>7, <1>8

(* A call that goes on from round 2 has counted the signers of one         *)
(* computation, at each number the one whose MessageB it has, and who      *)
(* counts the same; a signature that it returns has the share of each.     *)
THEOREM SignaturesJoint == Spec => []SignatureJoint
<1>1. Init => SealedInv /\ VerifiedInv
  BY DEF Init, ExchangeInit, SealedInv, VerifiedInv
<1>2. ExchangeInv /\ SealedInv /\ VerifiedInv /\ [Next]_vars => SealedInv' /\ VerifiedInv'
  BY SealedStep, VerifiedStep
<1>3. ExchangeInv /\ VerifiedInv => SignatureJoint
  <2> SUFFICES ASSUME ExchangeInv, VerifiedInv, NEW c \in Callers, round[c] > 2,
                      NEW n \in 1 .. Signers
               PROVE  \E d \in Callers :
                        /\ SameRun(c, d) /\ number[d] = n
                        /\ SignersVec(c)[n] = party_id[d]
                        /\ SignersVec(d) = SignersVec(c)
                        /\ \/ d = c
                           \/ \E j \in 1 .. Threshold :
                                vec[c][2][j] = d /\ (pc[c] = "done" => vec[c][9][j] = d)
    BY DEF SignatureJoint
  <2> USE DEF ExchangeInv
  <2>1. round[c] \in 0 .. 9 /\ round[c] > 0
    BY DEF TypeInv
  <2>2. /\ number[c] \in 1 .. Signers /\ uuid[c] # NoUuid
        /\ Threshold \in Nat /\ Signers = Threshold + 1
    <3>1. parties[c] \in Nat
      BY CountsAssumption DEF TypeInv
    <3>2. number[c] \in Nat
      BY DEF TypeInv
    <3> QED
      BY <2>1, <3>1, <3>2, ThresholdAssumption DEF MemberInv, Signers
  <2>3. CASE n = number[c]
    <3>1. SignersVec(c)[n] = party_id[c]
      BY <2>1, <2>3 DEF VerifiedInv, SignersVec
    <3> QED
      BY <2>2, <2>3, <3>1 DEF SameRun
  <2>4. CASE n # number[c]
    <3>1. PICK j \in 1 .. Threshold : n = Nth(c, j)
      BY <2>2, <2>4, Places DEF Nth
    <3>2. PICK d \in Callers : vec[c][2][j] = d /\ Peer(c, j, d)
      BY <3>1 DEF VerifiedInv
    <3>3. OthersAligned(c, vec[c][2])
      BY <2>2, <2>1 DEF VectorsInv, Filled
    <3>4. SameRun(c, d) /\ number[d] = n
      BY <3>1, <3>2, <3>3 DEF OthersAligned, PartyAt
    <3>5. SignersVec(c)[n] = party_id[d] /\ SignersVec(d) = SignersVec(c)
      BY <3>1, <3>2 DEF Peer, SignersVec
    <3>6. pc[c] = "done" => vec[c][9][j] = d
      <4>1. pc[c] = "done" => round[c] > 4
        BY DEF DoneInv
      <4> QED
        BY <3>2, <4>1 DEF VerifiedInv
    <3> QED
      BY <3>1, <3>2, <3>4, <3>5, <3>6
  <2> QED
    BY <2>3, <2>4
<1> QED
  BY <1>1, <1>2, <1>3, ExchangeInvariant, PTL DEF Spec

-----------------------------------------------------------------------------
(***************************************************************************)
(* No deadlock: the parties of a computation do not all wait for values    *)
(* that are not in the map.                                                *)
(***************************************************************************)

(* What a caller has sent another signer in round 2 is in the map.         *)
SentInv ==
    \A c \in Callers : MapKept(c) =>
        \A to \in 1 .. Signers : to # number[c] /\ Wrote(c, to, 2) =>
            <<uuid[c], number[c], to, 2>> \in DOMAIN store

LEMMA SentStep ==
    ASSUME ExchangeInv, SentInv, [Next]_vars
    PROVE  SentInv'
<1> USE DEF ExchangeInv
<1> SUFFICES ASSUME NEW c \in Callers, MapKept(c)', NEW to \in 1 .. Signers,
                    to # number'[c], Wrote(c, to, 2)'
             PROVE  <<uuid'[c], number'[c], to, 2>> \in DOMAIN store'
  BY DEF SentInv
<1>1. uuid[c] # NoUuid
  <2>1. ASSUME uuid[c] = NoUuid PROVE FALSE
    <3>1. round[c] = 0 /\ pc[c] \notin {"send", "poll"}
      BY <2>1 DEF SignupInv, MemberInv
    <3>2. round'[c] = 0
      BY <3>1, Frame DEF Same, SignUp, ReadSignup, WriteSignup, Abandoned, Restart, Writes, Skips,
                         Reads, Ends, Stop
    <3> QED
      BY <3>2 DEF Wrote
  <2> QED
    BY <2>1
<1>2. /\ MapKept(c) /\ DOMAIN store \subseteq DOMAIN store' /\ uuid'[c] = uuid[c]
      /\ uuid[c] # NoUuid
  BY <1>1, MapStays
<1>3. number'[c] = number[c]
  BY <1>2, MembersStay
<1>4. Wrote(c, to, 2) => <<uuid[c], number[c], to, 2>> \in DOMAIN store'
  BY <1>2, <1>3 DEF SentInv
<1>5. /\ to \in Nat /\ to >= 1 /\ to <= Signers /\ to # number[c] /\ Signers \in Nat
      /\ number[c] \in Nat /\ peer[c] \in Nat /\ round[c] \in 0 .. 9
  BY <1>3, ThresholdAssumption DEF TypeInv, Signers
<1>6. to < Other(c, peer[c] + 1) => to <= peer[c]
  BY <1>5 DEF Other
<1>7. CASE OthersStay(c) /\ Writes(c)
  <2>1. PICK t \in Nat :
          /\ pc[c] = "send" /\ round'[c] = round[c]
          /\ Adds(<<uuid[c], number[c], t, round[c]>>)
          /\ round[c] = 2 => t = peer[c]
          /\ \/ round[c] = 2 => Other(c, peer[c] + 1) > Signers
             \/ pc'[c] = "send" /\ peer'[c] = Other(c, peer[c] + 1)
    BY <1>7 DEF Writes
  <2>2. CASE round[c] = 2
    <3>1. to <= peer[c]
      <4>1. Other(c, peer[c] + 1) \in Nat
        BY <1>5 DEF Other
      <4> QED
        BY <1>5, <1>6, <2>1, <2>2, <4>1 DEF Wrote
    <3>2. CASE to = peer[c]
      BY <1>2, <1>3, <2>1, <2>2, <3>2 DEF Adds
    <3>3. CASE to < peer[c]
      BY <1>2, <1>3, <1>4, <2>2, <3>3 DEF Wrote
    <3> QED
      BY <1>5, <3>1, <3>2, <3>3
  <2>3. CASE round[c] # 2
    BY <1>2, <1>3, <1>4, <1>5, <2>1, <2>3 DEF Wrote
  <2> QED
    BY <2>2, <2>3
<1>8. CASE OthersStay(c) /\ Skips(c)
  <2>1. to < peer[c]
    <3>1. ~(peer[c] <= Signers)
      BY <1>8 DEF Skips
    <3> QED
      BY <1>5, <3>1
  <2> QED
    BY <1>2, <1>3, <1>4, <1>8, <2>1 DEF Skips, Wrote
<1>9. CASE OthersStay(c) /\ Reads(c)
  BY <1>2, <1>3, <1>4, <1>9 DEF Reads, Wrote
<1>10. CASE OthersStay(c) /\ Ends(c)
  <2>1. /\ pc[c] = "poll" /\ peer'[c] = Other(c, 1)
        /\ \/ round'[c] = round[c] + 1 /\ pc'[c] = "send"
           \/ round'[c] = round[c]
    BY <1>10 DEF Ends
  <2>2. CASE round[c] >= 2
    BY <1>2, <1>3, <1>4, <1>5, <2>1, <2>2 DEF Wrote
  <2>3. CASE ~(round[c] >= 2)
    <3>1. round[c] = 1 /\ to < Other(c, 1)
      BY <1>5, <2>1, <2>3 DEF Wrote
    <3> QED
      BY <1>5, <3>1 DEF Other
  <2> QED
    BY <2>2, <2>3
<1>11. CASE Same(c)
  BY <1>2, <1>3, <1>4, <1>11 DEF Same, Wrote
<1>12. CASE Stop(c)
  <2>1. /\ round'[c] = round[c] /\ peer'[c] = peer[c]
        /\ \/ pc[c] = "poll" /\ pc'[c] = "left"
           \/ pc'[c] = "stopped"
    BY <1>12 DEF Stop, TypeInv
  <2> QED
    BY <1>2, <1>3, <1>4, <2>1 DEF Wrote
<1>13. ~SignUp(c) /\ ~Abandoned(c)
  BY <1>1 DEF SignUp, ReadSignup, WriteSignup, Abandoned, SignupInv
<1> QED
  BY <1>7, <1>8, <1>9, <1>10, <1>11, <1>12, <1>13, Frame

(* The next step of c is enabled. *)
CanProceed(c) ==
    \/ pc[c] = "send"
    \/ /\ pc[c] = "poll"
       /\ \/ peer[c] > Signers
          \/ Key(c, peer[c], IF round[c] = 2 THEN number[c] ELSE All, round[c]) \in DOMAIN store

(* The signers of the computation of c. *)
SignersOf(c) == {d \in Callers : SameRun(c, d) /\ number[d] <= Signers}

(* Once Threshold + 1 parties have signed up, as long as none of them      *)
(* stops, none has the number of another and the map is kept, they do not  *)
(* all wait for one another.                                               *)
NobodyStuck ==
    \A c \in Callers : Complete(c) /\ ~Disturbed(c) /\ DistinctNumbers =>
        \/ \A d \in SignersOf(c) : pc[d] = "done"
        \/ \E d \in SignersOf(c) : CanProceed(d)

(* The first number in a set of rounds. *)
LEMMA FirstRound ==
    ASSUME NEW T, T \subseteq 0 .. 9, T # {}
    PROVE  \E x \in T : \A y \in T : x <= y
<1> SUFFICES ASSUME \A x \in T : \E y \in T : ~(x <= y)
             PROVE  FALSE
  OBVIOUS
<1>1. 0 \notin T
  OBVIOUS
<1>2. 1 \notin T
  BY <1>1
<1>3. 2 \notin T
  BY <1>1, <1>2
<1>4. 3 \notin T
  BY <1>1, <1>2, <1>3
<1>5. 4 \notin T /\ 5 \notin T
  BY <1>1, <1>2, <1>3, <1>4
<1>6. 6 \notin T /\ 7 \notin T
  BY <1>1, <1>2, <1>3, <1>4, <1>5
<1>7. 8 \notin T /\ 9 \notin T
  BY <1>1, <1>2, <1>3, <1>4, <1>5, <1>6
<1>8. ASSUME NEW x \in 0 .. 9 PROVE x \notin T
  <2>1. \/ x = 0 \/ x = 1 \/ x = 2 \/ x = 3 \/ x = 4
        \/ x = 5 \/ x = 6 \/ x = 7 \/ x = 8 \/ x = 9
    OBVIOUS
  <2> QED
    BY <1>1, <1>2, <1>3, <1>4, <1>5, <1>6, <1>7, <2>1
<1> QED
  BY <1>8

(* Who is not ahead of its peer finds what it waits for in the map. *)
LEMMA PeerHasWritten ==
    ASSUME ExchangeInv, SentInv, NEW c \in Callers, pc[c] = "poll", number[c] <= Signers,
           peer[c] <= Signers, MapKept(c), NEW d \in Callers, PartyAt(c, peer[c], d),
           round[c] <= round[d], pc[d] \in {"poll", "done"}
    PROVE  CanProceed(c)
<1> USE DEF ExchangeInv
<1>1. /\ uuid[d] = uuid[c] /\ number[d] = peer[c] /\ uuid[d] # NoUuid /\ MapKept(d)
      /\ round[c] \in 0 .. 9 /\ round[d] \in 0 .. 9
  BY DEF PartyAt, SameRun, MapKept, TypeInv
<1>2. number[c] \in 1 .. Signers /\ peer[c] \in 1 .. Signers /\ peer[c] # number[c]
  BY ThresholdAssumption DEF SignupInv, MemberInv, TypeInv, Signers
<1>3. CASE round[c] = 2
  <2>1. Wrote(d, number[c], 2)
    BY <1>1, <1>3 DEF Wrote
  <2>2. <<uuid[d], number[d], number[c], 2>> \in DOMAIN store
    BY <1>1, <1>2, <2>1 DEF SentInv
  <2> QED
    BY <1>1, <1>3, <2>2 DEF CanProceed, Key
<1>4. CASE round[c] # 2
  <2>1. Known(d, number[d], round[c])
    BY <1>1 DEF Known, Wrote
  <2>2. <<uuid[d], number[d], All, round[c]>> \in DOMAIN store
    BY <1>1, <1>2, <1>4, <2>1 DEF KeptInv
  <2> QED
    BY <1>1, <1>4, <2>2 DEF CanProceed, Key
<1> QED
  BY <1>3, <1>4

(* As long as all signers are there, have a number each and the map is     *)
(* kept, they do not all wait for one another: one that is in the earliest *)
(* round finds what it waits for.                                          *)
THEOREM NoDeadlock == Spec => []NobodyStuck
<1>1. Init => SentInv
  BY DEF Init, ExchangeInit, SentInv, MapKept
<1>2. ExchangeInv /\ SentInv => NobodyStuck
  <2> SUFFICES ASSUME ExchangeInv, SentInv, NEW c \in Callers, Complete(c), ~Disturbed(c),
                      DistinctNumbers,
                      \E d \in SignersOf(c) : pc[d] # "done"
               PROVE  \E d \in SignersOf(c) : CanProceed(d)
    BY DEF NobodyStuck
  <2> USE DEF ExchangeInv
  <2>1. ASSUME NEW d \in SignersOf(c)
        PROVE  d \in Callers /\ MapKept(d) /\ number[d] <= Signers /\ SameRun(c, d)
    BY DEF Disturbed, MapKept, SignersOf, SameRun
  <2>2. ASSUME NEW d \in SignersOf(c) PROVE pc[d] \in {"send", "poll", "done"}
    <3>1. uuid[d] # NoUuid /\ number[d] # 0 /\ number[d] <= Signers /\ number[d] \in Nat
      BY <2>1, CountsAssumption DEF SameRun, MemberInv, TypeInv
    <3>2. pc[d] # "panicked"
      BY <2>1, <3>1, ThresholdAssumption DEF ReadsVerify, Signers
    <3>3. pc[d] \notin {"signup", "write"}
      BY <2>1, <3>1 DEF SignupInv
    <3> QED
      BY <2>1, <3>2, <3>3 DEF Disturbed, TypeInv
  <2>3. SUFFICES ASSUME \A d \in SignersOf(c) : pc[d] # "send"
                 PROVE  \E d \in SignersOf(c) : CanProceed(d)
    BY DEF CanProceed
  <2> DEFINE T == {round[d] : d \in {x \in SignersOf(c) : pc[x] = "poll"}}
  <2>4. T # {} /\ T \subseteq 0 .. 9
    <3>1. PICK d \in SignersOf(c) : pc[d] = "poll"
      BY <2>2, <2>3
    <3>2. round[d] \in T
      BY <3>1
    <3>3. \A e \in SignersOf(c) : round[e] \in 0 .. 9
      BY <2>1 DEF TypeInv
    <3> QED
      BY <3>2, <3>3
  <2>5. PICK least \in T : \A r \in T : least <= r
    <3> HIDE DEF T
    <3> QED
      BY <2>4, FirstRound
  <2>6. PICK d \in SignersOf(c) : pc[d] = "poll" /\ round[d] = least
    BY <2>5
  <2>7. CASE peer[d] > Signers
    BY <2>6, <2>7 DEF CanProceed
  <2>8. CASE ~(peer[d] > Signers)
    <3>1. peer[d] \in 1 .. Signers
      BY <2>1, <2>6, <2>8, ThresholdAssumption DEF MemberInv, TypeInv, Signers
    <3>2. PICK e \in Callers : SameRun(c, e) /\ number[e] = peer[d]
      BY <3>1 DEF Complete
    <3>3. e \in SignersOf(c) /\ PartyAt(d, peer[d], e)
      BY <2>1, <3>1, <3>2 DEF SignersOf, PartyAt, SameRun
    <3>4. round[d] <= round[e] /\ pc[e] \in {"poll", "done"}
      <4>1. CASE pc[e] = "poll"
        BY <2>5, <2>6, <3>3, <4>1
      <4>2. CASE pc[e] = "done"
        BY <2>1, <2>6, <3>3, <4>2 DEF DoneInv, TypeInv
      <4> QED
        BY <2>2, <2>3, <3>3, <4>1, <4>2
    <3> QED
      BY <2>1, <2>6, <3>1, <3>3, <3>4, PeerHasWritten
  <2> QED
    BY <2>7, <2>8
<1> QED
  BY <1>1, <1>2, SentStep, ExchangeInvariant, PTL DEF Spec

=============================================================================
