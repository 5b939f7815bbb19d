------------------------------ MODULE Gg18Sign ------------------------------
(***************************************************************************)
(* The ten rounds of a GG18 signature: src/src/ecdsa/gg_2018/sign.rs and   *)
(* the vectors format.rs makes of the answers.  Threshold + 1 parties take *)
(* part, whatever the number of parties they sign up for.  As in           *)
(* Gg18Keygen, a cryptographic value is named by the caller that made it.  *)
(***************************************************************************)
EXTENDS RoundExchange

CONSTANTS
    Threshold,
    party_id       \* the party_id in the key each caller signs with

ASSUME ThresholdAssumption == Threshold \in Nat \ {0}
ASSUME PartyIdAssumption   ==
    /\ party_id \in [Callers -> Nat \ {0}]
    /\ \A c, d \in Callers : c # d => party_id[c] # party_id[d]

VARIABLE vec       \* the vector each caller keeps of each round

vars == <<exchangeVars, vec>>

PartyIds == {party_id[c] : c \in Callers}

Signers == Threshold + 1

(* The value a party broadcasts in round 0 is its party_id, in round 2 it  *)
(* sends a MessageB to each other party, and in each other round it        *)
(* broadcasts a value of its own.                                          *)
PartyId  == [id: PartyIds]
Made     == [of: Callers]
MessageB == [of: Callers, ek: PartyIds, on: Callers, signers: Seq(PartyIds)]
Value    == PartyId \cup Made \cup MessageB

Init ==
    /\ ExchangeInit(0)
    /\ vec = [c \in Callers |-> [r \in 0 .. 9 |-> <<>>]]

Makers(c) == [j \in 1 .. Len(ans_vec[c]) |-> ans_vec[c][j].of]

WithOwn(c) == FormatVec(Makers(c), number[c], c)
Others(c, r) == Without(vec[c][r], number[c])

SignersVec(c) == vec[c][0]

(* format_message_b_and_ni_vec: the MessageB for party i answers the       *)
(* MessageA of that party under the Paillier key of its party_id.  The     *)
(* MessageAs are those of the other parties, in order.                     *)
MessageBs(c) ==
    LET m_a_vec == Others(c, 1) IN
    [i \in 1 .. Signers \ {number[c]} |->
        [of      |-> c,
         ek      |-> SignersVec(c)[i],
         on      |-> m_a_vec[IF i < number[c] THEN i ELSE i - 1],
         signers |-> SignersVec(c)]]

BroadcastRound(c) ==
    /\ round[c] # 2
    /\ Broadcast(c, IF round[c] = 0 THEN [id |-> party_id[c]] ELSE [of |-> c])
    /\ UNCHANGED vec

SendMessageB(c) ==
    /\ round[c] = 2
    /\ SendP2p(c, Signers, MessageBs(c))
    /\ UNCHANGED vec

Read(c) ==
    /\ Poll(c, Signers, IF round[c] = 2 THEN number[c] ELSE All)
    /\ UNCHANGED vec

Keep(c, r, v, verified) ==
    /\ round[c] = r
    /\ EndRound(c, Signers, 9, verified)
    /\ vec' = [vec EXCEPT ![c][r] = v]

(* format_signers.  A party numbered past the signers indexes the vector   *)
(* out of bounds.                                                          *)
CollectSigners(c) ==
    LET ids == [j \in 1 .. Len(ans_vec[c]) |-> ans_vec[c][j].id] IN
    Keep(c, 0,
         IF number[c] > Signers THEN ids ELSE FormatVec(ids, number[c], party_id[c]),
         number[c] <= Signers)

CollectCommitments(c) == Keep(c, 1, WithOwn(c), TRUE)

(* Faulty: whose proof it is, and for which signers, is not verified. *)
CollectMessageBsUnverified(c) ==
    Keep(c, 2, Makers(c),
         \A j \in 1 .. Threshold :
            ans_vec[c][j].ek = party_id[c] /\ ans_vec[c][j].on = c)

(* format_round2_alpha_and_miu_vec: each MessageB decrypts under c's own   *)
(* Paillier key, answers c's own MessageA and carries the proof of the     *)
(* signer at its place, who counts the same signers.                       *)
CollectMessageBs(c) ==
    LET from == [j \in 1 .. Threshold |->
                    SignersVec(c)[IF j < number[c] THEN j ELSE j + 1]] IN
    Keep(c, 2, Makers(c),
         \A j \in 1 .. Threshold :
            LET m_b == ans_vec[c][j] IN
            /\ m_b.ek = party_id[c]
            /\ m_b.on = c
            /\ party_id[m_b.of] = from[j]
            /\ m_b.signers = SignersVec(c))

CollectDeltas(c) == Keep(c, 3, WithOwn(c), TRUE)

(* Faulty: the caller's own commitment is left in bc1_vec. *)
OpenGammasMisplaced(c) ==
    LET decommit_vec == Without(WithOwn(c), number[c]) IN
    Keep(c, 4, WithOwn(c),
         \A j \in 1 .. Threshold :
            /\ decommit_vec[j] = vec[c][1][j]
            /\ decommit_vec[j] = vec[c][2][j])

(* phase4, after the caller's own entries are removed: commitment, proof   *)
(* and decommitment at one place are of one party.                         *)
OpenGammas(c) ==
    LET decommit_vec == Without(WithOwn(c), number[c]) IN
    Keep(c, 4, WithOwn(c),
         \A j \in 1 .. Threshold :
            /\ decommit_vec[j] = Others(c, 1)[j]
            /\ decommit_vec[j] = vec[c][2][j])

CollectPhase5A(c) == Keep(c, 5, WithOwn(c), TRUE)

OpenPhase5A(c) ==
    LET decomms == Without(WithOwn(c), number[c]) IN
    Keep(c, 6, WithOwn(c), \A j \in 1 .. Threshold : decomms[j] = Others(c, 5)[j])

CollectPhase5C(c) == Keep(c, 7, WithOwn(c), TRUE)

(* phase5d, over the vectors that include the caller. *)
OpenPhase5C(c) ==
    LET decommit5d_vec == WithOwn(c) IN
    Keep(c, 8, decommit5d_vec,
         \A i \in 1 .. Signers :
            /\ decommit5d_vec[i] = vec[c][7][i]
            /\ decommit5d_vec[i] = vec[c][6][i])

(* output_signature and check_sig: the shares are those of the signers     *)
(* whose deltas and gammas made R.                                         *)
OutputSignature(c) ==
    LET s_i_vec == Without(WithOwn(c), number[c]) IN
    Keep(c, 9, s_i_vec,
         \A j \in 1 .. Threshold :
            s_i_vec[j] = Others(c, 3)[j] /\ s_i_vec[j] = Others(c, 4)[j])

Proceed(c) ==
    \/ BroadcastRound(c)
    \/ SendMessageB(c)
    \/ Read(c)
    \/ CollectSigners(c)
    \/ CollectCommitments(c)
    \/ CollectMessageBs(c)
    \/ CollectDeltas(c)
    \/ OpenGammas(c)
    \/ CollectPhase5A(c)
    \/ OpenPhase5A(c)
    \/ CollectPhase5C(c)
    \/ OpenPhase5C(c)
    \/ OutputSignature(c)

Next ==
    \/ \E c \in Callers : Proceed(c)
    \/ \E c \in Callers : SignUp(c) /\ UNCHANGED vec
    \/ \E c \in Callers : Stop(c) /\ UNCHANGED vec
    \/ Restart /\ UNCHANGED vec

Spec == Init /\ [][Next]_vars

(* A call that can take a step takes one: its task is polled and its       *)
(* timers fire.  Nothing obliges a party to call, nor the manager to       *)
(* restart.                                                                *)
FairSpec == Spec /\ \A c \in Callers : WF_vars(Proceed(c))

-----------------------------------------------------------------------------
TypeOK ==
    /\ ExchangeTypeOK(0, 9, Value)
    /\ \A c \in Callers :
         /\ DOMAIN vec[c] = 0 .. 9
         /\ vec[c][0] \in Seq(PartyIds)
         /\ \A r \in 1 .. 9 : vec[c][r] \in Seq(Callers)

(* A signature is joint, even of parties that got one number from the      *)
(* signup: a call that goes on from round 2 has counted Threshold + 1      *)
(* parties of one computation, numbered 1 .. Threshold + 1; the party      *)
(* whose MessageB it has from each place is the one it counts there, and   *)
(* has counted the same parties; and when the call returns a signature,    *)
(* the share of this party is in it.                                       *)
SignatureJoint ==
    \A c \in Callers : round[c] > 2 =>
        \A n \in 1 .. Signers :
            \E d \in Callers :
                /\ SameRun(c, d) /\ number[d] = n
                /\ SignersVec(c)[n] = party_id[d]
                /\ SignersVec(d) = SignersVec(c)
                /\ \/ d = c
                   \/ \E j \in 1 .. Threshold :
                        vec[c][2][j] = d /\ (pc[c] = "done" => vec[c][9][j] = d)

(* No call panics on what it read, whatever the order in which the parties *)
(* write and poll: the vectors it pairs by position stay aligned through   *)
(* ten rounds of inserting and removing its own values.  A call panics for *)
(* want of a number, because enough others have signed up before it, or    *)
(* when two parties of a computation got one number.                       *)
ReadsVerify ==
    DistinctNumbers =>
        \A c \in Callers : pc[c] = "panicked" => number[c] = 0 \/ number[c] > Signers

(* A party reveals what opens a commitment, or its share of the signature, *)
(* only after every signer has written what must be fixed by then: the     *)
(* gammas of round 4 after the commitments of round 1, and so for rounds 6 *)
(* and 8; the share of round 9 after the openings of round 8.              *)
Fixed == {<<4, 1>>, <<6, 5>>, <<8, 7>>, <<9, 8>>}

RevealLast ==
    \A c \in Callers : MapKept(c) =>
        \A p \in Fixed :
            Key(c, number[c], All, p[1]) \in DOMAIN store =>
                \A n \in 1 .. Signers : Key(c, n, All, p[2]) \in DOMAIN store

Complete(c) ==
    /\ number[c] \in 1 .. Signers
    /\ \A n \in 1 .. Signers : \E d \in Callers : SameRun(c, d) /\ number[d] = n

Disturbed(c) ==
    \/ ~MapKept(c)
    \/ \E d \in Callers : SameRun(c, d) /\ pc[d] \in {"stopped", "left"}

(* Once Threshold + 1 parties have signed up, each of them gets the        *)
(* signature, unless one of them stops, the manager restarts or two get    *)
(* one number, and however many more sign up.  (None of these is undone:   *)
(* that it is so again and again means that it comes to be so.)            *)
CompleteRunsFinish ==
    []<>(\A c \in Callers :
            Complete(c) => pc[c] = "done" \/ Disturbed(c) \/ ~DistinctNumbers)

=============================================================================
