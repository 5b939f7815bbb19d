----------------------------- MODULE Gg18Keygen -----------------------------
(***************************************************************************)
(* The five rounds of a GG18 key generation: src/src/ecdsa/gg_2018/        *)
(* keygen.rs.  Cryptographic values are named by the caller they were made *)
(* by and what they are for; a verification succeeds when the values it    *)
(* compares belong together, which is what it is for.                      *)
(***************************************************************************)
EXTENDS RoundExchange

VARIABLES bc1_vec, decom_vec, party_shares, vss_scheme_vec, dlog_proof_vec

vecs == <<bc1_vec, decom_vec, party_shares, vss_scheme_vec, dlog_proof_vec>>
vars == <<exchangeVars, vecs>>

(* A party makes one value of each kind, and a share for each number.      *)
Made(kinds) == [kind: kinds, of: Callers]
Share       == [of: Callers, at: Nat]
AeadPack    == [key: SUBSET Callers, plain: Share]
Value       == Made({"bc", "decom", "vss", "dlog_proof"}) \cup AeadPack

Own(c, kind) == [kind |-> kind, of |-> c]

(* What a party broadcasts in each round but the third. *)
Kind == [r \in {1, 2, 4, 5} |->
           CASE r = 1 -> "bc" [] r = 2 -> "decom" [] r = 4 -> "vss" [] r = 5 -> "dlog_proof"]

Init ==
    /\ ExchangeInit(1)
    /\ bc1_vec = [c \in Callers |-> <<>>]
    /\ decom_vec = [c \in Callers |-> <<>>]
    /\ party_shares = [c \in Callers |-> <<>>]
    /\ vss_scheme_vec = [c \in Callers |-> <<>>]
    /\ dlog_proof_vec = [c \in Callers |-> <<>>]

(* Faulty: the keys of all parties, the caller's own among them. *)
AllKeys(c) == [j \in 1 .. Len(decom_vec[c]) |-> {c, decom_vec[c][j].of}]

(* enc_keys[j]: the key c shares with the j-th other party, which either   *)
(* of the two derives from its own secret and the other's public point.    *)
EncKeys(c) ==
    LET others == Without(decom_vec[c], number[c]) IN
    [j \in 1 .. Len(others) |-> {c, others[j].of}]

(* The AEAD packs c prepares, one for each party i # number[c]. *)
AeadPacks(c) ==
    [i \in 1 .. parties[c] \ {number[c]} |->
        [key   |-> EncKeys(c)[IF i < number[c] THEN i ELSE i - 1],
         plain |-> [of |-> c, at |-> i]]]

(* aes_decrypt succeeds on each of the answers of round 3. *)
Decrypts(c) == \A j \in 1 .. Len(ans_vec[c]) : ans_vec[c][j].key = EncKeys(c)[j]

BroadcastRound(c) ==
    /\ round[c] # 3
    /\ Broadcast(c, Own(c, Kind[round[c]]))
    /\ UNCHANGED vecs

SendShare(c) ==
    /\ round[c] = 3
    /\ SendP2p(c, parties[c], AeadPacks(c))
    /\ UNCHANGED vecs

Read(c) ==
    /\ Poll(c, parties[c], IF round[c] = 3 THEN number[c] ELSE All)
    /\ UNCHANGED vecs

WithOwn(c, own) == FormatVec(ans_vec[c], number[c], own)

EndRound1(c) ==
    /\ round[c] = 1
    /\ EndRound(c, parties[c], 5, TRUE)
    /\ bc1_vec' = [bc1_vec EXCEPT ![c] = WithOwn(c, Own(c, "bc"))]
    /\ UNCHANGED <<decom_vec, party_shares, vss_scheme_vec, dlog_proof_vec>>

(* phase1_verify_com_...(..., decom_vec, bc1_vec): each decommitment opens *)
(* the commitment at the same place.                                       *)
EndRound2(c) ==
    LET decoms == WithOwn(c, Own(c, "decom")) IN
    /\ round[c] = 2
    /\ EndRound(c, parties[c], 5,
                \A i \in 1 .. parties[c] : decoms[i].of = bc1_vec[c][i].of)
    /\ decom_vec' = [decom_vec EXCEPT ![c] = decoms]
    /\ UNCHANGED <<bc1_vec, party_shares, vss_scheme_vec, dlog_proof_vec>>

EndRound3(c) ==
    LET plains == [j \in 1 .. Len(ans_vec[c]) |-> ans_vec[c][j].plain] IN
    /\ round[c] = 3
    /\ EndRound(c, parties[c], 5, Decrypts(c))
    /\ party_shares' = [party_shares EXCEPT ![c] =
                          FormatVec(plains, number[c], [of |-> c, at |-> number[c]])]
    /\ UNCHANGED <<bc1_vec, decom_vec, vss_scheme_vec, dlog_proof_vec>>

(* phase2_verify_vss_...: the share at each place is the one for this      *)
(* party's number, under the scheme and the point at the same place.       *)
EndRound4(c) ==
    LET schemes == WithOwn(c, Own(c, "vss")) IN
    /\ round[c] = 4
    /\ EndRound(c, parties[c], 5,
                \A i \in 1 .. parties[c] :
                    /\ party_shares[c][i] = [of |-> decom_vec[c][i].of, at |-> number[c]]
                    /\ schemes[i].of = decom_vec[c][i].of)
    /\ vss_scheme_vec' = [vss_scheme_vec EXCEPT ![c] = schemes]
    /\ UNCHANGED <<bc1_vec, decom_vec, party_shares, dlog_proof_vec>>

EndRound5(c) ==
    LET proofs == WithOwn(c, Own(c, "dlog_proof")) IN
    /\ round[c] = 5
    /\ EndRound(c, parties[c], 5,
                \A i \in 1 .. parties[c] : proofs[i].of = decom_vec[c][i].of)
    /\ dlog_proof_vec' = [dlog_proof_vec EXCEPT ![c] = proofs]
    /\ UNCHANGED <<bc1_vec, decom_vec, party_shares, vss_scheme_vec>>

(* The steps of keygen after the signup. *)
Proceed(c) ==
    \/ BroadcastRound(c)
    \/ SendShare(c)
    \/ Read(c)
    \/ EndRound1(c)
    \/ EndRound2(c)
    \/ EndRound3(c)
    \/ EndRound4(c)
    \/ EndRound5(c)

Next ==
    \/ \E c \in Callers : Proceed(c)
    \/ \E c \in Callers : SignUp(c) /\ UNCHANGED vecs
    \/ \E c \in Callers : Stop(c) /\ UNCHANGED vecs
    \/ Restart /\ UNCHANGED vecs

Spec == Init /\ [][Next]_vars

-----------------------------------------------------------------------------
TypeOK ==
    /\ ExchangeTypeOK(1, 5, Value)
    /\ bc1_vec \in [Callers -> Seq(Made({"bc"}))]
    /\ decom_vec \in [Callers -> Seq(Made({"decom"}))]
    /\ party_shares \in [Callers -> Seq(Share)]
    /\ vss_scheme_vec \in [Callers -> Seq(Made({"vss"}))]
    /\ dlog_proof_vec \in [Callers -> Seq(Made({"dlog_proof"}))]

(* What keygen returns, but for its own secrets: the Paillier keys, the    *)
(* VSS schemes and the summands of the public key.                         *)
KeyOf(c) ==
    [paillier_key_vec |-> [i \in 1 .. parties[c] |-> bc1_vec[c][i].of],
     vss_scheme_vec   |-> [i \in 1 .. parties[c] |-> vss_scheme_vec[c][i].of],
     y_sum            |-> {decom_vec[c][i].of : i \in 1 .. parties[c]}]

(* All or nothing: a call returns a key only of callers of its             *)
(* computation, one for each of its numbers, each asked for the same       *)
(* number of parties, and all calls of a computation that return a key     *)
(* return one: the same public part.  Callers may differ in what they ask  *)
(* for, signups may be spread over a restart, and parties may stop at any  *)
(* time: then nobody returns a key the others do not share.  Callers that  *)
(* got one number from the signup do not come to different keys either,    *)
(* but one of them may be counted by a caller that asks for more parties   *)
(* than the key is of.  That all parties hold the same public key is what  *)
(* the test of keygen asserts for three futures of one task.               *)
KeyAgreed ==
    \A c \in Callers : pc[c] = "done" =>
        /\ \A n \in 1 .. parties[c] :
             \E d \in Callers :
                /\ SameRun(c, d) /\ number[d] = n /\ bc1_vec[c][n].of = d
                /\ DistinctNumbers => parties[d] = parties[c]
        /\ \A d \in Callers : SameRun(c, d) /\ pc[d] = "done" => KeyOf(d) = KeyOf(c)

(* No call panics on what it read: the values that reach a verification or *)
(* a decryption are the ones it expects at that place, whatever the order  *)
(* in which the parties write and poll.  A call panics only for want of a  *)
(* number, or when two parties of a computation got one number.            *)
ReadsVerify ==
    DistinctNumbers => \A c \in Callers : pc[c] = "panicked" => number[c] = 0

(* A party ends a round only after every party it counts has written its   *)
(* values of that round: nobody is two rounds ahead of a party it needs.   *)
(* The decommitments of round 2 are not to be sent before every commitment *)
(* of round 1 is known.                                                    *)
HasSent(d, c, r) ==
    \/ round[d] > r
    \/ round[d] = r /\ (pc[d] \notin {"send", "stopped"} \/ (r = 3 /\ peer[d] > number[c]))

CommitFirst ==
    \A c \in Callers : round[c] > 1 =>
        \A n \in 1 .. parties[c] :
            \E d \in Callers : SameRun(c, d) /\ number[d] = n /\ HasSent(d, c, round[c] - 1)

=============================================================================
