----------------------------- MODULE MCGg18Sign -----------------------------
(* Instances of Gg18Sign for TLC. *)
EXTENDS Gg18Sign

(* The parties of the key generation sign in some order. *)
MCPartyId == CHOOSE f \in [Callers -> 1 .. Cardinality(Callers)] :
                 \A c, d \in Callers : c # d => f[c] # f[d]

(* Callers differ in their name and their party_id, which is compared for  *)
(* equality only: it is enough that they sign up in the order of it.       *)
InOrder ==
    \A c, d \in Callers :
        party_id[c] < party_id[d] /\ pc[c] = "signup" => pc[d] = "signup"

(* A caller that stops is to the others one that is slow from then on, and *)
(* CompleteRunsFinish excuses it: one stop, or one restart, is enough.     *)
OneDisturbance ==
    restarts + Cardinality({c \in Callers : pc[c] \in {"stopped", "left"}}) <= 1

=============================================================================
