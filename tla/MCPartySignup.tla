--------------------------- MODULE MCPartySignup ---------------------------
(* Instances of PartySignup for TLC. *)
EXTENDS PartySignup, TLC

CallerSymmetry == Permutations(Callers) \cup Permutations(Rooms)

=============================================================================
