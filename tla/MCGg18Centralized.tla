------------------------- MODULE MCGg18Centralized -------------------------
(* Instances of Gg18Centralized for TLC. *)
EXTENDS Gg18Centralized

MCPartyId == CHOOSE f \in [Callers -> 1 .. Cardinality(Callers)] :
                 \A c, d \in Callers : c # d => f[c] # f[d]

=============================================================================
