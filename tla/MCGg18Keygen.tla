---------------------------- MODULE MCGg18Keygen ----------------------------
(* Instances of Gg18Keygen for TLC. *)
EXTENDS Gg18Keygen, TLC

CallerSymmetry == Permutations(Callers)

=============================================================================
