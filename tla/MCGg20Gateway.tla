--------------------------- MODULE MCGg20Gateway ---------------------------
(* Instances of Gg20Gateway for TLC. *)
EXTENDS Gg20Gateway
CONSTANTS n1, n2, k1, s1, s2

MCNodes   == {n1, n2}
MCKeygens == {k1}
MCSigns   == {s1, s2}
MCWorkers == [n \in MCNodes |-> IF n = n1 THEN 1 ELSE 2]

=============================================================================
