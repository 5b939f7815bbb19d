------------------------- MODULE MCGg20Computation -------------------------
(* Instances of Gg20Computation for TLC. *)
EXTENDS Gg20Computation

(* A key generation has rounds of both forms; the offline stage of a       *)
(* signature is followed by an online stage in any case.                   *)
MCRounds == [keygen |-> <<"broadcast", "p2p">>, sign |-> <<"broadcast">>]

=============================================================================
