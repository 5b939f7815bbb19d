--------------------------- MODULE Gg18Centralized ---------------------------
(***************************************************************************)
(* The centralized sign handler: `signatures` of                           *)
(* src/src/api/ecdsa/gg_2018/centralized.rs, which runs one `sign` for     *)
(* each key of the request and joins them.  The map is the handler's own,  *)
(* so no manager restarts under it; a panic of one call ends the request.  *)
(***************************************************************************)
EXTENDS Gg18Sign

VARIABLES
    keys,        \* the keys of the request, as the calls that sign with them
    response     \* what became of the request

centralizedVars == <<vars, keys, response>>

CentralizedInit ==
    /\ Init
    /\ \A c, d \in Callers : parties[c] = parties[d]
    /\ keys \in SUBSET Callers
    /\ response = "none"

(* "should provide {threshold + 1} keys" *)
Refuse ==
    /\ response = "none"
    /\ Cardinality(keys) < Threshold
    /\ response' = "refused"
    /\ UNCHANGED <<vars, keys>>

Accept ==
    /\ response = "none"
    /\ Cardinality(keys) >= Threshold
    /\ response' = "joining"
    /\ UNCHANGED <<vars, keys>>

(* A step of one of the joined futures.  They are polled by one task and   *)
(* one that signs up does not yield between the two locks.                 *)
StepOf(c) ==
    /\ response = "joining"
    /\ c \in keys
    /\ \A d \in Callers : pc[d] # "panicked"
    /\ \A d \in Callers \ {c} : pc[d] # "write"
    /\ \/ Proceed(c)
       \/ SignUp(c) /\ UNCHANGED vec
    /\ UNCHANGED <<keys, response>>

Answer ==
    /\ response = "joining"
    /\ \A c \in keys : pc[c] = "done"
    /\ response' = "signed"
    /\ UNCHANGED <<vars, keys>>

Fail ==
    /\ response = "joining"
    /\ \E c \in keys : pc[c] = "panicked"
    /\ response' = "failed"
    /\ UNCHANGED <<vars, keys>>

CentralizedNext ==
    \/ Refuse
    \/ Accept
    \/ \E c \in Callers : StepOf(c)
    \/ Answer
    \/ Fail

(* The task of the request is polled and its timers fire; join_all polls   *)
(* every future.                                                           *)
CentralizedSpec ==
    /\ CentralizedInit
    /\ [][CentralizedNext]_centralizedVars
    /\ WF_centralizedVars(Refuse \/ Accept \/ Answer \/ Fail)
    /\ \A c \in Callers : WF_centralizedVars(StepOf(c))

(* The handler refuses a request with the words that it should provide     *)
(* threshold + 1 keys, so a request it goes on with has as many, and is    *)
(* answered.  A request with exactly `threshold` keys is neither refused   *)
(* nor ever answered.                                                      *)
AcceptedIsAnswered ==
    response = "joining" ~> response \in {"signed", "failed"}

=============================================================================
