-------------------------------- MODULE Cancel --------------------------------
(***************************************************************************)
(* Cancellation of futures: CancelGuard, CancelHandle and Cancelable of    *)
(* util/futures.rs.                                                        *)
(*                                                                         *)
(* A guard owns the list of the cancel senders through an Arc, and its     *)
(* handles reach the list through weak references.  `refs` is who keeps a  *)
(* list alive: the guard, and every thread that has upgraded a handle and  *)
(* not let go yet.  Whoever lets go last drops the senders, one after the  *)
(* other, and each sender that is dropped cancels a future.                *)
(***************************************************************************)
CONSTANTS
    Guards,      \* the guards
    Users,       \* threads that hold a handle, each to make one future cancelable
    GuardOf,     \* the guard of each user's handle
    Shared       \* the guards that may be SharedCancelGuards

(* What is assumed of them, by the theorems of CancelProofs. *)
HandlesAssumption ==
    /\ GuardOf \in [Users -> Guards]
    /\ Guards \cap Users = {}
    /\ Shared \subseteq Guards

VARIABLES
    guard,             \* what has become of each guard
    refs,              \* the strong references to each guard's list
    cancel_senders,    \* the list: whose senders are in it
    step,              \* where each user stands in a call on its handle
    future             \* each user's Cancelable, as its receiver tells it

cancelVars == <<guard, refs, cancel_senders, step, future>>

(* A SharedCancelGuard is made without the guard it is for: the default of *)
(* its Option is None, and nothing sets it.  It is as one that is gone.    *)
CancelInit ==
    /\ guard \in [Guards -> {"none", "gone"}]
    /\ \A g \in Guards : guard[g] = "gone" => g \in Shared
    /\ refs = [g \in Guards |-> {}]
    /\ cancel_senders = [g \in Guards |-> {}]
    /\ step = [u \in Users |-> "idle"]
    /\ future = [u \in Users |-> "none"]

-----------------------------------------------------------------------------
(* The guard. *)

NewGuard(g) ==
    /\ guard[g] = "none"
    /\ guard' = [guard EXCEPT ![g] = "held"]
    /\ refs' = [refs EXCEPT ![g] = {g}]
    /\ UNCHANGED <<cancel_senders, step, future>>

(* By `cancel`, or because what owns it ends. *)
DropGuard(g) ==
    /\ guard[g] = "held"
    /\ refs' = [refs EXCEPT ![g] = @ \ {g}]
    /\ guard' = [guard EXCEPT ![g] = IF refs'[g] = {} THEN "dropping" ELSE "gone"]
    /\ UNCHANGED <<cancel_senders, step, future>>

GuardGone(g) ==
    /\ guard[g] = "dropping" /\ cancel_senders[g] = {}
    /\ guard' = [guard EXCEPT ![g] = "gone"]
    /\ UNCHANGED <<refs, cancel_senders, step, future>>

(* One sender of a list that nothing keeps alive. *)
DropSender(u) ==
    LET g == GuardOf[u] IN
    /\ refs[g] = {} /\ u \in cancel_senders[g]
    /\ cancel_senders' = [cancel_senders EXCEPT ![g] = @ \ {u}]
    /\ future' = [future EXCEPT ![u] = IF @ = "open" THEN "closed" ELSE @]
    /\ UNCHANGED <<guard, refs, step>>

-----------------------------------------------------------------------------
(* Calls on a handle, which its guard has made. *)

CanUpgrade(u) == step[u] = "idle" /\ refs[GuardOf[u]] # {}

CannotUpgrade(u) ==
    /\ step[u] = "idle" /\ refs[GuardOf[u]] = {}
    /\ guard[GuardOf[u]] # "none"

Upgrade(u, stage) ==
    /\ refs' = [refs EXCEPT ![GuardOf[u]] = @ \cup {u}]
    /\ step' = [step EXCEPT ![u] = stage]

(* Faulty: with a NeverCancel for the handle. *)
NeverCanceled(u) == step[u] = "idle" /\ UNCHANGED cancelVars

(* is_canceled, when the answer is no: the reference is dropped next. *)
NotCanceled(u) ==
    /\ CanUpgrade(u)
    /\ Upgrade(u, "leaving")
    /\ UNCHANGED <<guard, cancel_senders, future>>

(* Faulty: the list is not kept alive for the push. *)
RegisterUnheld(u) ==
    /\ future[u] = "none" /\ CanUpgrade(u)
    /\ step' = [step EXCEPT ![u] = "adding"]
    /\ future' = [future EXCEPT ![u] = "open"]
    /\ UNCHANGED <<guard, refs, cancel_senders>>

(* cancelable makes the channel, and add_cancel_sender takes its sender.   *)
Register(u) ==
    /\ future[u] = "none" /\ CanUpgrade(u)
    /\ Upgrade(u, "adding")
    /\ future' = [future EXCEPT ![u] = "open"]
    /\ UNCHANGED <<guard, cancel_senders>>

(* Too late: the sender is dropped instead. *)
RegisterCanceled(u) ==
    /\ future[u] = "none" /\ CannotUpgrade(u)
    /\ future' = [future EXCEPT ![u] = "closed"]
    /\ UNCHANGED <<guard, refs, cancel_senders, step>>

(* Through the guard itself, which is borrowed meanwhile. *)
RegisterByGuard(u) ==
    /\ future[u] = "none" /\ step[u] = "idle" /\ guard[GuardOf[u]] = "held"
    /\ cancel_senders' = [cancel_senders EXCEPT ![GuardOf[u]] = @ \cup {u}]
    /\ future' = [future EXCEPT ![u] = "open"]
    /\ UNCHANGED <<guard, refs, step>>

Push(u) ==
    /\ step[u] = "adding"
    /\ cancel_senders' = [cancel_senders EXCEPT ![GuardOf[u]] = @ \cup {u}]
    /\ step' = [step EXCEPT ![u] = "leaving"]
    /\ UNCHANGED <<guard, refs, future>>

(* Faulty: a handle keeps the list alive. *)
LetGoNever(u) ==
    /\ step[u] = "leaving"
    /\ step' = [step EXCEPT ![u] = "idle"]
    /\ UNCHANGED <<guard, refs, cancel_senders, future>>

(* The upgraded reference is dropped, and the list with it if it was the   *)
(* last.                                                                   *)
LetGo(u) ==
    /\ step[u] = "leaving"
    /\ refs' = [refs EXCEPT ![GuardOf[u]] = @ \ {u}]
    /\ step' = [step EXCEPT ![u] = IF refs'[GuardOf[u]] = {} THEN "dropping" ELSE "idle"]
    /\ UNCHANGED <<guard, cancel_senders, future>>

LetGone(u) ==
    /\ step[u] = "dropping" /\ cancel_senders[GuardOf[u]] = {}
    /\ step' = [step EXCEPT ![u] = "idle"]
    /\ UNCHANGED <<guard, refs, cancel_senders, future>>

-----------------------------------------------------------------------------
(* The Cancelable. *)

(* A poll asks the receiver first, ... *)
PollCanceled(u) ==
    /\ step[u] = "idle" /\ future[u] = "closed"
    /\ future' = [future EXCEPT ![u] = "canceled"]
    /\ UNCHANGED <<guard, refs, cancel_senders, step>>

(* ... and what is inside then, which may be done. *)
PollReady(u) ==
    /\ step[u] = "idle" /\ future[u] = "open"
    /\ future' = [future EXCEPT ![u] = "over"]
    /\ UNCHANGED <<guard, refs, cancel_senders, step>>

(* It is dropped without being polled again. *)
Forget(u) ==
    /\ step[u] = "idle" /\ future[u] \in {"open", "closed"}
    /\ future' = [future EXCEPT ![u] = "over"]
    /\ UNCHANGED <<guard, refs, cancel_senders, step>>

(* Dropping what nothing holds any more. *)
Dropping ==
    \/ \E g \in Guards : GuardGone(g)
    \/ \E u \in Users : DropSender(u) \/ LetGone(u)

CancelNext ==
    \/ \E g \in Guards : NewGuard(g) \/ DropGuard(g)
    \/ \E u \in Users : \/ NotCanceled(u) \/ Register(u) \/ RegisterCanceled(u)
                        \/ RegisterByGuard(u) \/ Push(u) \/ LetGo(u)
                        \/ PollCanceled(u) \/ PollReady(u) \/ Forget(u)
    \/ Dropping

CancelSpec == CancelInit /\ [][CancelNext]_cancelVars

-----------------------------------------------------------------------------
CancelTypeOK ==
    /\ guard \in [Guards -> {"none", "held", "dropping", "gone"}]
    /\ refs \in [Guards -> SUBSET (Guards \cup Users)]
    /\ cancel_senders \in [Guards -> SUBSET Users]
    /\ step \in [Users -> {"idle", "adding", "leaving", "dropping"}]
    /\ future \in [Users -> {"none", "open", "closed", "canceled", "over"}]

(* The guard cancels what it guards, all of it and nothing before: while   *)
(* the guard is there no Cancelable is cancelled, whoever comes and goes   *)
(* through a handle; and when the guard is gone, and nobody is inside a    *)
(* call on a handle or still dropping the list, none is left that could    *)
(* wait for a cancellation that will not come, those included that were    *)
(* added while the guard was dropped.                                      *)
CanceledIffGone ==
    \A u \in Users :
        LET g == GuardOf[u] IN
        /\ future[u] \in {"closed", "canceled"} => guard[g] \in {"dropping", "gone"}
        /\ future[u] = "open" /\ guard[g] \in {"dropping", "gone"}
             => refs[g] # {} \/ u \in cancel_senders[g]

=============================================================================
